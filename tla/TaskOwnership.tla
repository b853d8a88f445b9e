---------------------------- MODULE TaskOwnership ----------------------------
(***************************************************************************)
(* Who may drive the browser tab.                                          *)
(*                                                                         *)
(* The dashboard (frontend/src/adapters/extensionAdapter.ts) numbers runs  *)
(* and sends START, STOP and CONFIRM.  The service worker                  *)
(* (extension/src/background/serviceWorker.ts) keeps the id of the run     *)
(* that owns the tab and the one loop it can stop; every START runs an     *)
(* async body that prepares a tab and then awaits the loop's runTask.  A   *)
(* loop (extension/src/agent/agentLoop.ts) has a one-way lifecycle.        *)
(*                                                                         *)
(* A step is a synchronous section between two awaits.  bodyPc and cycle   *)
(* name the await that a body or a loop is suspended in, so that STOP and  *)
(* START arrive between any two sections.  Messages arrive in the order    *)
(* they were posted.  What the card shows is left to the environment: the  *)
(* dashboard may replace a run or answer a confirmation at any time.       *)
(***************************************************************************)
EXTENDS Integers, FiniteSets

CONSTANTS
  MaxBodies,    \* bound of the model: START messages that begin a body
  MaxRuns,      \* bound of the model: run ids the dashboard hands out
  MaxSteps,     \* maxSteps of a loop, 10 in the service worker
  MaxConfirms,  \* bound of the model: confirmations the user gives
  MaxReloads,   \* bound of the model: reloads of the dashboard page
  Tasks         \* texts that the intent boundary admits as browser work

ASSUME BoundsAssumption ==
  MaxBodies \in Nat /\ MaxRuns \in Nat /\ MaxSteps \in Nat /\ MaxConfirms \in Nat /\ MaxReloads \in Nat

Bodies == 1..MaxBodies

\* "again": a continuation or retry phrase.  "other": everything else the user says.
Texts == Tasks \cup {"again", "other"}

VARIABLES
  dashRun,     \* currentRunId of the adapter
  offered,     \* the run whose startTask awaits the ping, or 0
  starting,    \* isStartingTask
  cardText,    \* state.task of the adapter
  owner,       \* history: the body that the dashboard's current run started, or 0
  shown,       \* history: the body whose progress the card took last, or 0
  told,        \* history: the body whose final state the card took last, or 0
  reloads,     \* reloads so far
  confirms,    \* confirmations so far
  active,      \* activeTaskRunId
  activeLoop,  \* the body whose loop is activeLoop, or 0
  talk,        \* activeConversation, named by the body that opened it, 0 when null
  anchored,    \* activeConversation has candidates that a later turn can refer to
  last,        \* lastTaskExecutionState, run = 0 when null
  token,       \* taskOwnershipToken of each body, -1 before it exists
  text,        \* the text of the START of each body
  task,        \* effectiveTask, the text its loop works on
  spoken,      \* resolvedConversationId of each body
  continues,   \* history: the body whose task this one continues, or 0
  bodyPc,      \* the await each body is suspended in
  life,        \* lifecycle of each loop
  status,      \* state.status of each loop
  steps,       \* state.currentStep of each loop
  cycle,       \* the await each loop is suspended in, "none" when it does not run
  resumed,     \* the running section of the loop is resumeWithConfirmation
  closing,     \* a runTask of the loop awaits clearTracker, its last await
  late         \* history: actions sent to the tab after the body lost the tab

dashVars == <<dashRun, offered, starting, cardText, owner, shown, told, reloads, confirms>>
workerVars == <<active, activeLoop, talk, anchored, last>>
bodyVars == <<token, text, task, spoken, continues, bodyPc>>
loopVars == <<life, status, steps, cycle, resumed, closing, late>>
vars == <<dashVars, workerVars, bodyVars, loopVars>>

NoRun == [run |-> 0, text |-> "other", talk |-> 0, status |-> "FAILED", cancelled |-> FALSE]

Claimed == {n \in Bodies : bodyPc[n] # "none"}

Owns(n) == token[n] = active
----------------------------------------------------------------------------
Init ==
  /\ dashRun = 0 /\ offered = 0 /\ starting = FALSE /\ cardText = "other" /\ owner = 0 /\ shown = 0 /\ told = 0
  /\ reloads = 0 /\ confirms = 0
  /\ active = 0 /\ activeLoop = 0 /\ talk = 0 /\ anchored = FALSE /\ last = NoRun
  /\ token = [n \in Bodies |-> -1]
  /\ text = [n \in Bodies |-> "other"]
  /\ task = [n \in Bodies |-> "other"]
  /\ spoken = [n \in Bodies |-> 0]
  /\ continues = [n \in Bodies |-> 0]
  /\ bodyPc = [n \in Bodies |-> "none"]
  /\ life = [n \in Bodies |-> "ACTIVE"]
  /\ status = [n \in Bodies |-> "IN_PROGRESS"]
  /\ steps = [n \in Bodies |-> 0]
  /\ cycle = [n \in Bodies |-> "none"]
  /\ resumed = [n \in Bodies |-> FALSE]
  /\ closing = [n \in Bodies |-> FALSE]
  /\ late = [n \in Bodies |-> 0]

\* cancel(): the first call ends the lifecycle, and the status if it is open.
Halt(n, how) ==
  IF n # 0 /\ life[n] = "ACTIVE"
    THEN /\ life' = [life EXCEPT ![n] = how]
         /\ status' = [status EXCEPT ![n] =
              IF @ \in {"IN_PROGRESS", "NEEDS_USER_CONFIRMATION"} THEN "STOPPED" ELSE @]
    ELSE UNCHANGED <<life, status>>

\* STOP_TASK in the worker: the id moves on, the loop is halted and forgotten,
\* and the last task is marked as cancelled, whichever run it was.
WorkerStops(how) ==
  /\ active' = active + 1
  /\ Halt(activeLoop, how)
  /\ activeLoop' = 0
  /\ last' = IF last.run = 0 THEN last ELSE [last EXCEPT !.status = "STOPPED", !.cancelled = TRUE]
  /\ UNCHANGED <<talk, anchored>>

\* The card of the dashboard's current run shows it as RUNNING.
OnCard == owner # 0 /\ (told # owner \/ cycle[owner] # "none")

\* Mutant: the run id of the progress is not compared.
AcceptsAnyRun(n, about) == about = cardText

\* handleExtensionProgress: only the current run and the current text are shown.
Accepts(n, about) == token[n] = dashRun /\ about = cardText

Show(n, about) == shown' = IF Accepts(n, about) THEN n ELSE shown

ShowFinal(n, about) ==
  /\ Show(n, about)
  /\ told' = IF Accepts(n, about) THEN n ELSE told
----------------------------------------------------------------------------
\* startTask: a new run id, the running task is stopped, the ping is awaited.
StartTask(replaces) ==
  /\ dashRun < MaxRuns
  /\ IF replaces THEN starting \/ OnCard ELSE ~starting
  /\ starting' = TRUE
  /\ dashRun' = dashRun + 1
  /\ offered' = dashRun + 1
  /\ cardText' \in Texts
  /\ owner' = 0
  /\ shown' = 0
  /\ told' = 0
  /\ IF replaces THEN WorkerStops("SUPERSEDED") ELSE UNCHANGED <<workerVars, life, status>>
  /\ UNCHANGED <<reloads, confirms, bodyVars, steps, cycle, resumed, closing, late>>

\* stopTask: the run id moves on, so that a start awaiting its ping is dropped
\* (and leaves isStartingTask set).
StopTask ==
  /\ dashRun < MaxRuns
  /\ offered # 0 \/ OnCard
  /\ dashRun' = dashRun + 1
  /\ offered' = 0
  /\ owner' = 0
  /\ shown' = 0
  /\ told' = 0
  /\ WorkerStops("CANCELLED")
  /\ UNCHANGED <<starting, cardText, reloads, confirms, bodyVars, steps, cycle, resumed, closing, late>>

\* The dashboard page is loaded again: a new adapter counts from 0.
Reload ==
  /\ reloads < MaxReloads
  /\ reloads' = reloads + 1
  /\ dashRun' = 0
  /\ offered' = 0
  /\ starting' = FALSE
  /\ cardText' = "other"
  /\ owner' = 0
  /\ shown' = 0
  /\ told' = 0
  /\ UNCHANGED <<confirms, workerVars, bodyVars, loopVars>>

\* A START that admits browser work: the body n takes the tab, the loop that is
\* running is superseded, and the body runs to its first await.  The id of the
\* conversation is resolved before the turn opens one of its own.
Claim(n, works, from, opens) ==
  /\ bodyPc[n] = "none"
  /\ \A m \in Bodies : m < n => bodyPc[m] # "none"
  /\ offered' = 0
  /\ starting' = FALSE
  /\ active' = dashRun
  /\ Halt(activeLoop, "SUPERSEDED")
  /\ activeLoop' = 0
  /\ IF opens
       THEN talk' = n /\ anchored' = FALSE
       ELSE UNCHANGED <<talk, anchored>>
  /\ token' = [token EXCEPT ![n] = dashRun]
  /\ text' = [text EXCEPT ![n] = cardText]
  /\ task' = [task EXCEPT ![n] = works]
  /\ spoken' = [spoken EXCEPT ![n] = talk]
  /\ continues' = [continues EXCEPT ![n] = from]
  /\ bodyPc' = [bodyPc EXCEPT ![n] = "query"]
  /\ owner' = n
  /\ UNCHANGED <<dashRun, cardText, shown, told, reloads, confirms, last, steps, cycle, resumed, closing, late>>

TaskArrives(n) ==
  /\ offered # 0
  /\ cardText \in Tasks
  /\ \E opens \in BOOLEAN :
       /\ ~opens => anchored
       /\ Claim(n, cardText, 0, opens)

\* A continuation phrase resolves to the last task if that was not cancelled and
\* was given in the same conversation, and its text is admitted.
MayContinue ==
  /\ cardText = "again"
  /\ last.run # 0
  /\ ~last.cancelled
  /\ last.talk = talk
  /\ last.text \in Tasks

ContinueArrives(n) ==
  /\ offered # 0
  /\ MayContinue
  /\ \E opens \in BOOLEAN : Claim(n, last.text, last.run, opens)

\* An inspection, a refused intent or a refused continuation is answered at once:
\* it takes the run id and leaves the loop alone.
AnswerArrives ==
  /\ offered # 0
  /\ cardText \notin Tasks
  /\ ~MayContinue
  /\ offered' = 0
  /\ starting' = FALSE
  /\ active' = dashRun
  /\ UNCHANGED <<dashRun, cardText, owner, shown, told, reloads, confirms, activeLoop, talk,
                 anchored, last, bodyVars, loopVars>>

\* A conversational turn takes nothing; one that opens with a cancellation
\* supersedes the loop.
ChatArrives(cancelling) ==
  /\ offered # 0
  /\ cardText = "other"
  /\ offered' = 0
  /\ starting' = FALSE
  /\ IF cancelling
       THEN Halt(activeLoop, "SUPERSEDED") /\ activeLoop' = 0
       ELSE UNCHANGED <<life, status, activeLoop>>
  /\ UNCHANGED <<dashRun, cardText, owner, shown, told, reloads, confirms, active, talk, anchored, last, bodyVars,
                 steps, cycle, resumed, closing, late>>

\* The prompt of the active loop can be answered: it is shown until the loop
\* reports again or a new run has its own card.
Prompted ==
  /\ activeLoop # 0
  /\ life[activeLoop] = "ACTIVE"
  /\ owner = activeLoop \/ offered # 0
  /\ \/ status[activeLoop] = "NEEDS_USER_CONFIRMATION"
     \/ resumed[activeLoop] /\ cycle[activeLoop] \in {"gate", "check", "sent"}

\* CONFIRM_ACTION, allowed: resumeWithConfirmation on whatever loop is active.
ConfirmArrives ==
  /\ confirms < MaxConfirms
  /\ Prompted
  /\ status[activeLoop] = "NEEDS_USER_CONFIRMATION"
  /\ confirms' = confirms + 1
  /\ status' = [status EXCEPT ![activeLoop] = "IN_PROGRESS"]
  /\ cycle' = [cycle EXCEPT ![activeLoop] = "gate"]
  /\ resumed' = [resumed EXCEPT ![activeLoop] = TRUE]
  /\ UNCHANGED <<dashRun, offered, starting, cardText, owner, shown, told, reloads, workerVars, bodyVars,
                 life, steps, closing, late>>

\* Mutant: declining takes the run id from the loop, as STOP does.
DeclineTakesId == active' = active + 1

DeclineMovesId == UNCHANGED active

\* CONFIRM_ACTION, declined: the loop is stopped; the run id stays.
DenyArrives ==
  /\ Prompted
  /\ Halt(activeLoop, "CANCELLED")
  /\ DeclineMovesId
  /\ IF Owns(activeLoop) THEN Show(activeLoop, task[activeLoop]) ELSE UNCHANGED shown
  /\ UNCHANGED <<dashRun, offered, starting, cardText, owner, told, reloads, confirms, activeLoop, talk,
                 anchored, last, bodyVars, steps, cycle, resumed, closing, late>>
----------------------------------------------------------------------------
BodyGoesTo(n, pc) ==
  /\ bodyPc' = [bodyPc EXCEPT ![n] = pc]
  /\ UNCHANGED <<dashRun, offered, starting, cardText, owner, reloads, confirms, workerVars,
                 token, text, task, spoken, continues, loopVars>>

\* An early end of the body, reported as FAILED.
BodyFails(n) == BodyGoesTo(n, "done") /\ ShowFinal(n, text[n])

\* chrome.tabs.query answered.
BodyQueried(n) ==
  /\ bodyPc[n] = "query"
  /\ IF Owns(n)
       THEN \/ \E pc \in {"provision", "ready"} : BodyGoesTo(n, pc) /\ UNCHANGED <<shown, told>>
            \/ BodyFails(n)
       ELSE BodyGoesTo(n, "done") /\ UNCHANGED <<shown, told>>

\* A tab was opened for the task, or could not be.
BodyProvisioned(n) ==
  /\ bodyPc[n] = "provision"
  /\ IF Owns(n)
       THEN \/ BodyGoesTo(n, "ready") /\ UNCHANGED <<shown, told>>
            \/ BodyFails(n)
       ELSE BodyGoesTo(n, "done") /\ UNCHANGED <<shown, told>>

\* ensureTargetTabReady answered: FAILED or the first RUNNING is sent, whoever
\* owns the tab by now.
BodyReady(n) ==
  /\ bodyPc[n] = "ready"
  /\ \/ BodyGoesTo(n, "announce") /\ Show(n, text[n]) /\ UNCHANGED told
     \/ BodyFails(n)

\* The first progress was delivered: the loop is made and runs.
\* Mutant: the id is not compared before the loop is made.
MayStartLoopAlways(n) == n \in Bodies

MayStartLoop(n) == Owns(n)

BodyStartsLoop(n) ==
  /\ bodyPc[n] = "announce"
  /\ IF MayStartLoop(n)
       THEN /\ bodyPc' = [bodyPc EXCEPT ![n] = "loop"]
            /\ activeLoop' = n
            /\ cycle' = [cycle EXCEPT ![n] = "think"]
       ELSE /\ bodyPc' = [bodyPc EXCEPT ![n] = "done"]
            /\ UNCHANGED <<activeLoop, cycle>>
  /\ UNCHANGED <<dashVars, active, talk, anchored, last, token, text, task, spoken, continues,
                 life, status, steps, resumed, closing, late>>

\* The catch of the body: it ends, and only the owner writes the last task and reports.
Caught(n) ==
  /\ bodyPc' = [bodyPc EXCEPT ![n] = "done"]
  /\ IF Owns(n)
       THEN /\ last' = [run |-> n, text |-> text[n], talk |-> spoken[n], status |-> "FAILED", cancelled |-> FALSE]
            /\ ShowFinal(n, text[n])
       ELSE UNCHANGED <<last, shown, told>>

\* A call to the browser rejected.
BodyThrows(n) ==
  /\ bodyPc[n] \in {"query", "provision", "ready", "announce"}
  /\ Caught(n)
  /\ UNCHANGED <<dashRun, offered, starting, cardText, owner, reloads, confirms, active, activeLoop, talk, anchored,
                 token, text, task, spoken, continues, loopVars>>
----------------------------------------------------------------------------
\* resumeWithConfirmation returns early: its caller does nothing with the state.
GiveUp(n, outcome) ==
  /\ status' = [status EXCEPT ![n] = outcome]
  /\ cycle' = [cycle EXCEPT ![n] = "none"]
  /\ resumed' = [resumed EXCEPT ![n] = FALSE]
  /\ UNCHANGED <<life, steps, closing, late>>

\* The while loop of runTask ends: clearTracker is awaited.
LeaveLoop(n, outcome) ==
  /\ status' = [status EXCEPT ![n] = outcome]
  /\ cycle' = [cycle EXCEPT ![n] = "none"]
  /\ closing' = [closing EXCEPT ![n] = TRUE]
  /\ UNCHANGED <<life, steps, resumed, late>>

\* The loop goes on to another await.
GoOn(n, at) ==
  /\ cycle' = [cycle EXCEPT ![n] = at]
  /\ UNCHANGED <<life, status, resumed, closing, late>>

\* Mutant: only the halted loop is refused, not the body that lost the tab.
MayExecuteUnlessHalted(n) == n \in Bodies /\ ~(activeLoop # 0 /\ life[activeLoop] # "ACTIVE")

\* executeAction refuses a body that lost the tab, and any body while the active
\* loop is halted.
MayExecute(n) == Owns(n) /\ ~(activeLoop # 0 /\ life[activeLoop] # "ACTIVE")

StepsLeft(n) == steps[n] < MaxSteps

\* Mutant: an iteration does not count.
SpendNoStep(n) == steps' = [steps EXCEPT ![n] = @]

SpendStep(n) == steps' = [steps EXCEPT ![n] = @ + 1]

\* One iteration of the loop from one executeAction to the next.  Of the awaits in
\* between another component sees only the candidates that perception reports.
LoopThinks(n) ==
  /\ cycle[n] = "think"
  /\ IF life[n] # "ACTIVE"
       THEN LeaveLoop(n, "STOPPED")
       ELSE \/ \E o \in {"SUCCESS", "FAILED", "NEEDS_USER_CONFIRMATION"} : LeaveLoop(n, o)
            \/ /\ StepsLeft(n)
               /\ SpendStep(n)
               /\ \/ GoOn(n, "think")
                  \/ MayExecute(n) /\ GoOn(n, "check")
  /\ anchored' = (anchored \/ (life[n] = "ACTIVE" /\ Owns(n)))
  /\ UNCHANGED <<dashVars, active, activeLoop, talk, last, bodyVars>>

\* chrome.tabs.get answered: the action is sent to the tab unless the page left
\* the containment scope; the id is not compared again.
LoopSends(n) ==
  /\ cycle[n] = "check"
  /\ \/ /\ cycle' = [cycle EXCEPT ![n] = "sent"]
        /\ late' = [late EXCEPT ![n] = IF Owns(n) THEN @ ELSE @ + 1]
        /\ UNCHANGED <<life, status, steps, resumed, closing>>
     \/ ~resumed[n] /\ GoOn(n, "think") /\ UNCHANGED steps
     \/ resumed[n] /\ GiveUp(n, "FAILED")
  /\ UNCHANGED <<dashVars, workerVars, bodyVars>>

\* The tab answered the action of the loop itself.
LoopAnswered(n) ==
  /\ cycle[n] = "sent"
  /\ ~resumed[n]
  /\ GoOn(n, "think")
  /\ UNCHANGED <<dashVars, workerVars, bodyVars, steps>>

\* clearTracker answered: a cancelled run ends STOPPED.  The first time, the body
\* goes on at once: it writes the last task, then compares the id, then reports.
\* (A runTask of a resume that closes meanwhile is taken to close with it.)
LoopCloses(n) ==
  /\ closing[n]
  /\ LET end == IF life[n] # "ACTIVE" THEN "STOPPED" ELSE status[n] IN
       /\ status' = [status EXCEPT ![n] = end]
       /\ IF bodyPc[n] = "loop"
            THEN /\ bodyPc' = [bodyPc EXCEPT ![n] = "done"]
                 /\ last' = [run |-> n, text |-> text[n], talk |-> spoken[n],
                             status |-> end, cancelled |-> end = "STOPPED"]
                 /\ IF Owns(n) THEN ShowFinal(n, task[n]) ELSE UNCHANGED <<shown, told>>
            ELSE UNCHANGED <<bodyPc, last, shown, told>>
  /\ closing' = [closing EXCEPT ![n] = FALSE]
  /\ UNCHANGED <<dashRun, offered, starting, cardText, owner, reloads, confirms, active, activeLoop, talk, anchored,
                 token, text, task, spoken, continues, life, steps, cycle, resumed, late>>

\* resumeWithConfirmation after its snapshot: containment, then the lifecycle,
\* then executeAction.
ResumeGate(n) ==
  /\ cycle[n] = "gate"
  /\ \/ GiveUp(n, "FAILED")
     \/ life[n] # "ACTIVE" /\ GiveUp(n, status[n])
     \/ life[n] = "ACTIVE" /\ MayExecute(n) /\ GoOn(n, "check") /\ UNCHANGED steps
  /\ UNCHANGED <<dashVars, workerVars, bodyVars>>

\* runTask resets the lifecycle, the status and the step count.
Restart(n) ==
  /\ life' = [life EXCEPT ![n] = "ACTIVE"]
  /\ status' = [status EXCEPT ![n] = "IN_PROGRESS"]
  /\ steps' = [steps EXCEPT ![n] = 0]
  /\ cycle' = [cycle EXCEPT ![n] = "think"]
  /\ resumed' = [resumed EXCEPT ![n] = FALSE]
  /\ UNCHANGED <<closing, late>>

\* The tab answered the confirmed action: a failure ends the run, a navigation
\* is awaited, anything else re-enters runTask.
ResumeAnswered(n) ==
  /\ cycle[n] = "sent"
  /\ resumed[n]
  /\ \/ GiveUp(n, "FAILED")
     \/ GoOn(n, "settle") /\ UNCHANGED steps
     \/ Restart(n)
  /\ UNCHANGED <<dashVars, workerVars, bodyVars>>

ResumeSettled(n) ==
  /\ cycle[n] = "settle"
  /\ GiveUp(n, "FAILED") \/ Restart(n)
  /\ UNCHANGED <<dashVars, workerVars, bodyVars>>

\* A section of the loop throws outside its own catches: the runTask that the body
\* awaits rejects into the catch of the body, one of a resume is only logged.
LoopThrows(n) ==
  /\ cycle[n] \in {"think", "gate", "settle"}
  /\ GiveUp(n, status[n])
  /\ IF bodyPc[n] = "loop" /\ ~closing[n] THEN Caught(n) ELSE UNCHANGED <<bodyPc, last, shown, told>>
  /\ UNCHANGED <<dashRun, offered, starting, cardText, owner, reloads, confirms, active, activeLoop, talk, anchored,
                 token, text, task, spoken, continues>>

\* onStepProgress of a loop that runs; a halted loop is silent.
LoopReports(n) ==
  /\ cycle[n] # "none"
  /\ life[n] = "ACTIVE"
  /\ Owns(n)
  /\ Show(n, task[n])
  /\ UNCHANGED <<dashRun, offered, starting, cardText, owner, told, reloads, confirms, workerVars, bodyVars, loopVars>>
----------------------------------------------------------------------------
BodyStep(n) ==
  BodyQueried(n) \/ BodyProvisioned(n) \/ BodyReady(n) \/ BodyStartsLoop(n) \/ BodyThrows(n)

LoopStep(n) ==
  LoopThinks(n) \/ LoopSends(n) \/ LoopAnswered(n) \/ ResumeGate(n) \/ ResumeAnswered(n) \/ ResumeSettled(n)

Dashboard ==
  \/ \E replaces \in BOOLEAN : StartTask(replaces)
  \/ StopTask
  \/ Reload
  \/ \E n \in Bodies : TaskArrives(n) \/ ContinueArrives(n)
  \/ AnswerArrives
  \/ \E cancelling \in BOOLEAN : ChatArrives(cancelling)
  \/ ConfirmArrives
  \/ DenyArrives

Next == Dashboard \/ \E n \in Bodies : BodyStep(n) \/ LoopStep(n) \/ LoopThrows(n) \/ LoopCloses(n) \/ LoopReports(n)

Spec == Init /\ [][Next]_vars

\* Every call a body or a loop awaits has a timeout.
FairSpec ==
  Spec /\ \A n \in Bodies : WF_vars(BodyStep(n)) /\ WF_vars(LoopStep(n)) /\ WF_vars(LoopCloses(n))
----------------------------------------------------------------------------
Lives == {"ACTIVE", "CANCELLED", "SUPERSEDED"}

Statuses == {"IN_PROGRESS", "SUCCESS", "FAILED", "STOPPED", "NEEDS_USER_CONFIRMATION"}

Remembered ==
  [run: 0..MaxBodies, text: Texts, talk: 0..MaxBodies, status: Statuses, cancelled: BOOLEAN]

DashType ==
  /\ dashRun \in 0..MaxRuns
  /\ offered \in 0..MaxRuns
  /\ starting \in BOOLEAN
  /\ cardText \in Texts
  /\ owner \in 0..MaxBodies
  /\ shown \in 0..MaxBodies
  /\ told \in 0..MaxBodies
  /\ reloads \in 0..MaxReloads
  /\ confirms \in 0..MaxConfirms

WorkerType ==
  /\ active \in Nat
  /\ activeLoop \in 0..MaxBodies
  /\ talk \in 0..MaxBodies
  /\ anchored \in BOOLEAN
  /\ last \in Remembered

BodyType ==
  /\ token \in [Bodies -> -1..MaxRuns]
  /\ text \in [Bodies -> Texts]
  /\ task \in [Bodies -> Texts]
  /\ spoken \in [Bodies -> 0..MaxBodies]
  /\ continues \in [Bodies -> 0..MaxBodies]
  /\ bodyPc \in [Bodies -> {"none", "query", "provision", "ready", "announce", "loop", "done"}]

LoopType ==
  /\ life \in [Bodies -> Lives]
  /\ status \in [Bodies -> Statuses]
  /\ steps \in [Bodies -> 0..MaxSteps]
  /\ cycle \in [Bodies -> {"none", "think", "check", "sent", "gate", "settle"}]
  /\ resumed \in [Bodies -> BOOLEAN]
  /\ closing \in [Bodies -> BOOLEAN]
  /\ late \in [Bodies -> Nat]

\* Every variable keeps its type: no run id leaves the range the dashboard counts
\* to, and no loop takes more steps than maxSteps.
TypeOK == DashType /\ WorkerType /\ BodyType /\ LoopType

Holders == {n \in Claimed : Owns(n)}

Holder == IF Holders = {} THEN 0 ELSE CHOOSE n \in Holders : TRUE

Lease == INSTANCE TabLease WITH
  Runs <- Bodies,
  holder <- Holder,
  gone <- Claimed \ Holders

\* While the dashboard page is not loaded again, the tab is leased to one body
\* at a time; a body that lost it, by a new task, an answer or STOP, never owns
\* it again and sends at most the one action it had already begun.
ImplementsLease == Lease!Spec

\* The card of a run shows only the progress of the body that run started: what
\* a superseded body still sends unchecked (its first RUNNING, its FAILED) is
\* dropped by the run id.
ShownIsOwner == shown \in {0, owner}

\* The loop that STOP and CONFIRM reach is never older than the body that
\* claimed the tab last.
ActiveLoopIsLatest == activeLoop # 0 => \A m \in Claimed : m <= activeLoop

\* When the loop of a plain task closes or throws while its run is still the one on
\* the card, the card takes its final state, whatever was declined or confirmed.
OwnTaskIsTold ==
  [][\A n \in Bodies :
       bodyPc[n] = "loop" /\ bodyPc'[n] = "done" /\ owner = n /\ continues[n] = 0 => told' = n]_vars

\* Every body that claims the tab ends, and so does every loop, cancelled,
\* superseded, confirmed or resumed.
EveryRunSettles ==
  \A n \in Bodies :
    bodyPc[n] # "none" ~> bodyPc[n] = "done" /\ cycle[n] = "none" /\ ~closing[n]
----------------------------------------------------------------------------
(* Why the lease holds while the page is not loaded again.                 *)

\* The worker's id never overtakes the dashboard's, and a START that is on its
\* way carries an id above every token.
IdsAdvance ==
  /\ active <= dashRun
  /\ offered \in {0, dashRun}
  /\ \A n \in Bodies : token[n] <= active /\ (offered # 0 => token[n] < dashRun)

\* No two bodies have the same token.
TokensDiffer == \A m, n \in Claimed : token[m] = token[n] => m = n

\* A body that has the tab, or has an action to send, has sent nothing late.
OneLateAction ==
  \A n \in Bodies : late[n] <= 1 /\ (Owns(n) \/ cycle[n] = "check" => late[n] = 0)

\* A body that has not begun owns nothing, runs nothing and is not the active loop.
UnclaimedIsIdle ==
  /\ \A n \in Bodies : bodyPc[n] = "none" => token[n] = -1 /\ cycle[n] = "none" /\ late[n] = 0
  /\ activeLoop # 0 => activeLoop \in Claimed

LeaseInv == IdsAdvance /\ TokensDiffer /\ OneLateAction /\ UnclaimedIsIdle

\* Bodies begin in the order of their numbers, and their tokens grow with them.
ClaimsInOrder ==
  \A m, n \in Bodies : m < n /\ n \in Claimed => m \in Claimed /\ token[m] < token[n]

\* Only the body of the run on the card has that run's id, and while a START is on
\* its way there is none.
CardIsOwners ==
  /\ offered # 0 => owner = 0
  /\ owner # 0 => owner \in Claimed
  /\ \A m \in Claimed : token[m] = dashRun => m = owner

OrderInv == ClaimsInOrder /\ CardIsOwners /\ ShownIsOwner /\ ActiveLoopIsLatest

\* The body of the run on the card has the tab and was started with the words of the
\* card, and works on them unless it continues an earlier task.
CardIsItsTask ==
  /\ offered # 0 => owner = 0
  /\ owner # 0 => /\ token[owner] = dashRun /\ active = dashRun /\ text[owner] = cardText
                  /\ continues[owner] = 0 => task[owner] = cardText
----------------------------------------------------------------------------
(* What the repository says and the code does not do.                      *)

\* agentState.ts: once a run leaves ACTIVE it can never return.
CancellationIsOneWay == [][\A n \in Bodies : life[n] # "ACTIVE" => life'[n] # "ACTIVE"]_vars

\* serviceWorker.ts, "Single Active Task Ownership": no two bodies own the tab,
\* also after the dashboard page was loaded again.
SingleOwner == \A m, n \in Holders : m = n
=============================================================================
