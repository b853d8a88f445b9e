-------------------------- MODULE ExtensionAdapter --------------------------
(***************************************************************************)
(* The card of the dashboard and the ways its messages take.               *)
(*                                                                         *)
(* The adapter (frontend/src/adapters/extensionAdapter.ts) numbers runs,   *)
(* posts START, STOP and CONFIRM, shows the progress of the current run    *)
(* and lets a watchdog fail a run that falls silent.  The content script   *)
(* (extension/src/content/contentScript.ts) relays what is posted, in      *)
(* order, and answers START itself.  The service worker                    *)
(* (extension/src/background/serviceWorker.ts) sends progress: every       *)
(* sendToDashboard is a task of its own that repeats its message until a   *)
(* delivery is acknowledged in time, so messages arrive twice, late and    *)
(* behind messages that were sent after them.                              *)
(*                                                                         *)
(* The worker is reduced to the loop it can stop: TaskOwnership has its    *)
(* bodies and the texts of the tasks.  A prompt is named by its number.    *)
(***************************************************************************)
EXTENDS Naturals, Sequences

CONSTANTS
  MaxRuns,        \* bound of the model: run ids the adapter hands out
  MaxReports,     \* bound of the model: steps and prompts the loops report; a run has 10
  MaxCalls,       \* bound of the model: calls of sendToDashboard in flight at a time
  MaxTries,       \* attempts of one call: 3 on the known tab, 2 on a tab it looks for
  MaxClicks       \* bound of the model: answers to prompts

ASSUME BoundsAssumption ==
  /\ MaxRuns \in Nat /\ MaxReports \in Nat /\ MaxCalls \in Nat
  /\ MaxTries \in Nat \ {0} /\ MaxClicks \in Nat

VARIABLES
  currentRunId,    \* the id of the latest startTask or stopTask
  isStartingTask,
  pinging,         \* the latest startTask awaits checkExtensionConnected
  status,          \* state.status of the card
  prompt,          \* requiresUserConfirmationAction of the card, or NoPrompt
  watchdog,        \* the watchdog timer is armed
  stopped,         \* history: the user stopped the task and started no other
  clicks,          \* answers given so far
  posted,          \* messages on their way to the worker, in order
  answers,         \* replies to START on their way to the card
  valid,           \* the content script still belongs to the installed extension
  loopRun,         \* the run of activeLoop, or 0
  loop,            \* state.status of activeLoop, "none" when it is null
  halted,          \* activeLoop has left the lifecycle ACTIVE
  reports,         \* steps and prompts the loops reported so far
  calls,           \* calls of sendToDashboard: the message, and the attempts each may still make
  wire             \* attempts queued at the tab, each the call that made it

cardVars == <<currentRunId, isStartingTask, pinging, status, prompt, watchdog, stopped>>
workerVars == <<loopRun, loop, halted, reports>>
deliveryVars == <<calls, wire>>
vars == <<cardVars, clicks, posted, answers, valid, workerVars, deliveryVars>>

\* ANSWER stands for the other ends: answers, clarifications, COMMIT_UNKNOWN,
\* FRESHNESS_UNVERIFIED, PROVIDER_UNAVAILABLE ...
Finals == {"SUCCESS", "FAILED", "STOPPED", "ANSWER"}
CardStatuses == Finals \cup {"IDLE", "RUNNING", "NEEDS_USER_CONFIRMATION"}
Reported == Finals \cup {"RUNNING", "IN_PROGRESS", "NEEDS_USER_CONFIRMATION"}

NoPrompt == [run |-> 0, number |-> 0]

\* A payload of TASK_PROGRESS; run 0 when it has no runId.
Progress(run, what, number) == [run |-> run, status |-> what, number |-> number]

NoMessage == Progress(0, "FAILED", 0)

\* A call that will not try again and has nothing queued is over.
Over(i) == calls[i].left = 0 /\ \A n \in DOMAIN wire : wire[n] # i
----------------------------------------------------------------------------
Init ==
  /\ currentRunId = 0 /\ isStartingTask = FALSE /\ pinging = FALSE
  /\ status = "IDLE" /\ prompt = NoPrompt /\ watchdog = FALSE /\ stopped = FALSE
  /\ clicks = 0
  /\ posted = <<>> /\ answers = {} /\ valid = TRUE
  /\ loopRun = 0 /\ loop = "none" /\ halted = FALSE /\ reports = 0
  /\ calls = [i \in 1..MaxCalls |-> [message |-> NoMessage, left |-> 0]]
  /\ wire = <<>>

\* Every status that is not listed is shown as RUNNING.
CardStatus(m) == IF m.status \in {"RUNNING", "IN_PROGRESS"} THEN "RUNNING" ELSE m.status

\* Mutant: a payload is taken whichever run it names.
AcceptsAnyRun(m) == ~(status \in {"STOPPED", "FAILED"} /\ m.status = "RUNNING")

\* Payloads of another run are dropped, and a literal RUNNING after an end.
Accepts(m) ==
  /\ m.run \in {0, currentRunId}
  /\ ~(status \in {"STOPPED", "FAILED"} /\ m.status = "RUNNING")

\* Mutant: only an end touches the timer.
WatchOnlyEnds(shown) == watchdog' = IF shown \in Finals THEN FALSE ELSE watchdog

\* An end disarms the watchdog, RUNNING arms it again, a prompt leaves it.
Watch(shown) ==
  watchdog' = CASE shown \in Finals   -> FALSE
                [] shown = "RUNNING" -> TRUE
                [] OTHER             -> watchdog

\* handleExtensionProgress; the receipt it writes for an end is left out.
HandleProgress(m) ==
  IF Accepts(m)
    THEN LET shown == CardStatus(m) IN
           /\ status' = shown
           /\ prompt' = IF shown = "NEEDS_USER_CONFIRMATION" THEN [run |-> m.run, number |-> m.number]
                                                             ELSE NoPrompt
           /\ Watch(shown)
    ELSE UNCHANGED <<status, prompt, watchdog>>
----------------------------------------------------------------------------
\* startTask up to the ping: a run that is shown as running, or was starting, is
\* told to stop; a card of another task says so at once.
StartTask(sameTask) ==
  /\ currentRunId < MaxRuns
  /\ currentRunId' = currentRunId + 1
  /\ posted' = IF status = "RUNNING" \/ isStartingTask
                 THEN Append(posted, [type |-> "STOP", run |-> currentRunId', asked |-> NoPrompt, allowed |-> FALSE])
                 ELSE posted
  /\ status' = IF status = "RUNNING" /\ ~sameTask THEN "STOPPED" ELSE status
  /\ watchdog' = FALSE
  /\ isStartingTask' = TRUE
  /\ pinging' = TRUE
  /\ stopped' = FALSE
  /\ UNCHANGED <<prompt, clicks, answers, valid, workerVars, deliveryVars>>

\* The ping was answered or gave up, and the start was not superseded: the card
\* shows the run and START is posted.
PingReturns ==
  /\ pinging
  /\ pinging' = FALSE
  /\ isStartingTask' = FALSE
  /\ status' = "RUNNING"
  /\ prompt' = NoPrompt
  /\ watchdog' = TRUE
  /\ posted' = Append(posted, [type |-> "START", run |-> currentRunId, asked |-> NoPrompt, allowed |-> FALSE])
  /\ UNCHANGED <<currentRunId, stopped, clicks, answers, valid, workerVars, deliveryVars>>

\* stopTask, by the stop button or by "New task", both while the card shows RUNNING.
\* A start that awaits its ping is superseded by the new id, and leaves
\* isStartingTask set.
StopTask ==
  /\ currentRunId < MaxRuns
  /\ status = "RUNNING"
  /\ currentRunId' = currentRunId + 1
  /\ pinging' = FALSE
  /\ watchdog' = FALSE
  /\ status' = "STOPPED"
  /\ stopped' = TRUE
  /\ posted' = Append(posted, [type |-> "STOP", run |-> currentRunId', asked |-> NoPrompt, allowed |-> FALSE])
  /\ UNCHANGED <<isStartingTask, prompt, clicks, answers, valid, workerVars, deliveryVars>>

\* The user answers the prompt on the card; the message names neither run nor action.
ConfirmAction(allowed) ==
  /\ status = "NEEDS_USER_CONFIRMATION"
  /\ clicks < MaxClicks
  /\ clicks' = clicks + 1
  /\ posted' = Append(posted, [type |-> "CONFIRM", run |-> 0, asked |-> prompt, allowed |-> allowed])
  /\ UNCHANGED <<cardVars, answers, valid, workerVars, deliveryVars>>

\* The watchdog fires.
WatchdogFires ==
  /\ watchdog
  /\ watchdog' = FALSE
  /\ status' = IF status = "RUNNING" THEN "FAILED" ELSE status
  /\ UNCHANGED <<currentRunId, isStartingTask, pinging, prompt, stopped, clicks, posted, answers,
                 valid, workerVars, deliveryVars>>
----------------------------------------------------------------------------
\* sendToDashboard is called: its first attempt is queued at the tab, or fails.
Send(m, queued) ==
  \E i \in 1..MaxCalls :
    /\ Over(i)
    /\ \A j \in 1..MaxCalls : Over(j) => i <= j
    /\ calls' = [calls EXCEPT ![i] = [message |-> m, left |-> MaxTries - 1]]
    /\ wire' = IF queued THEN Append(wire, i) ELSE wire

\* An attempt was not acknowledged within its time: the next one.
SendAgain(i, queued) ==
  /\ calls[i].left > 0
  /\ calls' = [calls EXCEPT ![i].left = @ - 1]
  /\ wire' = IF queued THEN Append(wire, i) ELSE wire
  /\ UNCHANGED <<cardVars, clicks, posted, answers, valid, workerVars>>

\* The content script hands the oldest attempt to the page; the acknowledgement
\* reaches the worker in time or not.
Deliver(inTime) ==
  /\ wire # <<>>
  /\ HandleProgress(calls[Head(wire)].message)
  /\ calls' = [calls EXCEPT ![Head(wire)].left = IF inTime THEN 0 ELSE @]
  /\ wire' = Tail(wire)
  /\ UNCHANGED <<currentRunId, isStartingTask, pinging, stopped, clicks, posted, answers,
                 valid, workerVars>>

\* The reply to START reaches the content script, which shows it as progress.
AnswerArrives(a) ==
  /\ a \in answers
  /\ answers' = answers \ {a}
  /\ HandleProgress(a)
  /\ UNCHANGED <<currentRunId, isStartingTask, pinging, stopped, clicks, posted, valid,
                 workerVars, deliveryVars>>
----------------------------------------------------------------------------
\* START in the worker: the loop before it is superseded; the task is refused,
\* answered, or a loop of its own begins.
WorkerStarts ==
  /\ posted # <<>> /\ valid
  /\ Head(posted).type = "START"
  /\ posted' = Tail(posted)
  /\ \E what \in {"RUNNING", "FAILED", "ANSWER"}, queued \in BOOLEAN :
       /\ Send(Progress(Head(posted).run, what, 0), queued)
       /\ answers' = answers \cup {Progress(Head(posted).run, what, 0)}
       /\ IF what = "RUNNING"
            THEN loopRun' = Head(posted).run /\ loop' = "IN_PROGRESS" /\ halted' = FALSE
            ELSE loopRun' = 0 /\ loop' = "none" /\ halted' = FALSE
  /\ UNCHANGED <<cardVars, clicks, valid, reports>>

\* STOP in the worker: the id moves on first, so the loop reports nothing more.
WorkerStops ==
  /\ posted # <<>> /\ valid
  /\ Head(posted).type = "STOP"
  /\ posted' = Tail(posted)
  /\ loopRun' = 0 /\ loop' = "none" /\ halted' = FALSE
  /\ UNCHANGED <<cardVars, clicks, answers, valid, reports, deliveryVars>>

\* CONFIRM, allowed: the parked action of the active loop is dispatched, whatever
\* action was on the card; a loop that is not parked throws.
WorkerResumes ==
  /\ posted # <<>> /\ valid
  /\ Head(posted).type = "CONFIRM" /\ Head(posted).allowed
  /\ posted' = Tail(posted)
  /\ loop' = IF loop = "NEEDS_USER_CONFIRMATION" /\ ~halted THEN "IN_PROGRESS" ELSE loop
  /\ UNCHANGED <<cardVars, clicks, answers, valid, loopRun, halted, reports, deliveryVars>>

\* CONFIRM, declined: the active loop is stopped, parked or not, and says so.
WorkerDeclines ==
  /\ posted # <<>> /\ valid
  /\ Head(posted).type = "CONFIRM" /\ ~Head(posted).allowed
  /\ posted' = Tail(posted)
  /\ IF loop # "none" /\ ~halted
       THEN /\ halted' = TRUE
            /\ loop' = IF loop \in {"IN_PROGRESS", "NEEDS_USER_CONFIRMATION"} THEN "STOPPED" ELSE loop
            /\ \E queued \in BOOLEAN : Send(Progress(loopRun, loop', 0), queued)
       ELSE UNCHANGED <<halted, loop, deliveryVars>>
  /\ UNCHANGED <<cardVars, clicks, answers, valid, loopRun, reports>>

\* A step of the loop: it reports, parks or ends.
LoopReports ==
  /\ loop = "IN_PROGRESS"
  /\ \E what \in {"IN_PROGRESS", "NEEDS_USER_CONFIRMATION", "SUCCESS", "FAILED"}, queued \in BOOLEAN :
       /\ what \in Finals \/ reports < MaxReports
       /\ loop' = what
       /\ reports' = IF what \in Finals THEN reports ELSE reports + 1
       /\ Send(Progress(loopRun, what, IF what = "NEEDS_USER_CONFIRMATION" THEN reports' ELSE 0), queued)
  /\ UNCHANGED <<cardVars, clicks, posted, answers, valid, loopRun, halted>>

\* The browser ends the worker: its loop and the calls it had not finished are gone,
\* what is queued at the tab is not.
WorkerLeaves ==
  /\ loopRun' = 0 /\ loop' = "none" /\ halted' = FALSE
  /\ calls' = [i \in 1..MaxCalls |-> [calls[i] EXCEPT !.left = 0]]
  /\ UNCHANGED wire

WorkerDies ==
  /\ loop # "none" \/ \E i \in 1..MaxCalls : calls[i].left > 0
  /\ WorkerLeaves
  /\ UNCHANGED <<cardVars, clicks, posted, answers, valid, reports>>

\* A message does not reach the worker; only a START is answered for it.
RelayFails ==
  /\ posted # <<>> /\ valid
  /\ posted' = Tail(posted)
  /\ answers' = IF Head(posted).type = "START"
                  THEN answers \cup {Progress(Head(posted).run, "FAILED", 0)}
                  ELSE answers
  /\ UNCHANGED <<cardVars, clicks, valid, workerVars, deliveryVars>>

\* The extension is installed anew: the worker is gone, and the content script of
\* this page is cut off from the next one.
ExtensionReloads ==
  /\ valid
  /\ valid' = FALSE
  /\ WorkerLeaves
  /\ UNCHANGED <<cardVars, clicks, posted, answers, reports>>

\* A content script that is cut off answers every message with FAILED, without a runId.
RelayRefuses ==
  /\ posted # <<>> /\ ~valid
  /\ posted' = Tail(posted)
  /\ HandleProgress(Progress(0, "FAILED", 0))
  /\ UNCHANGED <<currentRunId, isStartingTask, pinging, stopped, clicks, answers, valid,
                 workerVars, deliveryVars>>
----------------------------------------------------------------------------
User ==
  \/ \E sameTask \in BOOLEAN : StartTask(sameTask)
  \/ StopTask
  \/ \E allowed \in BOOLEAN : ConfirmAction(allowed)

Worker ==
  \/ WorkerStarts
  \/ WorkerStops
  \/ WorkerResumes
  \/ WorkerDeclines
  \/ LoopReports
  \/ WorkerDies
  \/ ExtensionReloads

Transport ==
  \/ \E i \in 1..MaxCalls, queued \in BOOLEAN : SendAgain(i, queued)
  \/ \E inTime \in BOOLEAN : Deliver(inTime)
  \/ \E a \in answers : AnswerArrives(a)
  \/ RelayFails
  \/ RelayRefuses

Next == User \/ PingReturns \/ WatchdogFires \/ Worker \/ Transport

Spec == Init /\ [][Next]_vars

\* Timers fire: the ping gives up after 3 s, the watchdog after 30 or 60 s.
FairSpec == Spec /\ WF_vars(PingReturns) /\ WF_vars(WatchdogFires)
----------------------------------------------------------------------------
Prompt == [run : 0..MaxRuns, number : 0..MaxReports]
Command == [type : {"START", "STOP", "CONFIRM"}, run : 0..MaxRuns, asked : Prompt, allowed : BOOLEAN]
Payload == [run : 0..MaxRuns, status : Reported, number : 0..MaxReports]

CardType ==
  /\ currentRunId \in 0..MaxRuns
  /\ isStartingTask \in BOOLEAN
  /\ pinging \in BOOLEAN
  /\ status \in CardStatuses
  /\ prompt \in Prompt
  /\ watchdog \in BOOLEAN
  /\ stopped \in BOOLEAN
  /\ clicks \in 0..MaxClicks

WorkerType ==
  /\ posted \in Seq(Command)
  /\ answers \subseteq Payload
  /\ valid \in BOOLEAN
  /\ loopRun \in 0..MaxRuns
  /\ loop \in {"none", "IN_PROGRESS", "NEEDS_USER_CONFIRMATION", "SUCCESS", "FAILED", "STOPPED"}
  /\ halted \in BOOLEAN
  /\ reports \in 0..MaxReports
  /\ calls \in [1..MaxCalls -> [message : Payload, left : 0..(MaxTries - 1)]]
  /\ wire \in Seq(1..MaxCalls)

\* Every variable keeps its type: no id passes what the adapter handed out, and no
\* call makes more attempts than it may.
TypeOK == CardType /\ WorkerType

\* A card that shows RUNNING is watched: the timer is armed, or a start awaits its
\* ping and will arm it, through prompts, late messages and superseded starts.
RunningIsWatched == status = "RUNNING" => watchdog \/ pinging

\* What the user stopped stays stopped until the next start: nothing that is still
\* on its way shows it again as running, asking or done.
StopHolds == [][stopped /\ stopped' => status' \in {"STOPPED", "FAILED"}]_vars

\* The parked action of the active loop goes to the tab.
Dispatching == loop = "NEEDS_USER_CONFIRMATION" /\ loop' = "IN_PROGRESS" /\ loopRun' = loopRun

\* An answer to a prompt never dispatches an action of another run than the one
\* whose prompt was on the card.
ConfirmedIsOwnRun ==
  [][Dispatching => Head(posted).asked.run = loopRun]_vars

\* No card shows RUNNING for ever, whatever was lost or died.
CardSettles == status = "RUNNING" ~> status # "RUNNING"
----------------------------------------------------------------------------
(* The order of the runs, from which the two action properties follow.     *)

Starts == {n \in DOMAIN posted : posted[n].type = "START"}
Confirms == {n \in DOMAIN posted : posted[n].type = "CONFIRM"}

\* Everything that was said about a run and may still be shown.
Spoken == {calls[i].message : i \in 1..MaxCalls} \cup answers

\* A run the adapter handed out; the latest id is not in use while its start
\* awaits the ping, nor after a stop.
Past(run) == run <= currentRunId /\ (pinging \/ stopped => run < currentRunId)

\* The latest start and the latest stop are told apart, and a stop is shown.
StopShows ==
  /\ ~(pinging /\ stopped)
  /\ stopped => status \in {"STOPPED", "FAILED"}

\* The loop runs a run that was handed out, and no prompt is of a later one.
LoopInOrder ==
  /\ Past(loopRun)
  /\ loop # "none" => loopRun > 0
  /\ \A m \in Spoken :
       /\ Past(m.run)
       /\ m.run = 0 => m.status = "FAILED"
       /\ m.status = "NEEDS_USER_CONFIRMATION" /\ loopRun # 0 => m.run <= loopRun

\* Runs start in the order of their ids, each after everything said about the ones before.
StartsInOrder ==
  \A n \in Starts :
    /\ Past(posted[n].run)
    /\ posted[n].run > loopRun
    /\ \A m \in Spoken : posted[n].run > m.run
    /\ \A k \in Starts : k < n => posted[k].run < posted[n].run

\* While a prompt can be answered no later run has been started, and an answer is on
\* its way ahead of every later start.
PromptsInOrder ==
  /\ status = "NEEDS_USER_CONFIRMATION" => Starts = {} /\ loopRun \in {0, prompt.run}
  /\ \A n \in Confirms :
       /\ loopRun \in {0, posted[n].asked.run}
       /\ \A k \in Starts : n < k

OrderInv == StopShows /\ LoopInOrder /\ StartsInOrder /\ PromptsInOrder
----------------------------------------------------------------------------
(* What the repository says and the code does not do.                      *)

\* agentWorkspace.ts: "The agent proposed an action requiring explicit user
\* authorization".  What a confirmation dispatches is the action that was shown.
ConfirmedWasShown ==
  [][Dispatching => Head(posted).asked.number = reports]_vars
=============================================================================
