---------------------- MODULE ExtensionAdapterProofs ----------------------
(***************************************************************************)
(* What holds for any number of runs, reports, calls, attempts and clicks: *)
(* the types, the watch on a running card, and, from the order in which    *)
(* runs start and are spoken of, that a stop holds and that a confirmation *)
(* never reaches another run.                                              *)
(***************************************************************************)
EXTENDS ExtensionAdapter, SequenceTheorems, TLAPS

\* A queue one longer: the old elements, and the new one at its end.
LEMMA Appended ==
  ASSUME NEW S, NEW s \in Seq(S), NEW e \in S
  PROVE  /\ Append(s, e) \in Seq(S)
         /\ \A n \in DOMAIN Append(s, e) :
              \/ n \in DOMAIN s /\ Append(s, e)[n] = s[n]
              \/ n = Len(s) + 1 /\ Append(s, e)[n] = e
         /\ \A n \in DOMAIN s : n \in Nat /\ n < Len(s) + 1
BY AppendProperties

\* A queue whose head is taken: every element moves up by one.
LEMMA Taken ==
  ASSUME NEW S, NEW s \in Seq(S), s # <<>>
  PROVE  /\ Tail(s) \in Seq(S)
         /\ Head(s) \in S
         /\ 1 \in DOMAIN s /\ Head(s) = s[1]
         /\ \A n \in DOMAIN Tail(s) : n \in Nat /\ n > 0 /\ n + 1 \in DOMAIN s /\ Tail(s)[n] = s[n + 1]
BY HeadTailProperties

LEMMA ProgressType ==
  ASSUME NEW run \in 0..MaxRuns, NEW what \in Reported, NEW number \in 0..MaxReports
  PROVE  Progress(run, what, number) \in Payload
BY DEF Progress, Payload

\* Progress keeps the types of what it changes on the card.
LEMMA HandleType ==
  ASSUME CardType, NEW m \in Payload, HandleProgress(m)
  PROVE  status' \in CardStatuses /\ prompt' \in Prompt /\ watchdog' \in BOOLEAN
<1>1. CardStatus(m) \in CardStatuses
  BY DEF CardStatus, Payload, Reported, CardStatuses, Finals
<1>2. NoPrompt \in Prompt /\ [run |-> m.run, number |-> m.number] \in Prompt
  BY BoundsAssumption DEF NoPrompt, Prompt, Payload
<1>3. CASE Accepts(m)
  <2>1. status' = CardStatus(m) /\ prompt' \in Prompt /\ Watch(CardStatus(m))
    BY <1>2, <1>3, Zenon DEF HandleProgress
  <2>2. watchdog' \in BOOLEAN
    BY <2>1 DEF Watch, CardType
  <2> QED BY <1>1, <2>1, <2>2
<1>4. CASE ~Accepts(m)
  BY <1>4 DEF HandleProgress, CardType
<1> QED BY <1>3, <1>4

\* A call that begins keeps the types of the calls and of the queue at the tab.
LEMMA SendType ==
  ASSUME calls \in [1..MaxCalls -> [message : Payload, left : 0..(MaxTries - 1)]], wire \in Seq(1..MaxCalls),
         NEW m \in Payload, NEW queued \in BOOLEAN, Send(m, queued)
  PROVE  calls' \in [1..MaxCalls -> [message : Payload, left : 0..(MaxTries - 1)]] /\ wire' \in Seq(1..MaxCalls)
<1>1. PICK i \in 1..MaxCalls :
        /\ calls' = [calls EXCEPT ![i] = [message |-> m, left |-> MaxTries - 1]]
        /\ wire' = IF queued THEN Append(wire, i) ELSE wire
  BY DEF Send
<1>2. MaxTries - 1 \in 0..(MaxTries - 1)
  BY BoundsAssumption
<1>3. wire' \in Seq(1..MaxCalls)
  BY <1>1, Appended
<1> QED BY <1>1, <1>2, <1>3

\* Whatever ends the worker keeps the types.
LEMMA LeavesType ==
  ASSUME WorkerType, WorkerLeaves
  PROVE  /\ loopRun' \in 0..MaxRuns /\ loop' = "none" /\ halted' \in BOOLEAN
         /\ calls' \in [1..MaxCalls -> [message : Payload, left : 0..(MaxTries - 1)]]
         /\ wire' \in Seq(1..MaxCalls)
<1>1. 0 \in 0..(MaxTries - 1) /\ 0 \in 0..MaxRuns
  BY BoundsAssumption
<1> QED BY <1>1 DEF WorkerLeaves, WorkerType

LEMMA InitType == Init => TypeOK
<1> SUFFICES ASSUME Init PROVE TypeOK
  OBVIOUS
<1>1. \A k \in Nat : 0 \in 0..k
  OBVIOUS
<1>2. 0 \in 0..MaxRuns /\ 0 \in 0..MaxReports /\ 0 \in 0..MaxClicks /\ 0 \in 0..(MaxTries - 1)
  BY BoundsAssumption, <1>1
<1>3. CardType
  BY <1>2 DEF Init, CardType, CardStatuses, NoPrompt, Prompt
<1>4. NoMessage \in Payload
  BY <1>2, ProgressType DEF NoMessage, Reported, Finals
<1>5. calls \in [1..MaxCalls -> [message : Payload, left : 0..(MaxTries - 1)]]
  BY <1>2, <1>4 DEF Init
<1>6. posted \in Seq(Command) /\ wire \in Seq(1..MaxCalls) /\ answers \subseteq Payload
  BY DEF Init
<1>7. WorkerType
  BY <1>2, <1>5, <1>6 DEF Init, WorkerType
<1> QED BY <1>3, <1>7 DEF TypeOK

\* What the user does, and the timers.
LEMMA CardStepType ==
  ASSUME TypeOK, User \/ PingReturns \/ WatchdogFires
  PROVE  TypeOK'
<1>1. ASSUME NEW c \in Command, posted' = posted \/ posted' = Append(posted, c),
             UNCHANGED <<answers, valid, workerVars, deliveryVars>>
      PROVE  WorkerType'
  <2>1. posted \in Seq(Command)
    BY DEF TypeOK, WorkerType
  <2>2. posted' \in Seq(Command)
    BY <1>1, <2>1, Appended
  <2> QED BY <1>1, <2>2 DEF TypeOK, WorkerType, workerVars, deliveryVars
<1>2. ASSUME NEW r \in 0..MaxRuns, NEW what \in {"START", "STOP"}
      PROVE  [type |-> what, run |-> r, asked |-> NoPrompt, allowed |-> FALSE] \in Command
  BY <1>2, BoundsAssumption DEF Command, Prompt, NoPrompt
<1>3. ASSUME NEW sameTask \in BOOLEAN, StartTask(sameTask) PROVE TypeOK'
  <2>1. currentRunId' \in 0..MaxRuns
    BY <1>3, BoundsAssumption DEF StartTask, TypeOK, CardType
  <2>2. WorkerType'
    BY <1>1, <1>2, <1>3, <2>1 DEF StartTask
  <2>3. CardType'
    BY <1>3, <2>1 DEF StartTask, TypeOK, CardType, CardStatuses, Finals
  <2> QED BY <2>2, <2>3 DEF TypeOK
<1>4. CASE StopTask
  <2>1. currentRunId' \in 0..MaxRuns
    BY <1>4, BoundsAssumption DEF StopTask, TypeOK, CardType
  <2>2. WorkerType'
    BY <1>1, <1>2, <1>4, <2>1 DEF StopTask
  <2>3. CardType'
    BY <1>4, <2>1 DEF StopTask, TypeOK, CardType, CardStatuses, Finals
  <2> QED BY <2>2, <2>3 DEF TypeOK
<1>5. ASSUME NEW allowed \in BOOLEAN, ConfirmAction(allowed) PROVE TypeOK'
  <2>1. [type |-> "CONFIRM", run |-> 0, asked |-> prompt, allowed |-> allowed] \in Command
    BY BoundsAssumption DEF TypeOK, CardType, Command
  <2>2. WorkerType'
    BY <1>1, <1>5, <2>1 DEF ConfirmAction
  <2>3. CardType'
    BY <1>5, BoundsAssumption, SMT DEF ConfirmAction, TypeOK, CardType, cardVars
  <2> QED BY <2>2, <2>3 DEF TypeOK
<1>6. CASE PingReturns
  <2>1. WorkerType'
    BY <1>1, <1>2, <1>6 DEF PingReturns, TypeOK, CardType
  <2>2. NoPrompt \in Prompt
    BY BoundsAssumption DEF NoPrompt, Prompt
  <2>3. CardType'
    BY <1>6, <2>2 DEF PingReturns, TypeOK, CardType, CardStatuses
  <2> QED BY <2>1, <2>3 DEF TypeOK
<1>7. CASE WatchdogFires
  BY <1>7 DEF WatchdogFires, TypeOK, CardType, WorkerType, CardStatuses, Finals, workerVars, deliveryVars
<1> QED BY <1>3, <1>4, <1>5, <1>6, <1>7 DEF User

\* What the transport does.
LEMMA TransportStepType ==
  ASSUME TypeOK, Transport
  PROVE  TypeOK'
<1>1. /\ calls \in [1..MaxCalls -> [message : Payload, left : 0..(MaxTries - 1)]]
      /\ wire \in Seq(1..MaxCalls) /\ posted \in Seq(Command) /\ answers \subseteq Payload
  BY DEF TypeOK, WorkerType
<1>2. ASSUME NEW m \in Payload, HandleProgress(m), UNCHANGED <<currentRunId, isStartingTask, pinging, stopped, clicks>>
      PROVE  CardType'
  BY <1>2, HandleType DEF TypeOK, CardType
<1>3. ASSUME NEW i \in 1..MaxCalls, NEW queued \in BOOLEAN, SendAgain(i, queued) PROVE TypeOK'
  <2>1. calls[i].left - 1 \in 0..(MaxTries - 1)
    BY <1>1, <1>3, BoundsAssumption DEF SendAgain
  <2>2. calls' \in [1..MaxCalls -> [message : Payload, left : 0..(MaxTries - 1)]]
    BY <1>1, <1>3, <2>1 DEF SendAgain
  <2>3. wire' \in Seq(1..MaxCalls)
    BY <1>1, <1>3, Appended DEF SendAgain
  <2> QED BY <1>3, <2>2, <2>3 DEF SendAgain, TypeOK, CardType, WorkerType, cardVars, workerVars
<1>4. ASSUME NEW inTime \in BOOLEAN, Deliver(inTime) PROVE TypeOK'
  <2>1. Head(wire) \in 1..MaxCalls /\ wire' \in Seq(1..MaxCalls)
    BY <1>1, <1>4, Taken DEF Deliver
  <2>2. calls[Head(wire)].message \in Payload /\ 0 \in 0..(MaxTries - 1)
    BY <1>1, <2>1, BoundsAssumption
  <2>3. calls' \in [1..MaxCalls -> [message : Payload, left : 0..(MaxTries - 1)]]
    BY <1>1, <1>4, <2>1, <2>2 DEF Deliver
  <2>4. CardType'
    BY <1>2, <1>4, <2>2 DEF Deliver
  <2> QED BY <1>4, <2>1, <2>3, <2>4 DEF Deliver, TypeOK, WorkerType, workerVars
<1>5. ASSUME NEW a \in answers, AnswerArrives(a) PROVE TypeOK'
  <2>1. CardType'
    BY <1>1, <1>2, <1>5 DEF AnswerArrives
  <2> QED BY <1>5, <2>1 DEF AnswerArrives, TypeOK, WorkerType, workerVars, deliveryVars
<1>6. CASE RelayFails
  <2>1. posted' \in Seq(Command) /\ Head(posted).run \in 0..MaxRuns
    <3>1. posted' \in Seq(Command) /\ Head(posted) \in Command
      BY <1>1, <1>6, Taken DEF RelayFails
    <3> QED BY <3>1 DEF Command
  <2>2. Progress(Head(posted).run, "FAILED", 0) \in Payload
    BY <2>1, ProgressType, BoundsAssumption DEF Reported, Finals
  <2>3. answers' \subseteq Payload
    BY <1>1, <1>6, <2>2 DEF RelayFails
  <2> QED BY <1>6, <2>1, <2>3 DEF RelayFails, TypeOK, CardType, WorkerType, cardVars, workerVars, deliveryVars
<1>7. CASE RelayRefuses
  <2>1. Progress(0, "FAILED", 0) \in Payload
    BY ProgressType, BoundsAssumption DEF Reported, Finals
  <2>2. posted' \in Seq(Command)
    BY <1>1, <1>7, Taken DEF RelayRefuses
  <2>3. CardType'
    BY <1>2, <1>7, <2>1 DEF RelayRefuses
  <2> QED BY <1>7, <2>2, <2>3 DEF RelayRefuses, TypeOK, WorkerType, workerVars, deliveryVars
<1> QED BY <1>3, <1>4, <1>5, <1>6, <1>7 DEF Transport

\* What the worker does.
LEMMA WorkerStepType ==
  ASSUME TypeOK, Worker
  PROVE  TypeOK'
<1>1. /\ calls \in [1..MaxCalls -> [message : Payload, left : 0..(MaxTries - 1)]]
      /\ wire \in Seq(1..MaxCalls) /\ posted \in Seq(Command) /\ answers \subseteq Payload
  BY DEF TypeOK, WorkerType
<1>2. UNCHANGED cardVars /\ UNCHANGED clicks => CardType'
  BY DEF TypeOK, CardType, cardVars
<1>3. CASE WorkerStarts
  <2>1. PICK what \in {"RUNNING", "FAILED", "ANSWER"}, queued \in BOOLEAN :
          /\ Send(Progress(Head(posted).run, what, 0), queued)
          /\ answers' = answers \cup {Progress(Head(posted).run, what, 0)}
          /\ IF what = "RUNNING"
               THEN loopRun' = Head(posted).run /\ loop' = "IN_PROGRESS" /\ halted' = FALSE
               ELSE loopRun' = 0 /\ loop' = "none" /\ halted' = FALSE
    BY <1>3 DEF WorkerStarts
  <2>2. posted' \in Seq(Command) /\ Head(posted).run \in 0..MaxRuns
    <3>1. posted' \in Seq(Command) /\ Head(posted) \in Command
      BY <1>1, <1>3, Taken DEF WorkerStarts
    <3> QED BY <3>1 DEF Command
  <2>3. Progress(Head(posted).run, what, 0) \in Payload
    BY <2>2, ProgressType, BoundsAssumption DEF Reported, Finals
  <2>4. calls' \in [1..MaxCalls -> [message : Payload, left : 0..(MaxTries - 1)]] /\ wire' \in Seq(1..MaxCalls)
    BY <1>1, <2>1, <2>3, SendType
  <2>5. loopRun' \in 0..MaxRuns /\ loop' \in {"none", "IN_PROGRESS"} /\ halted' \in BOOLEAN
    <3>1. 0 \in 0..MaxRuns
      BY BoundsAssumption
    <3>2. CASE what = "RUNNING"
      BY <2>1, <2>2, <3>2
    <3>3. CASE what # "RUNNING"
      BY <2>1, <3>1, <3>3
    <3> QED BY <3>2, <3>3
  <2>6. answers' \subseteq Payload
    BY <1>1, <2>1, <2>3
  <2> QED BY <1>2, <1>3, <2>2, <2>4, <2>5, <2>6 DEF WorkerStarts, TypeOK, WorkerType
<1>4. CASE WorkerStops
  <2>1. posted' \in Seq(Command)
    BY <1>1, <1>4, Taken DEF WorkerStops
  <2>2. loopRun' \in 0..MaxRuns /\ loop' = "none" /\ halted' = FALSE
    BY <1>4, BoundsAssumption DEF WorkerStops
  <2>3. UNCHANGED <<answers, valid, reports, deliveryVars>> /\ CardType'
    BY <1>2, <1>4 DEF WorkerStops
  <2> QED BY <2>1, <2>2, <2>3 DEF TypeOK, WorkerType, deliveryVars
<1>5. CASE WorkerResumes
  <2>1. posted' \in Seq(Command)
    BY <1>1, <1>5, Taken DEF WorkerResumes
  <2> QED BY <1>2, <1>5, <2>1 DEF WorkerResumes, TypeOK, WorkerType, deliveryVars
<1>6. CASE WorkerDeclines
  <2>1. posted' \in Seq(Command)
    BY <1>1, <1>6, Taken DEF WorkerDeclines
  <2>2. /\ halted' \in BOOLEAN
        /\ loop' \in {"none", "IN_PROGRESS", "NEEDS_USER_CONFIRMATION", "SUCCESS", "FAILED", "STOPPED"}
        /\ calls' \in [1..MaxCalls -> [message : Payload, left : 0..(MaxTries - 1)]]
        /\ wire' \in Seq(1..MaxCalls)
    <3>1. CASE loop # "none" /\ ~halted
      <4>1. halted' = TRUE /\ loop' \in {"SUCCESS", "FAILED", "STOPPED"}
        BY <1>6, <3>1 DEF WorkerDeclines, TypeOK, WorkerType
      <4>2. Progress(loopRun, loop', 0) \in Payload
        BY <4>1, ProgressType, BoundsAssumption DEF TypeOK, WorkerType, Reported, Finals
      <4> QED BY <1>1, <1>6, <3>1, <4>1, <4>2, SendType DEF WorkerDeclines
    <3>2. CASE ~(loop # "none" /\ ~halted)
      BY <1>6, <3>2 DEF WorkerDeclines, TypeOK, WorkerType, deliveryVars
    <3> QED BY <3>1, <3>2
  <2> QED BY <1>2, <1>6, <2>1, <2>2 DEF WorkerDeclines, TypeOK, WorkerType
<1>7. CASE LoopReports
  <2>1. PICK what \in {"IN_PROGRESS", "NEEDS_USER_CONFIRMATION", "SUCCESS", "FAILED"}, queued \in BOOLEAN :
          /\ what \in Finals \/ reports < MaxReports
          /\ loop' = what
          /\ reports' = IF what \in Finals THEN reports ELSE reports + 1
          /\ Send(Progress(loopRun, what, IF what = "NEEDS_USER_CONFIRMATION" THEN reports' ELSE 0), queued)
    BY <1>7 DEF LoopReports
  <2>2. reports' \in 0..MaxReports
    BY <2>1, BoundsAssumption DEF TypeOK, WorkerType
  <2>3. Progress(loopRun, what, IF what = "NEEDS_USER_CONFIRMATION" THEN reports' ELSE 0) \in Payload
    BY <2>2, ProgressType, BoundsAssumption DEF TypeOK, WorkerType, Reported, Finals
  <2>4. calls' \in [1..MaxCalls -> [message : Payload, left : 0..(MaxTries - 1)]] /\ wire' \in Seq(1..MaxCalls)
    BY <1>1, <2>1, <2>3, SendType
  <2> QED BY <1>2, <1>7, <2>1, <2>2, <2>4 DEF LoopReports, TypeOK, WorkerType
<1>8. CASE WorkerDies
  <2>1. UNCHANGED <<posted, answers, valid, reports>>
    BY <1>8 DEF WorkerDies
  <2> QED BY <1>2, <1>8, <2>1, LeavesType DEF WorkerDies, TypeOK, WorkerType
<1>9. CASE ExtensionReloads
  <2>1. UNCHANGED <<posted, answers, reports>> /\ valid' = FALSE
    BY <1>9 DEF ExtensionReloads
  <2> QED BY <1>2, <1>9, <2>1, LeavesType DEF ExtensionReloads, TypeOK, WorkerType
<1> QED BY <1>3, <1>4, <1>5, <1>6, <1>7, <1>8, <1>9 DEF Worker

\* The types hold for every number of runs, reports, calls, attempts and clicks.
THEOREM TypeCorrect == Spec => []TypeOK
<1>1. TypeOK /\ [Next]_vars => TypeOK'
  <2>1. TypeOK /\ UNCHANGED vars => TypeOK'
    BY DEF TypeOK, CardType, WorkerType, vars, cardVars, workerVars, deliveryVars
  <2> QED BY <2>1, CardStepType, TransportStepType, WorkerStepType DEF Next
<1> QED BY <1>1, InitType, PTL DEF Spec
----------------------------------------------------------------------------
\* A running card is watched, for every number of runs, calls and attempts.
THEOREM RunningWatched == Spec => []RunningIsWatched
<1>1. Init => RunningIsWatched
  BY DEF Init, RunningIsWatched
<1>2. ASSUME RunningIsWatched, NEW m, HandleProgress(m), pinging' = pinging
      PROVE  RunningIsWatched'
  <2>1. CASE Accepts(m)
    BY <1>2, <2>1 DEF HandleProgress, Watch, RunningIsWatched, Finals
  <2>2. CASE ~Accepts(m)
    BY <1>2, <2>2 DEF HandleProgress, RunningIsWatched
  <2> QED BY <2>1, <2>2
<1>3. ASSUME RunningIsWatched, [Next]_vars
      PROVE  RunningIsWatched'
  <2>1. ASSUME NEW sameTask \in BOOLEAN, StartTask(sameTask) PROVE RunningIsWatched'
    BY <2>1 DEF StartTask, RunningIsWatched
  <2>2. CASE StopTask
    BY <2>2 DEF StopTask, RunningIsWatched
  <2>3. CASE PingReturns
    BY <2>3 DEF PingReturns, RunningIsWatched
  <2>4. CASE WatchdogFires
    BY <2>4 DEF WatchdogFires, RunningIsWatched
  <2>5. CASE \E inTime \in BOOLEAN : Deliver(inTime)
    BY <1>2, <1>3, <2>5 DEF Deliver
  <2>6. CASE \E a \in answers : AnswerArrives(a)
    BY <1>2, <1>3, <2>6 DEF AnswerArrives
  <2>7. CASE RelayRefuses
    BY <1>2, <1>3, <2>7 DEF RelayRefuses
  <2>8. CASE UNCHANGED cardVars
    BY <1>3, <2>8 DEF RunningIsWatched, cardVars
  <2>9. ASSUME \/ \E allowed \in BOOLEAN : ConfirmAction(allowed)
               \/ Worker
               \/ \E i \in 1..MaxCalls, queued \in BOOLEAN : SendAgain(i, queued)
               \/ RelayFails
               \/ UNCHANGED vars
        PROVE  UNCHANGED cardVars
    BY <2>9 DEF ConfirmAction, Worker, WorkerStarts, WorkerStops, WorkerResumes, WorkerDeclines, LoopReports,
                WorkerDies, ExtensionReloads, SendAgain, RelayFails, vars
  <2> QED BY <1>3, <2>1, <2>2, <2>3, <2>4, <2>5, <2>6, <2>7, <2>8, <2>9 DEF Next, User, Transport
<1> QED BY <1>1, <1>2, <1>3, PTL DEF Spec
----------------------------------------------------------------------------
\* The invariant about the order of the runs, and how each kind of step keeps it.
IInv == TypeOK /\ OrderInv

\* What is on its way to the worker are commands of runs that have a number.
LEMMA PostedType ==
  ASSUME TypeOK, NEW n \in DOMAIN posted
  PROVE  posted[n] \in Command /\ posted[n].run \in Nat
<1>1. posted[n] \in Command
  BY DEF TypeOK, WorkerType
<1> QED BY <1>1 DEF Command

\* What a card takes keeps a stop shown, and shows a prompt only of the run that is
\* the latest one, of which no start is on its way.
LEMMA CardInOrder ==
  ASSUME IInv, NEW m \in Spoken \cup {Progress(0, "FAILED", 0)}, HandleProgress(m), UNCHANGED <<pinging, stopped>>
  PROVE  /\ StopShows'
         /\ status' = "NEEDS_USER_CONFIRMATION" => Starts = {} /\ loopRun \in {0, prompt'.run}
<1>1. Past(m.run) /\ (m.run = 0 => m.status = "FAILED")
  <2>1. CASE m \in Spoken
    BY <2>1 DEF IInv, OrderInv, LoopInOrder
  <2>2. CASE m = Progress(0, "FAILED", 0)
    BY <2>2 DEF IInv, TypeOK, CardType, OrderInv, LoopInOrder, Past, WorkerType, Progress
  <2> QED BY <2>1, <2>2
<1>2. CASE ~Accepts(m)
  BY <1>2 DEF HandleProgress, IInv, OrderInv, StopShows, PromptsInOrder
<1>3. CASE Accepts(m)
  <2>1. /\ m.run = 0 \/ m.run = currentRunId
        /\ status' = CardStatus(m)
        /\ status' = "NEEDS_USER_CONFIRMATION" => prompt' = [run |-> m.run, number |-> m.number]
    BY <1>3, Zenon DEF HandleProgress, Accepts
  <2>2. currentRunId \in Nat /\ loopRun \in Nat /\ Past(loopRun)
    BY DEF IInv, TypeOK, CardType, WorkerType, OrderInv, LoopInOrder
  <2>3. StopShows'
    BY <1>1, <2>1, <2>2 DEF IInv, OrderInv, StopShows, Past, CardStatus
  <2>4. ASSUME status' = "NEEDS_USER_CONFIRMATION" PROVE Starts = {} /\ loopRun \in {0, prompt'.run}
    <3>1. m.status = "NEEDS_USER_CONFIRMATION" /\ m.run = currentRunId /\ m \in Spoken
      BY <1>1, <2>1, <2>4 DEF CardStatus, Progress
    <3>2. \A n \in Starts : posted[n].run > currentRunId /\ posted[n].run <= currentRunId /\ posted[n].run \in Nat
      BY <3>1, PostedType DEF IInv, OrderInv, StartsInOrder, Past, Starts
    <3>3. loopRun # 0 => loopRun = currentRunId
      BY <2>2, <3>1 DEF IInv, OrderInv, LoopInOrder, Past
    <3> QED BY <2>1, <2>2, <2>4, <3>1, <3>2, <3>3
  <2> QED BY <2>3, <2>4
<1> QED BY <1>2, <1>3

\* Steps that hand out no id and begin no run: the queue to the worker stays or gives
\* its head, and what is newly said is about a run that every start still on its way
\* comes after.
LEMMA KeepsOrder ==
  ASSUME IInv, UNCHANGED <<currentRunId, pinging, stopped>>,
         NEW d \in {0, 1},
         \A n \in DOMAIN posted' : n \in Nat /\ n + d \in DOMAIN posted /\ posted'[n] = posted[n + d],
         (loopRun' = 0 /\ loop' = "none") \/ (loopRun' = loopRun /\ (loop' # "none" => loop # "none")),
         \A m \in Spoken' :
           \/ m \in Spoken
           \/ /\ Past(m.run) /\ m.run > 0
              /\ m.status = "NEEDS_USER_CONFIRMATION" => m.run = loopRun
              /\ \A n \in Starts' : posted'[n].run > m.run,
         StopShows',
         status' = "NEEDS_USER_CONFIRMATION" => Starts = {} /\ loopRun \in {0, prompt'.run}
  PROVE  OrderInv'
<1>1. currentRunId \in Nat /\ loopRun \in Nat /\ Past(loopRun)
  BY DEF IInv, TypeOK, CardType, WorkerType, OrderInv, LoopInOrder
<1>2. \A r : Past(r)' <=> Past(r)
  BY DEF Past
<1>3. /\ \A n \in Starts' : n \in Nat /\ n + d \in Starts /\ posted'[n] = posted[n + d]
      /\ \A n \in Confirms' : n \in Nat /\ n + d \in Confirms /\ posted'[n] = posted[n + d]
  BY DEF Starts, Confirms
<1>4. LoopInOrder'
  <2>1. Past(loopRun)' /\ (loop' # "none" => loopRun' > 0)
    BY <1>1 DEF IInv, OrderInv, LoopInOrder, Past
  <2>2. ASSUME NEW m \in Spoken'
        PROVE  /\ Past(m.run)
               /\ m.run = 0 => m.status = "FAILED"
               /\ m.status = "NEEDS_USER_CONFIRMATION" /\ loopRun' # 0 => m.run <= loopRun'
    <3>1. CASE m \in Spoken
      BY <3>1 DEF IInv, OrderInv, LoopInOrder
    <3>2. CASE m \notin Spoken
      BY <1>1, <3>2
    <3> QED BY <3>1, <3>2
  <2> QED BY <1>2, <2>1, <2>2 DEF LoopInOrder
<1>5. StartsInOrder'
  <2>1. ASSUME NEW n \in Starts'
        PROVE  /\ Past(posted'[n].run)
               /\ posted'[n].run > loopRun'
               /\ \A m \in Spoken' : posted'[n].run > m.run
               /\ \A k \in Starts' : k < n => posted'[k].run < posted'[n].run
    <3>1. /\ n + d \in Starts /\ posted'[n].run = posted[n + d].run
          /\ posted[n + d].run \in Nat
      BY <1>3, PostedType DEF IInv, Starts
    <3>2. Past(posted'[n].run) /\ posted'[n].run > loopRun /\ posted'[n].run > loopRun'
      BY <1>1, <3>1 DEF IInv, OrderInv, StartsInOrder
    <3>3. \A m \in Spoken' : posted'[n].run > m.run
      BY <3>1 DEF IInv, OrderInv, StartsInOrder
    <3>4. \A k \in Starts' : k < n => posted'[k].run < posted'[n].run
      <4>1. \A k \in Starts' : k < n => k + d < n + d
        BY <1>3
      <4> QED BY <1>3, <3>1, <4>1 DEF IInv, OrderInv, StartsInOrder
    <3> QED BY <3>2, <3>3, <3>4
  <2> QED BY <1>2, <2>1 DEF StartsInOrder
<1>6. PromptsInOrder'
  <2>1. Starts = {} => Starts' = {}
    BY <1>3
  <2>2. status' = "NEEDS_USER_CONFIRMATION" => Starts' = {} /\ loopRun' \in {0, prompt'.run}
    BY <2>1
  <2>3. ASSUME NEW n \in Confirms'
        PROVE  loopRun' \in {0, posted'[n].asked.run} /\ \A k \in Starts' : n < k
    <3>1. n + d \in Confirms /\ loopRun \in {0, posted[n + d].asked.run} /\ \A k \in Starts : n + d < k
      BY <1>3 DEF IInv, OrderInv, PromptsInOrder
    <3>2. \A k \in Starts' : n < k
      BY <1>3, <3>1
    <3> QED BY <1>3, <3>1, <3>2
  <2> QED BY <2>2, <2>3 DEF PromptsInOrder
<1> QED BY <1>4, <1>5, <1>6 DEF OrderInv

\* A message that begins its way is all that is newly said.
LEMMA SendSpeaks ==
  ASSUME IInv, NEW m, NEW queued, Send(m, queued), answers' = answers
  PROVE  Spoken' \subseteq Spoken \cup {m}
<1>1. PICK i \in 1..MaxCalls : calls' = [calls EXCEPT ![i] = [message |-> m, left |-> MaxTries - 1]]
  BY DEF Send
<1>2. calls \in [1..MaxCalls -> [message : Payload, left : 0..(MaxTries - 1)]]
  BY DEF IInv, TypeOK, WorkerType
<1>3. \A j \in 1..MaxCalls : calls'[j].message = calls[j].message \/ calls'[j].message = m
  BY <1>1, <1>2
<1> QED BY <1>3 DEF Spoken

\* Attempts that are made, delivered or given up say nothing new.
LEMMA AttemptsSpeak ==
  ASSUME IInv, NEW i \in 1..MaxCalls, NEW l, calls' = [calls EXCEPT ![i].left = l], answers' = answers
  PROVE  Spoken' = Spoken
<1>1. calls \in [1..MaxCalls -> [message : Payload, left : 0..(MaxTries - 1)]]
  BY DEF IInv, TypeOK, WorkerType
<1>2. \A j \in 1..MaxCalls : calls'[j].message = calls[j].message
  BY <1>1
<1> QED BY <1>2 DEF Spoken

LEMMA LeavesSpeak ==
  ASSUME IInv, WorkerLeaves, answers' = answers
  PROVE  Spoken' = Spoken
<1>1. calls \in [1..MaxCalls -> [message : Payload, left : 0..(MaxTries - 1)]]
  BY DEF IInv, TypeOK, WorkerType
<1>2. \A j \in 1..MaxCalls : calls'[j].message = calls[j].message
  BY <1>1 DEF WorkerLeaves
<1> QED BY <1>2 DEF Spoken

LEMMA InitOrder == Init => OrderInv
<1> SUFFICES ASSUME Init PROVE OrderInv
  OBVIOUS
<1>1. Starts = {} /\ Confirms = {}
  BY DEF Init, Starts, Confirms
<1>2. \A m \in Spoken : m.run = 0 /\ m.status = "FAILED"
  BY DEF Init, Spoken, NoMessage, Progress
<1> QED BY <1>1, <1>2 DEF Init, OrderInv, StopShows, LoopInOrder, StartsInOrder, PromptsInOrder, Past

\* What the user does, and the ping: ids are handed out and starts are posted.
LEMMA CardStepOrder ==
  ASSUME IInv, User \/ PingReturns
  PROVE  OrderInv'
<1>1. /\ currentRunId \in Nat /\ loopRun \in Nat
      /\ \A m \in Spoken : m.run \in Nat
      /\ \A n \in DOMAIN posted : posted[n].run \in Nat
      /\ \A n \in DOMAIN posted : n \in Nat
      /\ posted \in Seq(Command)
  <2>1. /\ calls \in [1..MaxCalls -> [message : Payload, left : 0..(MaxTries - 1)]]
        /\ posted \in Seq(Command) /\ answers \subseteq Payload
    BY DEF IInv, TypeOK, WorkerType
  <2>2. \A m \in Spoken : m \in Payload
    BY <2>1 DEF Spoken
  <2>3. \A m \in Spoken : m.run \in Nat
    BY <2>2 DEF Payload
  <2> QED BY <2>1, <2>3, PostedType DEF IInv, TypeOK, CardType, WorkerType
<1>2. UNCHANGED <<answers, deliveryVars>> => Spoken' = Spoken
  BY DEF Spoken, deliveryVars
\* A stop that is posted, or none, under a new id.
<1>3. ASSUME currentRunId' = currentRunId + 1, StopShows', status' # "NEEDS_USER_CONFIRMATION" \/ (status' = status /\ prompt' = prompt),
             \/ posted' = posted
             \/ posted' = Append(posted, [type |-> "STOP", run |-> currentRunId', asked |-> NoPrompt, allowed |-> FALSE]),
             UNCHANGED <<answers, workerVars, deliveryVars>>
      PROVE  OrderInv'
  <2> DEFINE stop == [type |-> "STOP", run |-> currentRunId', asked |-> NoPrompt, allowed |-> FALSE]
  <2>1. /\ \A n \in DOMAIN posted' : (n \in DOMAIN posted /\ posted'[n] = posted[n]) \/ posted'[n].type = "STOP"
    <3>1. CASE posted' = posted
      BY <3>1
    <3>2. CASE posted' = Append(posted, stop)
      <4>1. \A n \in DOMAIN posted' : n \in 1..(Len(posted) + 1)
        BY <1>1, <3>2, AppendProperties, SMT
      <4>2. \A n \in 1..Len(posted) : posted'[n] = posted[n] /\ n \in DOMAIN posted
        BY <1>1, <3>2
      <4>3. posted'[Len(posted) + 1] = stop
        BY <1>1, <3>2
      <4> QED BY <1>1, <4>1, <4>2, <4>3
    <3> QED BY <1>3, <3>1, <3>2
  <2>2. /\ \A n \in Starts' : n \in Starts /\ posted'[n] = posted[n]
        /\ \A n \in Confirms' : n \in Confirms /\ posted'[n] = posted[n]
    BY <2>1 DEF Starts, Confirms
  <2>3. \A r \in Nat : Past(r) => Past(r)'
    BY <1>1, <1>3 DEF Past
  <2>4. Spoken' = Spoken /\ loopRun' = loopRun /\ loop' = loop
    BY <1>2, <1>3 DEF workerVars
  <2>5. LoopInOrder'
    BY <1>1, <2>3, <2>4 DEF IInv, OrderInv, LoopInOrder
  <2>6. StartsInOrder'
    BY <1>1, <2>2, <2>3, <2>4 DEF IInv, OrderInv, StartsInOrder, Starts
  <2>7. PromptsInOrder'
    BY <1>3, <2>2, <2>4 DEF IInv, OrderInv, PromptsInOrder
  <2> QED BY <1>3, <2>5, <2>6, <2>7 DEF OrderInv
<1>4. ASSUME NEW sameTask \in BOOLEAN, StartTask(sameTask) PROVE OrderInv'
  <2>1. StopShows' /\ (status' # "NEEDS_USER_CONFIRMATION" \/ (status' = status /\ prompt' = prompt))
    BY <1>4 DEF StartTask, StopShows
  <2> QED BY <1>3, <1>4, <2>1 DEF StartTask
<1>5. CASE StopTask
  <2>1. StopShows' /\ status' # "NEEDS_USER_CONFIRMATION"
    BY <1>5 DEF StopTask, StopShows
  <2> QED BY <1>3, <1>5, <2>1 DEF StopTask
<1>6. ASSUME NEW allowed \in BOOLEAN, ConfirmAction(allowed) PROVE OrderInv'
  <2> DEFINE answer == [type |-> "CONFIRM", run |-> 0, asked |-> prompt, allowed |-> allowed]
  <2>1. Starts = {} /\ loopRun \in {0, prompt.run} /\ posted' = Append(posted, answer)
    BY <1>6 DEF ConfirmAction, IInv, OrderInv, PromptsInOrder
  <2>2. answer \in Command
    BY BoundsAssumption DEF IInv, TypeOK, CardType, Command
  <2>3. \A n \in DOMAIN posted' : (n \in DOMAIN posted /\ posted'[n] = posted[n]) \/ posted'[n] = answer
    BY <1>1, <2>1, <2>2, Appended
  <2>4. Starts' = {} /\ \A n \in Confirms' : (n \in Confirms /\ posted'[n] = posted[n]) \/ posted'[n] = answer
    BY <2>1, <2>3 DEF Starts, Confirms
  <2>5. /\ Spoken' = Spoken /\ UNCHANGED <<loopRun, loop, currentRunId, pinging, stopped, status, prompt>>
    BY <1>2, <1>6 DEF ConfirmAction, cardVars, workerVars
  <2>6. \A r : Past(r)' <=> Past(r)
    BY <2>5 DEF Past
  <2>7. StopShows' /\ LoopInOrder' /\ StartsInOrder'
    BY <2>4, <2>5, <2>6 DEF IInv, OrderInv, StopShows, LoopInOrder, StartsInOrder
  <2>8. PromptsInOrder'
    <3>1. answer.asked = prompt
      OBVIOUS
    <3>2. \A n \in Confirms' : loopRun \in {0, posted'[n].asked.run}
      BY <2>1, <2>4, <3>1 DEF IInv, OrderInv, PromptsInOrder
    <3> QED BY <2>1, <2>4, <2>5, <3>2 DEF PromptsInOrder
  <2> QED BY <2>7, <2>8 DEF OrderInv
<1>7. CASE PingReturns
  <2> DEFINE start == [type |-> "START", run |-> currentRunId, asked |-> NoPrompt, allowed |-> FALSE]
  <2>1. start \in Command
    BY BoundsAssumption DEF IInv, TypeOK, CardType, Command, NoPrompt, Prompt
  <2>2. /\ \A n \in DOMAIN posted' :
             (n \in DOMAIN posted /\ posted'[n] = posted[n]) \/ (n = Len(posted) + 1 /\ posted'[n] = start)
        /\ \A n \in DOMAIN posted : n < Len(posted) + 1
    BY <1>1, <1>7, <2>1, Appended DEF PingReturns
  <2>3. /\ \A n \in Starts' : (n \in Starts /\ posted'[n] = posted[n]) \/ (n = Len(posted) + 1 /\ posted'[n] = start)
        /\ \A n \in Confirms' : n \in Confirms /\ posted'[n] = posted[n] /\ n \in DOMAIN posted
    BY <2>2 DEF Starts, Confirms
  <2>4. /\ Spoken' = Spoken /\ UNCHANGED <<loopRun, loop, currentRunId, stopped>>
        /\ pinging /\ ~pinging' /\ ~stopped /\ status' = "RUNNING"
    BY <1>2, <1>7 DEF PingReturns, workerVars, IInv, OrderInv, StopShows
  <2>5. \A r \in Nat : (Past(r) => Past(r)' /\ r < currentRunId) /\ (r <= currentRunId => Past(r)')
    BY <1>1, <2>4 DEF Past
  <2>6. StopShows' /\ LoopInOrder'
    BY <1>1, <2>4, <2>5 DEF IInv, OrderInv, StopShows, LoopInOrder
  <2>7. StartsInOrder'
    <3>1. ASSUME NEW n \in Starts', n \in Starts, posted'[n] = posted[n]
          PROVE  /\ posted'[n].run <= currentRunId
                 /\ posted'[n].run > loopRun'
                 /\ \A m \in Spoken' : posted'[n].run > m.run
                 /\ \A k \in Starts' : k < n => posted'[k].run < posted'[n].run
      BY <1>1, <2>2, <2>3, <2>4, <2>5, <3>1 DEF IInv, OrderInv, StartsInOrder, Starts
    <3>2. ASSUME NEW n \in Starts', n = Len(posted) + 1, posted'[n] = start
          PROVE  /\ posted'[n].run <= currentRunId
                 /\ posted'[n].run > loopRun'
                 /\ \A m \in Spoken' : posted'[n].run > m.run
                 /\ \A k \in Starts' : k < n => posted'[k].run < posted'[n].run
      <4>1. Past(loopRun) /\ (\A m \in Spoken : Past(m.run)) /\ \A k \in Starts : Past(posted[k].run)
        BY DEF IInv, OrderInv, LoopInOrder, StartsInOrder
      <4>2. \A k \in Starts : posted[k].run \in Nat
        BY <1>1 DEF Starts
      <4>3. \A k \in Starts' : k < n => k \in Starts /\ posted'[k] = posted[k]
        BY <1>1, <2>3, <3>2
      <4>4. start.run = currentRunId
        OBVIOUS
      <4> QED BY <1>1, <2>4, <2>5, <3>2, <4>1, <4>2, <4>3, <4>4
    <3>3. ASSUME NEW n \in Starts'
          PROVE  /\ posted'[n].run <= currentRunId
                 /\ posted'[n].run > loopRun'
                 /\ \A m \in Spoken' : posted'[n].run > m.run
                 /\ \A k \in Starts' : k < n => posted'[k].run < posted'[n].run
      BY <2>3, <3>1, <3>2
    <3>4. ~pinging' /\ ~stopped' /\ currentRunId' = currentRunId
      BY <2>4
    <3> QED BY <3>3, <3>4 DEF StartsInOrder, Past
  <2>8. PromptsInOrder'
    <3>1. \A n \in Confirms' : loopRun' \in {0, posted'[n].asked.run} /\ \A k \in Starts' : n < k
      BY <2>2, <2>3, <2>4 DEF IInv, OrderInv, PromptsInOrder
    <3> QED BY <2>4, <3>1 DEF PromptsInOrder
  <2> QED BY <2>6, <2>7, <2>8 DEF OrderInv
<1> QED BY <1>4, <1>5, <1>6, <1>7 DEF User

\* The head of the queue to the worker, and what is behind it.
LEMMA PostedTaken ==
  ASSUME IInv, posted # <<>>, posted' = Tail(posted)
  PROVE  /\ Head(posted) \in Command /\ 1 \in DOMAIN posted /\ Head(posted) = posted[1]
         /\ \A n \in DOMAIN posted' : n \in Nat /\ n > 0 /\ n + 1 \in DOMAIN posted /\ posted'[n] = posted[n + 1]
BY Taken DEF IInv, TypeOK, WorkerType

LEMMA PostedKept ==
  ASSUME IInv, posted' = posted
  PROVE  \A n \in DOMAIN posted' : n \in Nat /\ n + 0 \in DOMAIN posted /\ posted'[n] = posted[n + 0]
BY DEF IInv, TypeOK, WorkerType

\* A run begins, or is refused or answered: what is said of it comes after all
\* that was said before and before the starts that are still on their way.
LEMMA StartOrder ==
  ASSUME IInv, WorkerStarts
  PROVE  OrderInv'
<1>1. PICK m, queued :
        /\ m.run = Head(posted).run /\ m.status \in {"RUNNING", "FAILED", "ANSWER"}
        /\ Send(m, queued) /\ answers' = answers \cup {m}
        /\ (loopRun' = 0 /\ loop' = "none") \/ loopRun' = Head(posted).run
  BY DEF WorkerStarts, Progress
<1>2. /\ Head(posted) \in Command /\ 1 \in DOMAIN posted /\ Head(posted) = posted[1]
      /\ \A n \in DOMAIN posted' : n \in Nat /\ n > 0 /\ n + 1 \in DOMAIN posted /\ posted'[n] = posted[n + 1]
  BY PostedTaken DEF WorkerStarts
<1>3. /\ 1 \in Starts /\ posted[1].run \in Nat /\ loopRun \in Nat
      /\ \A n \in Starts : posted[n].run \in Nat
  BY <1>2, PostedType DEF WorkerStarts, Starts, IInv, TypeOK, WorkerType
<1>4. /\ \A n \in Starts' : n \in Nat /\ n > 0 /\ n + 1 \in Starts /\ posted'[n] = posted[n + 1]
      /\ \A n \in Confirms' : n \in Nat /\ n > 0 /\ n + 1 \in Confirms
  BY <1>2 DEF Starts, Confirms
<1>5. UNCHANGED <<currentRunId, pinging, stopped, status, prompt>>
  BY DEF WorkerStarts, cardVars
<1>6. \A r : Past(r)' <=> Past(r)
  BY <1>5 DEF Past
<1>7. Spoken' \subseteq Spoken \cup {m}
  <2>1. PICK i \in 1..MaxCalls : calls' = [calls EXCEPT ![i] = [message |-> m, left |-> MaxTries - 1]]
    BY <1>1 DEF Send
  <2>2. calls \in [1..MaxCalls -> [message : Payload, left : 0..(MaxTries - 1)]]
    BY DEF IInv, TypeOK, WorkerType
  <2>3. \A j \in 1..MaxCalls : calls'[j].message = calls[j].message \/ calls'[j].message = m
    BY <2>1, <2>2
  <2> QED BY <1>1, <2>3 DEF Spoken
<1>8. Past(posted[1].run) /\ posted[1].run > 0
  BY <1>3 DEF IInv, OrderInv, StartsInOrder
<1>9. Confirms = {}
  <2>1. \A n \in Confirms : n < 1 /\ n \in 1..Len(posted)
    BY <1>3 DEF IInv, OrderInv, PromptsInOrder, Confirms, TypeOK, WorkerType
  <2> QED BY <2>1
<1>10. LoopInOrder'
  <2>1. Past(loopRun') /\ (loop' # "none" => loopRun' > 0)
    <3>1. Past(0)
      BY <1>3 DEF IInv, OrderInv, LoopInOrder, Past, TypeOK, CardType
    <3> QED BY <1>1, <1>2, <1>8, <3>1
  <2>2. \A x \in Spoken' : /\ Past(x.run)
                           /\ x.run = 0 => x.status = "FAILED"
                           /\ x.status = "NEEDS_USER_CONFIRMATION" /\ loopRun' # 0 => x.run <= loopRun'
    <3>1. ASSUME NEW x \in Spoken
          PROVE  /\ Past(x.run)
                 /\ x.run = 0 => x.status = "FAILED"
                 /\ x.status = "NEEDS_USER_CONFIRMATION" /\ loopRun' # 0 => x.run <= loopRun'
      <4>1. posted[1].run > x.run /\ x.run \in Nat
        <5>1. x \in Payload
          BY <3>1 DEF IInv, TypeOK, WorkerType, Spoken
        <5> QED BY <1>3, <3>1, <5>1 DEF IInv, OrderInv, StartsInOrder, Payload
      <4> QED BY <1>1, <1>2, <1>3, <3>1, <4>1 DEF IInv, OrderInv, LoopInOrder
    <3>2. Past(m.run) /\ m.run # 0 /\ m.status # "NEEDS_USER_CONFIRMATION"
      BY <1>1, <1>2, <1>3, <1>8
    <3> QED BY <1>7, <3>1, <3>2
  <2>3. Past(loopRun)' /\ \A x \in Spoken' : Past(x.run)'
    BY <1>5, <2>1, <2>2 DEF Past
  <2> QED BY <2>1, <2>2, <2>3 DEF LoopInOrder
<1>11. StartsInOrder'
  <2>1. ASSUME NEW n \in Starts'
        PROVE  /\ Past(posted'[n].run)
               /\ posted'[n].run > loopRun'
               /\ \A x \in Spoken' : posted'[n].run > x.run
               /\ \A k \in Starts' : k < n => posted'[k].run < posted'[n].run
    <3>1. n + 1 \in Starts /\ posted'[n] = posted[n + 1] /\ 1 < n + 1
      BY <1>4
    <3>2. posted[n + 1].run > posted[1].run /\ posted[n + 1].run \in Nat
      BY <1>3, <3>1 DEF IInv, OrderInv, StartsInOrder
    <3>3. Past(posted'[n].run) /\ posted'[n].run > loopRun'
      BY <1>1, <1>2, <1>3, <3>1, <3>2 DEF IInv, OrderInv, StartsInOrder
    <3>4. \A x \in Spoken' : posted'[n].run > x.run
      BY <1>1, <1>2, <1>7, <3>1, <3>2 DEF IInv, OrderInv, StartsInOrder
    <3>5. \A k \in Starts' : k < n => posted'[k].run < posted'[n].run
      <4>1. \A k \in Starts' : k < n => k + 1 < n + 1
        BY <1>4
      <4> QED BY <1>4, <3>1, <4>1 DEF IInv, OrderInv, StartsInOrder
    <3> QED BY <3>3, <3>4, <3>5
  <2>2. \A n \in Starts' : Past(posted[n].run)'
    BY <1>5, <2>1 DEF Past
  <2> QED BY <2>1, <2>2 DEF StartsInOrder
<1>12. StopShows' /\ PromptsInOrder'
  <2>1. Confirms' = {} /\ Starts # {}
    BY <1>3, <1>4, <1>9
  <2> QED BY <1>5, <2>1 DEF IInv, OrderInv, StopShows, PromptsInOrder
<1> QED BY <1>10, <1>11, <1>12 DEF OrderInv

\* Every step keeps the order.
LEMMA NextOrder ==
  ASSUME IInv, [Next]_vars
  PROVE  OrderInv'
<1>1. StopShows /\ (status = "NEEDS_USER_CONFIRMATION" => Starts = {} /\ loopRun \in {0, prompt.run})
  BY DEF IInv, OrderInv, PromptsInOrder
<1>2. UNCHANGED cardVars =>
        /\ UNCHANGED <<currentRunId, pinging, stopped>> /\ StopShows'
        /\ status' = "NEEDS_USER_CONFIRMATION" => Starts = {} /\ loopRun \in {0, prompt'.run}
  BY <1>1 DEF cardVars, StopShows
<1>3. currentRunId \in Nat /\ loopRun \in Nat
  BY DEF IInv, TypeOK, CardType, WorkerType
<1>4. CASE WatchdogFires
  <2>1. Spoken' = Spoken /\ posted' = posted /\ loopRun' = loopRun /\ loop' = loop
    BY <1>4 DEF WatchdogFires, Spoken, workerVars, deliveryVars
  <2>2. /\ StopShows' /\ UNCHANGED <<currentRunId, pinging, stopped>>
        /\ status' = "NEEDS_USER_CONFIRMATION" => Starts = {} /\ loopRun \in {0, prompt'.run}
    BY <1>1, <1>4 DEF WatchdogFires, StopShows
  <2> QED BY <2>1, <2>2, PostedKept, KeepsOrder
<1>5. ASSUME NEW i \in 1..MaxCalls, NEW queued \in BOOLEAN, SendAgain(i, queued) PROVE OrderInv'
  <2>1. Spoken' = Spoken
    BY <1>5, AttemptsSpeak DEF SendAgain
  <2>2. posted' = posted /\ loopRun' = loopRun /\ loop' = loop /\ UNCHANGED cardVars
    BY <1>5 DEF SendAgain, workerVars
  <2> QED BY <1>2, <2>1, <2>2, PostedKept, KeepsOrder
<1>6. ASSUME NEW inTime \in BOOLEAN, Deliver(inTime) PROVE OrderInv'
  <2>1. Head(wire) \in 1..MaxCalls
    BY <1>6, Taken DEF Deliver, IInv, TypeOK, WorkerType
  <2>2. Spoken' = Spoken
    BY <1>6, <2>1, AttemptsSpeak DEF Deliver
  <2>3. posted' = posted /\ loopRun' = loopRun /\ loop' = loop /\ UNCHANGED <<currentRunId, pinging, stopped>>
    BY <1>6 DEF Deliver, workerVars
  <2>4. calls[Head(wire)].message \in Spoken
    BY <2>1 DEF Spoken
  <2>5. StopShows' /\ (status' = "NEEDS_USER_CONFIRMATION" => Starts = {} /\ loopRun \in {0, prompt'.run})
    BY <1>6, <2>3, <2>4, CardInOrder DEF Deliver
  <2> QED BY <2>2, <2>3, <2>5, PostedKept, KeepsOrder
<1>7. ASSUME NEW a \in answers, AnswerArrives(a) PROVE OrderInv'
  <2>1. a \in Spoken /\ Spoken' \subseteq Spoken
    BY <1>7 DEF AnswerArrives, Spoken, deliveryVars
  <2>2. posted' = posted /\ loopRun' = loopRun /\ loop' = loop /\ UNCHANGED <<currentRunId, pinging, stopped>>
    BY <1>7 DEF AnswerArrives, workerVars
  <2>3. StopShows' /\ (status' = "NEEDS_USER_CONFIRMATION" => Starts = {} /\ loopRun \in {0, prompt'.run})
    BY <1>7, <2>1, <2>2, CardInOrder DEF AnswerArrives
  <2> QED BY <2>1, <2>2, <2>3, PostedKept, KeepsOrder
<1>8. CASE WorkerStops
  <2>1. Spoken' = Spoken /\ loopRun' = 0 /\ loop' = "none" /\ UNCHANGED cardVars
    BY <1>8 DEF WorkerStops, Spoken, deliveryVars
  <2>2. posted # <<>> /\ posted' = Tail(posted)
    BY <1>8 DEF WorkerStops
  <2> QED BY <1>2, <2>1, <2>2, PostedTaken, KeepsOrder
<1>9. CASE WorkerResumes
  <2>1. Spoken' = Spoken /\ loopRun' = loopRun /\ (loop' # "none" => loop # "none") /\ UNCHANGED cardVars
    BY <1>9 DEF WorkerResumes, Spoken, deliveryVars
  <2>2. posted # <<>> /\ posted' = Tail(posted)
    BY <1>9 DEF WorkerResumes
  <2> QED BY <1>2, <2>1, <2>2, PostedTaken, KeepsOrder
<1>10. ASSUME NEW m, NEW queued, Send(m, queued), m.run = loopRun, answers' = answers,
              UNCHANGED cardVars, loopRun' = loopRun, loop # "none",
              posted' = posted \/ (posted # <<>> /\ posted' = Tail(posted))
       PROVE  OrderInv'
  <2>1. Spoken' \subseteq Spoken \cup {m}
    BY <1>10, SendSpeaks
  <2>2. Past(m.run) /\ m.run > 0 /\ \A n \in Starts : posted[n].run > m.run
    BY <1>10 DEF IInv, OrderInv, LoopInOrder, StartsInOrder
  <2>3. PICK d \in {0, 1} : \A n \in DOMAIN posted' : n \in Nat /\ n + d \in DOMAIN posted /\ posted'[n] = posted[n + d]
    BY <1>10, PostedTaken, PostedKept
  <2>4. \A n \in Starts' : posted'[n].run > m.run
    BY <2>2, <2>3 DEF Starts
  <2>5. \A x \in Spoken' :
           \/ x \in Spoken
           \/ /\ Past(x.run) /\ x.run > 0
              /\ x.status = "NEEDS_USER_CONFIRMATION" => x.run = loopRun
              /\ \A n \in Starts' : posted'[n].run > x.run
    BY <1>10, <2>1, <2>2, <2>4
  <2> QED BY <1>2, <1>10, <2>3, <2>5, KeepsOrder
<1>11. CASE WorkerDeclines
  <2>1. posted # <<>> /\ posted' = Tail(posted) /\ UNCHANGED <<answers, loopRun>> /\ UNCHANGED cardVars
    BY <1>11 DEF WorkerDeclines
  <2>2. CASE loop # "none" /\ ~halted
    <3>1. PICK queued \in BOOLEAN : Send(Progress(loopRun, loop', 0), queued)
      BY <1>11, <2>2 DEF WorkerDeclines
    <3>2. Progress(loopRun, loop', 0).run = loopRun
      BY DEF Progress
    <3> QED BY <1>10, <2>1, <2>2, <3>1, <3>2
  <2>3. CASE ~(loop # "none" /\ ~halted)
    <3>1. Spoken' = Spoken /\ loop' = loop
      BY <1>11, <2>3 DEF WorkerDeclines, Spoken, deliveryVars
    <3> QED BY <1>2, <2>1, <3>1, PostedTaken, KeepsOrder
  <2> QED BY <2>2, <2>3
<1>12. CASE LoopReports
  <2>1. PICK m, queued : Send(m, queued) /\ m.run = loopRun
    BY <1>12 DEF LoopReports, Progress
  <2>2. UNCHANGED <<answers, loopRun, posted>> /\ UNCHANGED cardVars /\ loop # "none"
    BY <1>12 DEF LoopReports
  <2> QED BY <1>10, <2>1, <2>2
<1>13. CASE WorkerDies \/ ExtensionReloads
  <2>1. WorkerLeaves /\ UNCHANGED <<posted, answers>> /\ UNCHANGED cardVars
    BY <1>13 DEF WorkerDies, ExtensionReloads
  <2>2. Spoken' = Spoken /\ loopRun' = 0 /\ loop' = "none"
    BY <2>1, LeavesSpeak DEF WorkerLeaves
  <2> QED BY <1>2, <2>1, <2>2, PostedKept, KeepsOrder
<1>14. CASE RelayFails
  <2>1. /\ posted # <<>> /\ posted' = Tail(posted) /\ UNCHANGED cardVars
        /\ loopRun' = loopRun /\ loop' = loop /\ UNCHANGED calls
        /\ answers' = IF Head(posted).type = "START"
                        THEN answers \cup {Progress(Head(posted).run, "FAILED", 0)} ELSE answers
    BY <1>14 DEF RelayFails, workerVars, deliveryVars
  <2>2. /\ Head(posted) = posted[1] /\ 1 \in DOMAIN posted
        /\ \A n \in DOMAIN posted' : n \in Nat /\ n > 0 /\ n + 1 \in DOMAIN posted /\ posted'[n] = posted[n + 1]
    BY <2>1, PostedTaken
  <2>3. ASSUME NEW x \in Spoken', x \notin Spoken
        PROVE  /\ Past(x.run) /\ x.run > 0
               /\ x.status # "NEEDS_USER_CONFIRMATION"
               /\ \A n \in Starts' : posted'[n].run > x.run
    <3>1. 1 \in Starts /\ x = Progress(posted[1].run, "FAILED", 0)
      BY <2>1, <2>2, <2>3 DEF Spoken, Starts
    <3>2. x.run = posted[1].run /\ x.status = "FAILED" /\ posted[1].run \in Nat
      BY <2>2, <3>1, PostedType DEF Progress, IInv
    <3>3. Past(posted[1].run) /\ posted[1].run > 0
      BY <1>3, <3>1, <3>2 DEF IInv, OrderInv, StartsInOrder
    <3>4. \A n \in Starts' : 1 < n + 1 /\ n + 1 \in Starts /\ posted'[n] = posted[n + 1]
      BY <2>2 DEF Starts
    <3>5. \A n \in Starts' : posted'[n].run > posted[1].run
      <4>1. \A n \in Starts' : posted[n + 1].run \in Nat
        BY <3>4, PostedType DEF Starts, IInv
      <4> QED BY <3>1, <3>2, <3>4, <4>1 DEF IInv, OrderInv, StartsInOrder
    <3> QED BY <3>2, <3>3, <3>5
  <2> QED BY <1>2, <2>1, <2>2, <2>3, KeepsOrder
<1>15. CASE RelayRefuses
  <2>1. Spoken' = Spoken /\ loopRun' = loopRun /\ loop' = loop /\ UNCHANGED <<currentRunId, pinging, stopped>>
    BY <1>15 DEF RelayRefuses, Spoken, workerVars, deliveryVars
  <2>2. StopShows' /\ (status' = "NEEDS_USER_CONFIRMATION" => Starts = {} /\ loopRun \in {0, prompt'.run})
    BY <1>15, <2>1, CardInOrder DEF RelayRefuses
  <2>3. posted # <<>> /\ posted' = Tail(posted)
    BY <1>15 DEF RelayRefuses
  <2> QED BY <2>1, <2>2, <2>3, PostedTaken, KeepsOrder
<1>16. CASE UNCHANGED vars
  <2>1. Spoken' = Spoken /\ posted' = posted /\ loopRun' = loopRun /\ loop' = loop /\ UNCHANGED cardVars
    BY <1>16 DEF vars, Spoken, workerVars, deliveryVars
  <2> QED BY <1>2, <2>1, PostedKept, KeepsOrder
<1> QED BY <1>4, <1>5, <1>6, <1>7, <1>8, <1>9, <1>11, <1>12, <1>13, <1>14, <1>15, <1>16,
           CardStepOrder, StartOrder DEF Next, Worker, Transport

THEOREM OrderCorrect == Spec => []IInv
<1>1. Init => IInv
  BY InitType, InitOrder DEF IInv
<1>2. IInv /\ [Next]_vars => IInv'
  <2>1. TypeOK /\ [Next]_vars => TypeOK'
    <3>1. TypeOK /\ UNCHANGED vars => TypeOK'
      BY DEF TypeOK, CardType, WorkerType, vars, cardVars, workerVars, deliveryVars
    <3> QED BY <3>1, CardStepType, TransportStepType, WorkerStepType DEF Next
  <2> QED BY <2>1, NextOrder DEF IInv
<1> QED BY <1>1, <1>2, PTL DEF Spec

\* What the user stopped stays stopped, for every number of runs, calls and attempts.
THEOREM StopIsKept == Spec => StopHolds
<1>1. IInv' => (stopped' => status' \in {"STOPPED", "FAILED"})
  BY DEF IInv, OrderInv, StopShows
<1>2. IInv' => [stopped /\ stopped' => status' \in {"STOPPED", "FAILED"}]_vars
  BY <1>1
<1> QED BY <1>2, OrderCorrect, PTL DEF StopHolds

\* A confirmation reaches no other run than the one whose prompt was on the card.
THEOREM ConfirmationIsOwn == Spec => ConfirmedIsOwnRun
<1>1. ASSUME IInv, [Next]_vars, Dispatching
      PROVE  Head(posted).asked.run = loopRun
  <2>1. CASE WorkerResumes
    <3>1. 1 \in DOMAIN posted /\ Head(posted) = posted[1] /\ Head(posted).type = "CONFIRM"
      BY <1>1, <2>1, PostedTaken DEF WorkerResumes
    <3>2. loopRun \in {0, posted[1].asked.run} /\ loopRun > 0
      BY <1>1, <3>1 DEF IInv, OrderInv, PromptsInOrder, LoopInOrder, Confirms, Dispatching
    <3> QED BY <3>1, <3>2
  <2>2. CASE WorkerStarts
    <3>1. 1 \in Starts /\ Head(posted) = posted[1] /\ posted[1].run \in Nat /\ loopRun \in Nat
      BY <1>1, <2>2, PostedTaken, PostedType DEF WorkerStarts, Starts, IInv, TypeOK, WorkerType
    <3>2. posted[1].run > loopRun
      BY <1>1, <3>1 DEF IInv, OrderInv, StartsInOrder
    <3>3. loopRun' # loopRun \/ loop' = "none"
      BY <2>2, <3>1, <3>2 DEF WorkerStarts
    <3> QED BY <1>1, <3>3 DEF Dispatching
  <2>3. CASE WorkerStops \/ WorkerDies \/ ExtensionReloads
    BY <1>1, <2>3 DEF WorkerStops, WorkerDies, ExtensionReloads, WorkerLeaves, Dispatching
  <2>4. CASE WorkerDeclines
    BY <1>1, <2>4 DEF WorkerDeclines, Dispatching
  <2>5. CASE LoopReports
    BY <1>1, <2>5 DEF LoopReports, Dispatching
  <2>6. CASE UNCHANGED workerVars
    BY <1>1, <2>6 DEF workerVars, Dispatching
  <2>7. User \/ PingReturns \/ WatchdogFires \/ Transport \/ UNCHANGED vars => UNCHANGED workerVars
    BY DEF User, StartTask, StopTask, ConfirmAction, PingReturns, WatchdogFires, Transport, SendAgain, Deliver,
           AnswerArrives, RelayFails, RelayRefuses, vars
  <2> QED BY <1>1, <2>1, <2>2, <2>3, <2>4, <2>5, <2>6, <2>7 DEF Next, Worker
<1>2. IInv /\ [Next]_vars => [Dispatching => Head(posted).asked.run = loopRun]_vars
  BY <1>1
<1> QED BY <1>2, OrderCorrect, PTL DEF ConfirmedIsOwnRun, Spec
=============================================================================
