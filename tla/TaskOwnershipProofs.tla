------------------------ MODULE TaskOwnershipProofs ------------------------
(***************************************************************************)
(* What the service worker keeps for any number of bodies, runs, steps and *)
(* confirmations: the types, and, while the dashboard page is not loaded   *)
(* again, the lease of the tab.                                            *)
(***************************************************************************)
EXTENDS TaskOwnership, TLAPS

\* cancel() keeps the types, whether or not there is a loop to halt.
LEMMA HaltType ==
  ASSUME LoopType, NEW n, NEW how \in {"CANCELLED", "SUPERSEDED"}, Halt(n, how)
  PROVE  life' \in [Bodies -> Lives] /\ status' \in [Bodies -> Statuses]
<1>1. CASE n # 0 /\ life[n] = "ACTIVE"
  <2>1. life' = [life EXCEPT ![n] = how] /\ how \in Lives
    BY <1>1 DEF Halt, Lives
  <2>2. PICK s : /\ status' = [status EXCEPT ![n] = s]
                 /\ s = IF status[n] \in {"IN_PROGRESS", "NEEDS_USER_CONFIRMATION"} THEN "STOPPED" ELSE status[n]
    BY <1>1 DEF Halt
  <2>3. n \in Bodies => s \in Statuses
    BY <2>2 DEF LoopType, Statuses
  <2> QED BY <2>1, <2>2, <2>3 DEF LoopType
<1>2. CASE ~(n # 0 /\ life[n] = "ACTIVE")
  BY <1>2 DEF Halt, LoopType
<1> QED BY <1>1, <1>2

\* STOP keeps the types of the worker and of the loop it halts.
LEMMA StopType ==
  ASSUME WorkerType, LoopType, NEW how \in {"CANCELLED", "SUPERSEDED"}, WorkerStops(how)
  PROVE  WorkerType' /\ life' \in [Bodies -> Lives] /\ status' \in [Bodies -> Statuses]
<1>1. last' \in Remembered
  BY DEF WorkerType, WorkerStops, Remembered, Statuses
<1>2. active' \in Nat /\ activeLoop' \in 0..MaxBodies /\ talk' = talk /\ anchored' = anchored
  BY BoundsAssumption DEF WorkerType, WorkerStops
<1>3. Halt(activeLoop, how)
  BY DEF WorkerStops
<1> QED BY <1>1, <1>2, <1>3, HaltType DEF WorkerType

\* A START that claims the tab keeps the types.
LEMMA ClaimType ==
  ASSUME TypeOK, NEW n \in Bodies, NEW works \in Texts, NEW from \in 0..MaxBodies, NEW opens \in BOOLEAN,
         Claim(n, works, from, opens)
  PROVE  TypeOK'
<1>1. n \in 0..MaxBodies
  BY BoundsAssumption DEF Bodies
<1>2. DashType'
  <2>1. starting' = FALSE /\ offered' = 0 /\ owner' = n
    BY DEF Claim
  <2>2. UNCHANGED <<dashRun, cardText, shown, told, reloads, confirms>>
    BY DEF Claim
  <2>3. offered' \in 0..MaxRuns
    BY <2>1, BoundsAssumption
  <2> QED BY <1>1, <2>1, <2>2, <2>3 DEF TypeOK, DashType
<1>3. WorkerType'
  <2>1. active' \in Nat /\ activeLoop' \in 0..MaxBodies
    BY BoundsAssumption DEF TypeOK, DashType, Claim
  <2>2. talk' \in 0..MaxBodies /\ anchored' \in BOOLEAN /\ last' \in Remembered
    BY <1>1, Zenon DEF TypeOK, WorkerType, Claim
  <2> QED BY <2>1, <2>2 DEF WorkerType
<1>4. BodyType'
  BY <1>1, BoundsAssumption DEF TypeOK, DashType, WorkerType, BodyType, Claim
<1>5. LoopType'
  BY HaltType DEF TypeOK, LoopType, Claim
<1> QED BY <1>2, <1>3, <1>4, <1>5 DEF TypeOK

LEMMA InitType == Init => TypeOK
<1> SUFFICES ASSUME Init PROVE TypeOK
  OBVIOUS
<1>1. DashType
  <2>1. \A k \in Nat : 0 \in 0..k
    OBVIOUS
  <2>2. starting \in BOOLEAN /\ cardText \in Texts
    BY DEF Init, Texts
  <2>3. /\ dashRun \in 0..MaxRuns /\ offered \in 0..MaxRuns
        /\ owner \in 0..MaxBodies /\ shown \in 0..MaxBodies /\ told \in 0..MaxBodies
        /\ reloads \in 0..MaxReloads /\ confirms \in 0..MaxConfirms
    BY <2>1, BoundsAssumption DEF Init
  <2> QED BY <2>2, <2>3 DEF DashType
<1>2. last \in Remembered
  BY BoundsAssumption DEF Init, NoRun, Remembered, Texts, Statuses
<1>3. WorkerType
  <2>1. active \in Nat /\ activeLoop \in 0..MaxBodies /\ talk \in 0..MaxBodies
    BY BoundsAssumption DEF Init
  <2>2. anchored \in BOOLEAN
    BY DEF Init
  <2> QED BY <1>2, <2>1, <2>2 DEF WorkerType
<1>4. BodyType
  BY BoundsAssumption DEF Init, BodyType, Texts
<1>5. LoopType
  BY BoundsAssumption DEF Init, LoopType, Lives, Statuses
<1> QED BY <1>1, <1>3, <1>4, <1>5 DEF TypeOK

\* A group of variables that does not change keeps its types.
LEMMA UnchangedType ==
  ASSUME TypeOK
  PROVE  /\ UNCHANGED dashVars => DashType'
         /\ UNCHANGED workerVars => WorkerType'
         /\ UNCHANGED bodyVars => BodyType'
         /\ UNCHANGED loopVars => LoopType'
<1>1. UNCHANGED dashVars => DashType'
  BY DEF TypeOK, DashType, dashVars
<1>2. UNCHANGED workerVars => WorkerType'
  BY DEF TypeOK, WorkerType, workerVars
<1>3. UNCHANGED bodyVars => BodyType'
  BY DEF TypeOK, BodyType, bodyVars
<1>4. UNCHANGED loopVars => LoopType'
  BY DEF TypeOK, LoopType, loopVars
<1> QED BY <1>1, <1>2, <1>3, <1>4

\* What the dashboard sends keeps the types.
LEMMA DashboardType == TypeOK /\ Dashboard => TypeOK'
<1> SUFFICES ASSUME TypeOK, Dashboard PROVE TypeOK'
  OBVIOUS
<1> USE BoundsAssumption
<1>0. DashType /\ WorkerType /\ BodyType /\ LoopType
  BY DEF TypeOK
<1>1. ASSUME NEW replaces \in BOOLEAN, StartTask(replaces) PROVE TypeOK'
  <2>1. dashRun' \in 0..MaxRuns /\ offered' \in 0..MaxRuns
    BY <1>0, <1>1 DEF DashType, StartTask
  <2>2. starting' \in BOOLEAN /\ cardText' \in Texts
    BY <1>1 DEF StartTask
  <2>3. owner' \in 0..MaxBodies /\ shown' \in 0..MaxBodies /\ told' \in 0..MaxBodies
    BY <1>1 DEF StartTask
  <2>4. DashType'
    BY <1>0, <1>1, <2>1, <2>2, <2>3 DEF DashType, StartTask
  <2>5. CASE replaces
    <3>1. WorkerType' /\ life' \in [Bodies -> Lives] /\ status' \in [Bodies -> Statuses]
      BY <1>0, <1>1, <2>5, StopType DEF StartTask
    <3> QED BY <1>0, <1>1, <2>4, <3>1 DEF TypeOK, StartTask, BodyType, LoopType, bodyVars
  <2>6. CASE ~replaces
    <3>1. UNCHANGED workerVars /\ UNCHANGED bodyVars /\ UNCHANGED loopVars
      BY <1>1, <2>6 DEF StartTask, loopVars
    <3> QED BY <2>4, <3>1, UnchangedType DEF TypeOK
  <2> QED BY <2>5, <2>6
<1>2. ASSUME StopTask PROVE TypeOK'
  <2>1. dashRun' \in 0..MaxRuns /\ offered' \in 0..MaxRuns
    BY <1>0, <1>2 DEF DashType, StopTask
  <2>2. owner' \in 0..MaxBodies /\ shown' \in 0..MaxBodies /\ told' \in 0..MaxBodies
    BY <1>2 DEF StopTask
  <2>3. DashType'
    BY <1>0, <1>2, <2>1, <2>2 DEF DashType, StopTask
  <2>4. WorkerType' /\ life' \in [Bodies -> Lives] /\ status' \in [Bodies -> Statuses]
    BY <1>0, <1>2, StopType DEF StopTask
  <2> QED BY <1>0, <1>2, <2>3, <2>4 DEF TypeOK, StopTask, BodyType, LoopType, bodyVars
<1>3. ASSUME Reload PROVE TypeOK'
  <2>1. dashRun' \in 0..MaxRuns /\ offered' \in 0..MaxRuns /\ reloads' \in 0..MaxReloads
    BY <1>0, <1>3 DEF DashType, Reload
  <2>2. owner' \in 0..MaxBodies /\ shown' \in 0..MaxBodies /\ told' \in 0..MaxBodies
    BY <1>3 DEF Reload
  <2>3. starting' \in BOOLEAN /\ cardText' \in Texts
    BY <1>3 DEF Reload, Texts
  <2>4. DashType'
    BY <1>0, <1>3, <2>1, <2>2, <2>3 DEF DashType, Reload
  <2> QED BY <1>3, <2>4, UnchangedType DEF TypeOK, Reload
<1>4. ASSUME NEW n \in Bodies, TaskArrives(n) PROVE TypeOK'
  <2>1. PICK opens \in BOOLEAN : Claim(n, cardText, 0, opens)
    BY <1>4 DEF TaskArrives
  <2>2. cardText \in Texts /\ 0 \in 0..MaxBodies
    BY <1>0 DEF DashType
  <2> QED BY <2>1, <2>2, ClaimType
<1>5. ASSUME NEW n \in Bodies, ContinueArrives(n) PROVE TypeOK'
  <2>1. PICK opens \in BOOLEAN : Claim(n, last.text, last.run, opens)
    BY <1>5 DEF ContinueArrives
  <2>2. last.text \in Texts /\ last.run \in 0..MaxBodies
    BY <1>0 DEF WorkerType, Remembered
  <2> QED BY <2>1, <2>2, ClaimType
<1>6. ASSUME AnswerArrives PROVE TypeOK'
  <2>1. offered' \in 0..MaxRuns /\ active' \in Nat
    BY <1>0, <1>6 DEF DashType, AnswerArrives
  <2>2. starting' \in BOOLEAN
    BY <1>6 DEF AnswerArrives
  <2>3. DashType' /\ WorkerType'
    BY <1>0, <1>6, <2>1, <2>2 DEF AnswerArrives, DashType, WorkerType
  <2> QED BY <1>6, <2>3, UnchangedType DEF TypeOK, AnswerArrives
<1>7. ASSUME NEW cancelling \in BOOLEAN, ChatArrives(cancelling) PROVE TypeOK'
  <2>1. offered' \in 0..MaxRuns
    BY <1>7 DEF ChatArrives
  <2>2. starting' \in BOOLEAN
    BY <1>7 DEF ChatArrives
  <2>3. activeLoop' \in 0..MaxBodies
    BY <1>0, <1>7 DEF ChatArrives, WorkerType
  <2>4. life' \in [Bodies -> Lives] /\ status' \in [Bodies -> Statuses]
    <3>1. Halt(activeLoop, "SUPERSEDED") \/ UNCHANGED <<life, status>>
      BY <1>7 DEF ChatArrives
    <3>2. UNCHANGED <<life, status>> => life' \in [Bodies -> Lives] /\ status' \in [Bodies -> Statuses]
      BY <1>0 DEF LoopType
    <3> QED BY <1>0, <3>1, <3>2, HaltType
  <2>5. DashType' /\ WorkerType'
    BY <1>0, <1>7, <2>1, <2>2, <2>3 DEF ChatArrives, DashType, WorkerType
  <2>6. BodyType' /\ LoopType'
    BY <1>0, <1>7, <2>4 DEF ChatArrives, BodyType, LoopType, bodyVars
  <2> QED BY <2>5, <2>6 DEF TypeOK
<1>8. ASSUME ConfirmArrives PROVE TypeOK'
  <2>1. DashType'
    BY <1>0, <1>8 DEF DashType, ConfirmArrives
  <2>2. LoopType'
    <3>1. status' \in [Bodies -> Statuses] /\ resumed' \in [Bodies -> BOOLEAN]
      BY <1>0, <1>8 DEF LoopType, ConfirmArrives, Statuses
    <3>2. cycle' \in [Bodies -> {"none", "think", "check", "sent", "gate", "settle"}]
      BY <1>0, <1>8 DEF LoopType, ConfirmArrives
    <3> QED BY <1>0, <1>8, <3>1, <3>2 DEF LoopType, ConfirmArrives
  <2> QED BY <1>8, <2>1, <2>2, UnchangedType DEF TypeOK, ConfirmArrives
<1>9. ASSUME DenyArrives PROVE TypeOK'
  <2>1. life' \in [Bodies -> Lives] /\ status' \in [Bodies -> Statuses]
    BY <1>0, <1>9, HaltType DEF DenyArrives
  <2>2. shown' \in 0..MaxBodies
    BY <1>0, <1>9 DEF DenyArrives, Show, DashType, WorkerType
  <2>3. DashType' /\ WorkerType'
    BY <1>0, <1>9, <2>2 DEF DenyArrives, DeclineMovesId, DashType, WorkerType
  <2>4. BodyType' /\ LoopType'
    BY <1>0, <1>9, <2>1 DEF DenyArrives, BodyType, LoopType, bodyVars
  <2> QED BY <2>3, <2>4 DEF TypeOK
<1> QED BY <1>1, <1>2, <1>3, <1>4, <1>5, <1>6, <1>7, <1>8, <1>9 DEF Dashboard

\* What a card takes is a body.
LEMMA ShowType ==
  ASSUME DashType, NEW n \in Bodies, NEW about, Show(n, about)
  PROVE  shown' \in 0..MaxBodies
BY BoundsAssumption DEF Show, DashType, Bodies

LEMMA ShowFinalType ==
  ASSUME DashType, NEW n \in Bodies, NEW about, ShowFinal(n, about)
  PROVE  shown' \in 0..MaxBodies /\ told' \in 0..MaxBodies
<1>1. shown' \in 0..MaxBodies
  BY ShowType DEF ShowFinal
<1>2. told' \in 0..MaxBodies
  BY BoundsAssumption DEF ShowFinal, DashType, Bodies
<1> QED BY <1>1, <1>2

\* A body that goes on changes its place and what the card took.
LEMMA GoesToType ==
  ASSUME TypeOK, NEW n \in Bodies, NEW pc \in {"provision", "ready", "announce", "done"}, BodyGoesTo(n, pc),
         shown' \in 0..MaxBodies, told' \in 0..MaxBodies
  PROVE  TypeOK'
<1>1. DashType'
  BY DEF TypeOK, DashType, BodyGoesTo
<1>2. BodyType'
  BY DEF TypeOK, BodyType, BodyGoesTo
<1> QED BY <1>1, <1>2, UnchangedType DEF TypeOK, BodyGoesTo

LEMMA BodyFailsType ==
  ASSUME TypeOK, NEW n \in Bodies, BodyFails(n)
  PROVE  TypeOK'
<1>1. DashType /\ BodyGoesTo(n, "done") /\ ShowFinal(n, text[n])
  BY DEF TypeOK, BodyFails
<1> QED BY <1>1, ShowFinalType, GoesToType

\* The steps of a body keep the types.
LEMMA BodyStepType == \A n \in Bodies : TypeOK /\ BodyStep(n) => TypeOK'
<1> SUFFICES ASSUME TypeOK, NEW n \in Bodies, BodyStep(n) PROVE TypeOK'
  OBVIOUS
<1>0. DashType /\ WorkerType /\ BodyType /\ LoopType
  BY DEF TypeOK
<1>a. UNCHANGED <<shown, told>> => shown' \in 0..MaxBodies /\ told' \in 0..MaxBodies
  BY <1>0 DEF DashType
<1>b. n \in 0..MaxBodies
  BY BoundsAssumption DEF Bodies
<1>1. CASE BodyQueried(n)
  <2>1. \/ BodyFails(n)
        \/ \E pc \in {"provision", "ready", "done"} : BodyGoesTo(n, pc) /\ UNCHANGED <<shown, told>>
    BY <1>1 DEF BodyQueried
  <2> QED BY <1>a, <2>1, GoesToType, BodyFailsType
<1>2. CASE BodyProvisioned(n)
  <2>1. \/ BodyFails(n)
        \/ \E pc \in {"ready", "done"} : BodyGoesTo(n, pc) /\ UNCHANGED <<shown, told>>
    BY <1>2 DEF BodyProvisioned
  <2> QED BY <1>a, <2>1, GoesToType, BodyFailsType
<1>3. CASE BodyReady(n)
  <2>1. CASE BodyFails(n)
    BY <2>1, BodyFailsType
  <2>2. CASE BodyGoesTo(n, "announce") /\ Show(n, text[n]) /\ UNCHANGED told
    <3>1. shown' \in 0..MaxBodies /\ told' \in 0..MaxBodies
      BY <1>0, <2>2, ShowType DEF DashType
    <3> QED BY <2>2, <3>1, GoesToType
  <2> QED BY <1>3, <2>1, <2>2 DEF BodyReady
<1>4. CASE BodyStartsLoop(n)
  <2>1. activeLoop' \in 0..MaxBodies
    BY <1>0, <1>b, <1>4 DEF WorkerType, BodyStartsLoop
  <2>2. WorkerType'
    BY <1>0, <1>4, <2>1 DEF WorkerType, BodyStartsLoop
  <2>3. BodyType'
    BY <1>0, <1>4 DEF BodyType, BodyStartsLoop
  <2>4. LoopType'
    BY <1>0, <1>4 DEF LoopType, BodyStartsLoop
  <2> QED BY <1>4, <2>2, <2>3, <2>4, UnchangedType DEF TypeOK, BodyStartsLoop
<1>5. CASE BodyThrows(n)
  <2>1. shown' \in 0..MaxBodies /\ told' \in 0..MaxBodies
    BY <1>0, <1>a, <1>5, ShowFinalType DEF BodyThrows, Caught
  <2>2. text[n] \in Texts /\ spoken[n] \in 0..MaxBodies
    BY <1>0 DEF BodyType
  <2>3. [run |-> n, text |-> text[n], talk |-> spoken[n], status |-> "FAILED", cancelled |-> FALSE] \in Remembered
    BY <1>b, <2>2 DEF Remembered, Statuses
  <2>4. last' \in Remembered
    BY <1>0, <1>5, <2>3, Zenon DEF BodyThrows, Caught, WorkerType
  <2>5. DashType' /\ WorkerType'
    BY <1>0, <1>5, <2>1, <2>4 DEF DashType, WorkerType, BodyThrows, Caught
  <2>6. BodyType'
    BY <1>0, <1>5 DEF BodyType, BodyThrows, Caught
  <2> QED BY <1>5, <2>5, <2>6, UnchangedType DEF TypeOK, BodyThrows
<1> QED BY <1>1, <1>2, <1>3, <1>4, <1>5 DEF BodyStep

\* The ways a section of the loop ends keep the types.
LEMMA SectionType ==
  ASSUME LoopType, NEW n \in Bodies, NEW outcome \in Statuses,
         NEW at \in {"think", "check", "sent", "gate", "settle"},
         \/ GiveUp(n, outcome)
         \/ LeaveLoop(n, outcome)
         \/ GoOn(n, at) /\ steps' \in [Bodies -> 0..MaxSteps]
         \/ Restart(n)
  PROVE  LoopType'
<1>1. CASE GiveUp(n, outcome)
  BY <1>1 DEF LoopType, GiveUp
<1>2. CASE LeaveLoop(n, outcome)
  BY <1>2 DEF LoopType, LeaveLoop
<1>3. CASE GoOn(n, at) /\ steps' \in [Bodies -> 0..MaxSteps]
  BY <1>3 DEF LoopType, GoOn
<1>4. CASE Restart(n)
  <2>1. steps' \in [Bodies -> 0..MaxSteps]
    BY <1>4, BoundsAssumption DEF LoopType, Restart
  <2>2. life' \in [Bodies -> Lives] /\ status' \in [Bodies -> Statuses]
    BY <1>4 DEF LoopType, Restart, Lives, Statuses
  <2> QED BY <1>4, <2>1, <2>2 DEF LoopType, Restart
<1> QED BY <1>1, <1>2, <1>3, <1>4

\* The steps of a loop keep the types.
LEMMA LoopStepType == \A n \in Bodies : TypeOK /\ LoopStep(n) => TypeOK'
<1> SUFFICES ASSUME TypeOK, NEW n \in Bodies, LoopStep(n) PROVE TypeOK'
  OBVIOUS
<1>0. DashType /\ WorkerType /\ BodyType /\ LoopType
  BY DEF TypeOK
<1>a. {"SUCCESS", "FAILED", "STOPPED", "NEEDS_USER_CONFIRMATION"} \subseteq Statuses
  BY DEF Statuses
<1>b. UNCHANGED steps => steps' \in [Bodies -> 0..MaxSteps]
  BY <1>0 DEF LoopType
<1>c. status[n] \in Statuses
  BY <1>0 DEF LoopType
<1>1. CASE LoopThinks(n)
  <2>1. \/ \E o \in Statuses : LeaveLoop(n, o)
        \/ StepsLeft(n) /\ SpendStep(n) /\ \E at \in {"think", "check"} : GoOn(n, at)
    BY <1>1, <1>a DEF LoopThinks
  <2>2. StepsLeft(n) /\ SpendStep(n) => steps' \in [Bodies -> 0..MaxSteps]
    BY <1>0, BoundsAssumption DEF StepsLeft, SpendStep, LoopType
  <2>3. LoopType'
    BY <1>0, <1>a, <2>1, <2>2, SectionType
  <2>4. anchored' \in BOOLEAN
    BY <1>1 DEF LoopThinks
  <2>5. WorkerType'
    BY <1>0, <1>1, <2>4 DEF WorkerType, LoopThinks
  <2> QED BY <1>1, <2>3, <2>5, UnchangedType DEF TypeOK, LoopThinks
<1>2. CASE LoopSends(n)
  <2>1. CASE cycle' = [cycle EXCEPT ![n] = "sent"]
             /\ late' = [late EXCEPT ![n] = IF Owns(n) THEN @ ELSE @ + 1]
             /\ UNCHANGED <<life, status, steps, resumed, closing>>
    <3>1. late' \in [Bodies -> Nat]
      BY <1>0, <2>1 DEF LoopType
    <3> QED BY <1>0, <1>2, <2>1, <3>1, UnchangedType DEF TypeOK, LoopSends, LoopType
  <2>2. CASE (GoOn(n, "think") /\ UNCHANGED steps) \/ GiveUp(n, "FAILED")
    <3>1. LoopType'
      BY <1>0, <1>a, <1>b, <2>2, SectionType
    <3> QED BY <1>2, <3>1, UnchangedType DEF TypeOK, LoopSends
  <2> QED BY <1>2, <2>1, <2>2 DEF LoopSends
<1>3. CASE LoopAnswered(n)
  <2>1. LoopType'
    BY <1>0, <1>a, <1>b, <1>3, SectionType DEF LoopAnswered
  <2> QED BY <1>3, <2>1, UnchangedType DEF TypeOK, LoopAnswered
<1>4. CASE ResumeGate(n)
  <2>1. LoopType'
    BY <1>0, <1>a, <1>b, <1>c, <1>4, SectionType DEF ResumeGate
  <2> QED BY <1>4, <2>1, UnchangedType DEF TypeOK, ResumeGate
<1>5. CASE ResumeAnswered(n)
  <2>1. LoopType'
    BY <1>0, <1>a, <1>b, <1>5, SectionType DEF ResumeAnswered
  <2> QED BY <1>5, <2>1, UnchangedType DEF TypeOK, ResumeAnswered
<1>6. CASE ResumeSettled(n)
  <2>1. LoopType'
    BY <1>0, <1>a, <1>b, <1>6, SectionType DEF ResumeSettled
  <2> QED BY <1>6, <2>1, UnchangedType DEF TypeOK, ResumeSettled
<1> QED BY <1>1, <1>2, <1>3, <1>4, <1>5, <1>6 DEF LoopStep

\* The end of a run, and its reports, keep the types.
LEMMA LoopEndType == 
  \A n \in Bodies : TypeOK /\ (LoopCloses(n) \/ LoopReports(n) \/ LoopThrows(n)) => TypeOK'
<1> SUFFICES ASSUME TypeOK, NEW n \in Bodies, LoopCloses(n) \/ LoopReports(n) \/ LoopThrows(n) PROVE TypeOK'
  OBVIOUS
<1>0. DashType /\ WorkerType /\ BodyType /\ LoopType
  BY DEF TypeOK
<1>1. CASE LoopCloses(n)
  <2> DEFINE end == IF life[n] # "ACTIVE" THEN "STOPPED" ELSE status[n]
             now == [run |-> n, text |-> text[n], talk |-> spoken[n], status |-> end, cancelled |-> end = "STOPPED"]
  <2>1. end \in Statuses
    BY <1>0 DEF LoopType, Statuses
  <2>2. n \in 0..MaxBodies /\ text[n] \in Texts /\ spoken[n] \in 0..MaxBodies
    BY <1>0, BoundsAssumption DEF BodyType, Bodies
  <2>3. now \in Remembered
    <3>1. (end = "STOPPED") \in BOOLEAN
      OBVIOUS
    <3> HIDE DEF end
    <3> QED BY <2>1, <2>2, <3>1 DEF Remembered
  <2>4. last' \in Remembered
    <3>1. last' = now \/ last' = last
      BY <1>1 DEF LoopCloses
    <3> QED BY <1>0, <2>3, <3>1 DEF WorkerType
  <2>5. shown' \in 0..MaxBodies /\ told' \in 0..MaxBodies
    <3>1. ShowFinal(n, task[n]) \/ UNCHANGED <<shown, told>>
      BY <1>1 DEF LoopCloses
    <3> QED BY <1>0, <3>1, ShowFinalType DEF DashType
  <2>6. bodyPc' = [bodyPc EXCEPT ![n] = "done"] \/ bodyPc' = bodyPc
    BY <1>1 DEF LoopCloses
  <2>7. status' = [status EXCEPT ![n] = end] /\ closing' = [closing EXCEPT ![n] = FALSE]
    BY <1>1 DEF LoopCloses
  <2>8. /\ UNCHANGED <<dashRun, offered, starting, cardText, owner, reloads, confirms>>
        /\ UNCHANGED <<active, activeLoop, talk, anchored>>
        /\ UNCHANGED <<token, text, task, spoken, continues>>
        /\ UNCHANGED <<life, steps, cycle, resumed, late>>
    BY <1>1 DEF LoopCloses
  <2> HIDE DEF end
  <2>9. DashType' /\ WorkerType'
    BY <1>0, <2>4, <2>5, <2>8 DEF DashType, WorkerType
  <2>10. BodyType' /\ LoopType'
    BY <1>0, <2>1, <2>6, <2>7, <2>8 DEF BodyType, LoopType
  <2> QED BY <2>9, <2>10 DEF TypeOK
<1>2. CASE LoopReports(n)
  <2>1. shown' \in 0..MaxBodies
    BY <1>0, <1>2, ShowType DEF LoopReports
  <2>2. DashType'
    BY <1>0, <1>2, <2>1 DEF DashType, LoopReports
  <2> QED BY <1>2, <2>2, UnchangedType DEF TypeOK, LoopReports
<1>3. CASE LoopThrows(n)
  <2> DEFINE now == [run |-> n, text |-> text[n], talk |-> spoken[n], status |-> "FAILED", cancelled |-> FALSE]
  <2>1. now \in Remembered
    BY <1>0, BoundsAssumption DEF BodyType, Bodies, Remembered, Statuses
  <2>2. /\ bodyPc' = [bodyPc EXCEPT ![n] = "done"] \/ bodyPc' = bodyPc
        /\ last' = now \/ last' = last
        /\ ShowFinal(n, text[n]) \/ UNCHANGED <<shown, told>>
    BY <1>3 DEF LoopThrows, Caught
  <2>3. shown' \in 0..MaxBodies /\ told' \in 0..MaxBodies
    BY <1>0, <2>2, ShowFinalType DEF DashType
  <2> HIDE DEF now
  <2>4. DashType' /\ WorkerType' /\ BodyType'
    BY <1>0, <1>3, <2>1, <2>2, <2>3 DEF DashType, WorkerType, BodyType, LoopThrows
  <2>5. LoopType'
    BY <1>0, <1>3 DEF LoopType, LoopThrows, GiveUp
  <2> QED BY <2>4, <2>5 DEF TypeOK
<1> QED BY <1>1, <1>2, <1>3

\* Every variable keeps its type, for all bounds and all task texts.
THEOREM TypeCorrect == Spec => []TypeOK
<1>1. Init => TypeOK
  BY InitType
<1>2. TypeOK /\ [Next]_vars => TypeOK'
  <2>1. TypeOK /\ Next => TypeOK'
    BY DashboardType, BodyStepType, LoopStepType, LoopEndType DEF Next
  <2>2. TypeOK /\ UNCHANGED vars => TypeOK'
    BY UnchangedType DEF vars, TypeOK
  <2> QED BY <2>1, <2>2
<1> QED BY <1>1, <1>2, PTL DEF Spec
----------------------------------------------------------------------------
\* The lease does not follow from itself: that a START carries an id above every
\* token, and that tokens differ, is what keeps the tab from going back.
IInv == TypeOK /\ LeaseInv

\* A step that leaves the ids alone and claims nothing.
Stays ==
  /\ UNCHANGED <<active, token, late, dashRun>>
  /\ offered' \in {0, offered}
  /\ Claimed' = Claimed
  /\ owner' = owner
  /\ shown' = shown \/ shown' \in {m \in Claimed : token[m] = dashRun}
  /\ activeLoop' \in {0, activeLoop} \cup Holders
  /\ \A m \in Bodies : /\ cycle'[m] = "check" => cycle[m] = "check" \/ Owns(m)
                       /\ bodyPc[m] = "none" => cycle'[m] = "none"

LEMMA StaysKeepsLease == IInv /\ Stays => LeaseInv'
<1> SUFFICES ASSUME IInv, Stays PROVE LeaseInv'
  OBVIOUS
<1>1. IdsAdvance'
  BY DEF IInv, LeaseInv, IdsAdvance, Stays
<1>2. TokensDiffer'
  BY DEF IInv, LeaseInv, TokensDiffer, Stays
<1>3. OneLateAction'
  BY DEF IInv, LeaseInv, OneLateAction, Owns, Stays
<1>4. UnclaimedIsIdle'
  <2>1. \A m \in Bodies : bodyPc'[m] = "none" <=> bodyPc[m] = "none"
    BY DEF Stays, Claimed
  <2> QED BY <2>1 DEF IInv, LeaseInv, UnclaimedIsIdle, Stays, Holders
<1> QED BY <1>1, <1>2, <1>3, <1>4 DEF LeaseInv

LEMMA IInvTypes ==
  IInv => dashRun \in Nat /\ active \in Nat /\ \A m \in Bodies : token[m] \in Int /\ late[m] \in Nat
<1> SUFFICES ASSUME IInv PROVE dashRun \in Nat /\ active \in Nat /\ \A m \in Bodies : token[m] \in Int /\ late[m] \in Nat
  OBVIOUS
<1>1. dashRun \in 0..MaxRuns /\ active \in Nat
  BY DEF IInv, TypeOK, DashType, WorkerType
<1>2. \A m \in Bodies : token[m] \in -1..MaxRuns /\ late[m] \in Nat
  BY DEF IInv, TypeOK, BodyType, LoopType
<1> QED BY <1>1, <1>2, BoundsAssumption

\* A step that moves the worker's id past every token and sends nothing.
MovesOn ==
  /\ active' <= dashRun'
  /\ dashRun' \in Nat
  /\ dashRun' >= dashRun
  /\ active' \in Nat
  /\ \A m \in Bodies : token[m] < active'
  /\ offered' \in {0, dashRun'}
  /\ offered' # 0 => dashRun' > dashRun
  /\ UNCHANGED <<token, cycle, late, bodyPc>>
  /\ activeLoop' \in {0, activeLoop}
  /\ \/ owner' = 0 /\ shown' = 0
     \/ offered # 0 /\ offered' = 0 /\ UNCHANGED <<owner, shown>>

LEMMA MovesOnKeepsLease == IInv /\ MovesOn => LeaseInv'
<1> SUFFICES ASSUME IInv, MovesOn PROVE LeaseInv'
  OBVIOUS
<1>0. dashRun \in Nat /\ dashRun' \in Nat /\ active \in Nat /\ \A m \in Bodies : token[m] \in Int
  BY IInvTypes DEF MovesOn
<1>1. IdsAdvance'
  BY <1>0 DEF IInv, LeaseInv, IdsAdvance, MovesOn
<1>2. TokensDiffer'
  BY DEF IInv, LeaseInv, TokensDiffer, Claimed, MovesOn
<1>3. OneLateAction'
  BY <1>0 DEF IInv, LeaseInv, OneLateAction, Owns, MovesOn
<1>4. UnclaimedIsIdle'
  BY DEF IInv, LeaseInv, UnclaimedIsIdle, Claimed, MovesOn
<1> QED BY <1>1, <1>2, <1>3, <1>4 DEF LeaseInv

\* A step that only hands out a new run id.
Offers ==
  /\ dashRun' = dashRun + 1
  /\ offered' = dashRun + 1
  /\ owner' = 0
  /\ shown' = 0
  /\ UNCHANGED <<active, token, cycle, late, bodyPc, activeLoop>>

LEMMA OffersKeepsLease == IInv /\ Offers => LeaseInv'
<1> SUFFICES ASSUME IInv, Offers PROVE LeaseInv'
  OBVIOUS
<1>1. IdsAdvance'
  BY IInvTypes DEF IInv, LeaseInv, IdsAdvance, Offers
<1>2. TokensDiffer'
  BY DEF IInv, LeaseInv, TokensDiffer, Claimed, Offers
<1>3. OneLateAction'
  BY DEF IInv, LeaseInv, OneLateAction, Owns, Offers
<1>4. UnclaimedIsIdle'
  BY DEF IInv, LeaseInv, UnclaimedIsIdle, Claimed, Offers
<1> QED BY <1>1, <1>2, <1>3, <1>4 DEF LeaseInv

\* A step in which a new body takes the id that was offered.
Claims(n) ==
  /\ offered # 0
  /\ bodyPc[n] = "none"
  /\ \A m \in Bodies : m < n => m \in Claimed
  /\ active' = dashRun
  /\ offered' = 0
  /\ owner' = n
  /\ shown' = shown
  /\ activeLoop' = 0
  /\ token' = [token EXCEPT ![n] = dashRun]
  /\ bodyPc' = [bodyPc EXCEPT ![n] = "query"]
  /\ UNCHANGED <<dashRun, cycle, late>>

LEMMA ClaimsAll ==
  ASSUME IInv, NEW n \in Bodies, Claims(n)
  PROVE  /\ Claimed' = Claimed \cup {n}
         /\ n \notin Claimed
         /\ token'[n] = active'
         /\ \A m \in Bodies : m # n => token'[m] = token[m] /\ token[m] < active'
<1>1. token \in [Bodies -> -1..MaxRuns] /\ DOMAIN bodyPc = Bodies
  BY DEF IInv, TypeOK, BodyType
<1>2. offered = dashRun
  BY DEF IInv, LeaseInv, IdsAdvance, Claims
<1>3. token'[n] = active' /\ \A m \in Bodies : m # n => token'[m] = token[m] /\ token[m] < active'
  BY <1>1, <1>2 DEF IInv, LeaseInv, IdsAdvance, Claims
<1>4. Claimed' = Claimed \cup {n} /\ n \notin Claimed
  BY <1>1 DEF Claimed, Claims
<1> QED BY <1>3, <1>4

LEMMA ClaimsKeepsLease ==
  ASSUME IInv, NEW n \in Bodies, Claims(n)
  PROVE  LeaseInv'
<1>0. dashRun \in Nat /\ active' = dashRun /\ \A m \in Bodies : token[m] \in Int
  BY IInvTypes DEF Claims
<1>1. IdsAdvance'
  <2>1. \A m \in Bodies : token'[m] <= active'
    BY <1>0, ClaimsAll
  <2> QED BY <1>0, <2>1 DEF IdsAdvance, Claims
<1>2. TokensDiffer'
  <2> SUFFICES ASSUME NEW k \in Claimed', NEW m \in Claimed', token'[k] = token'[m] PROVE k = m
    BY DEF TokensDiffer
  <2>1. k \in Claimed \cup {n} /\ m \in Claimed \cup {n} /\ Claimed \subseteq Bodies
    BY ClaimsAll DEF Claimed
  <2>2. CASE k = n \/ m = n
    BY <1>0, <2>1, <2>2, ClaimsAll
  <2>3. CASE k # n /\ m # n
    BY <2>1, <2>3, ClaimsAll DEF IInv, LeaseInv, TokensDiffer
  <2> QED BY <2>2, <2>3
<1>3. OneLateAction'
  <2> SUFFICES ASSUME NEW m \in Bodies
               PROVE  late[m] <= 1 /\ (token'[m] = active' \/ cycle[m] = "check" => late[m] = 0)
    BY DEF OneLateAction, Owns, Claims
  <2>1. CASE m = n
    BY <2>1, ClaimsAll DEF IInv, LeaseInv, OneLateAction, UnclaimedIsIdle, Claims
  <2>2. CASE m # n
    BY <1>0, <2>2, ClaimsAll DEF IInv, LeaseInv, OneLateAction
  <2> QED BY <2>1, <2>2
<1>4. UnclaimedIsIdle'
  <2> SUFFICES ASSUME NEW m \in Bodies, bodyPc'[m] = "none"
               PROVE  token'[m] = -1 /\ cycle[m] = "none" /\ late[m] = 0
    BY DEF UnclaimedIsIdle, Claims
  <2>1. m # n /\ bodyPc[m] = "none"
    BY DEF IInv, TypeOK, BodyType, Claims
  <2> QED BY <2>1, ClaimsAll DEF IInv, LeaseInv, UnclaimedIsIdle
<1> QED BY <1>1, <1>2, <1>3, <1>4 DEF LeaseInv

\* A step in which a body that lost the tab sends the action it had begun.
SendsLate(n) ==
  /\ cycle[n] = "check"
  /\ ~Owns(n)
  /\ late' = [late EXCEPT ![n] = @ + 1]
  /\ cycle' = [cycle EXCEPT ![n] = "sent"]
  /\ UNCHANGED <<active, token, dashRun, offered, bodyPc, activeLoop, owner, shown>>

LEMMA SendsLateFirst ==
  ASSUME IInv, NEW n \in Bodies, SendsLate(n)
  PROVE  n \in Claimed /\ late[n] = 0 /\ late' = [late EXCEPT ![n] = 1]
<1>1. late[n] = 0 /\ bodyPc[n] # "none"
  BY DEF IInv, LeaseInv, OneLateAction, UnclaimedIsIdle, SendsLate
<1> QED BY <1>1 DEF SendsLate, Claimed

LEMMA SendsLateKeepsLease ==
  ASSUME IInv, NEW n \in Bodies, SendsLate(n)
  PROVE  LeaseInv'
<1>0. late \in [Bodies -> Nat] /\ DOMAIN cycle = Bodies
  BY DEF IInv, TypeOK, LoopType
<1>1. IdsAdvance' /\ TokensDiffer'
  BY DEF IInv, LeaseInv, IdsAdvance, TokensDiffer, Claimed, SendsLate
<1>2. OneLateAction'
  BY <1>0, SendsLateFirst DEF IInv, LeaseInv, OneLateAction, Owns, SendsLate
<1>3. UnclaimedIsIdle'
  BY <1>0, SendsLateFirst DEF IInv, LeaseInv, UnclaimedIsIdle, Claimed, SendsLate
<1> QED BY <1>1, <1>2, <1>3 DEF LeaseInv

\* The steps of the dashboard, by what they do to the lease.
LEMMA DashboardSteps ==
  ASSUME MaxReloads = 0, IInv, Dashboard
  PROVE  Stays \/ MovesOn \/ Offers \/ \E n \in Bodies : Claims(n)
<1>0. dashRun \in Nat /\ active \in Nat /\ \A m \in Bodies : token[m] \in Int
  BY IInvTypes
<1>a. /\ active <= dashRun
      /\ \A m \in Bodies : token[m] <= active
      /\ offered # 0 => offered = dashRun /\ \A m \in Bodies : token[m] < dashRun
  BY DEF IInv, LeaseInv, IdsAdvance
<1>1. ASSUME NEW replaces \in BOOLEAN, StartTask(replaces) PROVE MovesOn \/ Offers
  <2>1. /\ dashRun' = dashRun + 1 /\ offered' = dashRun + 1 /\ owner' = 0 /\ shown' = 0
        /\ UNCHANGED <<token, bodyPc, cycle, late>>
    BY <1>1 DEF StartTask, bodyVars
  <2>2. CASE replaces
    <3>1. active' = active + 1 /\ activeLoop' = 0
      BY <1>1, <2>2 DEF StartTask, WorkerStops
    <3> QED BY <1>0, <1>a, <2>1, <3>1 DEF MovesOn
  <2>3. CASE ~replaces
    BY <1>1, <2>1, <2>3 DEF StartTask, workerVars, Offers
  <2> QED BY <2>2, <2>3
<1>2. ASSUME StopTask PROVE MovesOn
  <2>1. /\ dashRun' = dashRun + 1 /\ offered' = 0 /\ active' = active + 1 /\ activeLoop' = 0
        /\ owner' = 0 /\ shown' = 0
        /\ UNCHANGED <<token, bodyPc, cycle, late>>
    BY <1>2 DEF StopTask, WorkerStops, bodyVars
  <2> QED BY <1>0, <1>a, <2>1 DEF MovesOn
<1>3. ~Reload
  BY DEF Reload, IInv, TypeOK, DashType
<1>4. ASSUME NEW n \in Bodies, TaskArrives(n) \/ ContinueArrives(n) PROVE Claims(n)
  <2>1. offered # 0 /\ \E works, from, opens : Claim(n, works, from, opens)
    BY <1>4 DEF TaskArrives, ContinueArrives
  <2> QED BY <2>1 DEF Claim, Claims, Claimed
<1>5. ASSUME AnswerArrives PROVE MovesOn
  <2>1. /\ offered # 0 /\ offered' = 0 /\ active' = dashRun /\ dashRun' = dashRun
        /\ UNCHANGED <<token, bodyPc, cycle, late, activeLoop, owner, shown>>
    BY <1>5 DEF AnswerArrives, bodyVars, loopVars
  <2> QED BY <1>0, <1>a, <2>1 DEF MovesOn
<1>6. ASSUME NEW cancelling \in BOOLEAN, ChatArrives(cancelling) PROVE Stays
  <2>1. /\ offered' = 0 /\ activeLoop' \in {0, activeLoop}
        /\ UNCHANGED <<active, dashRun, token, bodyPc, cycle, late, owner, shown>>
    BY <1>6 DEF ChatArrives, bodyVars
  <2> QED BY <2>1 DEF Stays, Claimed, IInv, LeaseInv, UnclaimedIsIdle
<1>7. ASSUME ConfirmArrives PROVE Stays
  <2>1. /\ activeLoop # 0
        /\ cycle' = [cycle EXCEPT ![activeLoop] = "gate"]
        /\ UNCHANGED <<active, activeLoop, dashRun, offered, token, bodyPc, late, owner, shown>>
    BY <1>7 DEF ConfirmArrives, Prompted, workerVars, bodyVars
  <2>2. bodyPc[activeLoop] # "none"
    BY <2>1 DEF IInv, LeaseInv, UnclaimedIsIdle, Claimed
  <2>3. \A m \in Bodies : cycle'[m] = IF m = activeLoop THEN "gate" ELSE cycle[m]
    BY <2>1 DEF IInv, TypeOK, LoopType
  <2> QED BY <2>1, <2>2, <2>3 DEF Stays, Claimed, IInv, LeaseInv, UnclaimedIsIdle
<1>8. ASSUME DenyArrives PROVE Stays
  <2>1. UNCHANGED <<active, activeLoop, dashRun, offered, token, bodyPc, cycle, late, owner>>
    BY <1>8 DEF DenyArrives, DeclineMovesId, bodyVars
  <2>2. activeLoop \in Claimed
    BY <1>8 DEF DenyArrives, Prompted, IInv, LeaseInv, UnclaimedIsIdle
  <2>3. shown' = shown \/ shown' \in {m \in Claimed : token[m] = dashRun}
    BY <1>8, <2>2 DEF DenyArrives, Show, Accepts
  <2> QED BY <2>1, <2>3 DEF Stays, Claimed, IInv, LeaseInv, UnclaimedIsIdle
<1> QED BY <1>1, <1>2, <1>3, <1>4, <1>5, <1>6, <1>7, <1>8 DEF Dashboard

\* No step of a body touches the ids.
LEMMA BodySteps ==
  ASSUME IInv, NEW n \in Bodies, BodyStep(n)
  PROVE  Stays
<1>0. DOMAIN bodyPc = Bodies /\ DOMAIN cycle = Bodies
  BY DEF IInv, TypeOK, BodyType, LoopType
<1>1. /\ bodyPc[n] # "none"
      /\ UNCHANGED <<active, dashRun, offered, token, late, owner>>
      /\ \E pc : pc # "none" /\ bodyPc' = [bodyPc EXCEPT ![n] = pc]
  BY DEF BodyStep, BodyQueried, BodyProvisioned, BodyReady, BodyStartsLoop, BodyThrows, Caught, BodyFails, BodyGoesTo,
         workerVars, dashVars, loopVars
<1>2. \/ cycle' = cycle
      \/ cycle' = [cycle EXCEPT ![n] = "think"]
  BY DEF BodyStep, BodyQueried, BodyProvisioned, BodyReady, BodyStartsLoop, BodyThrows, Caught, BodyFails, BodyGoesTo, loopVars
<1>3. activeLoop' = activeLoop \/ (activeLoop' = n /\ Owns(n))
  BY DEF BodyStep, BodyQueried, BodyProvisioned, BodyReady, BodyStartsLoop, MayStartLoop, BodyThrows, Caught, BodyFails,
         BodyGoesTo, workerVars
<1>6. shown' = shown \/ (shown' = n /\ token[n] = dashRun)
  BY DEF BodyStep, BodyQueried, BodyProvisioned, BodyReady, BodyStartsLoop, BodyThrows, Caught, BodyFails,
         BodyGoesTo, dashVars, ShowFinal, Show, Accepts
<1>4. Claimed' = Claimed /\ n \in Claimed
  BY <1>0, <1>1 DEF Claimed
<1>5. \A m \in Bodies : /\ cycle'[m] = "check" => cycle[m] = "check"
                        /\ bodyPc[m] = "none" => cycle'[m] = "none"
  BY <1>0, <1>1, <1>2 DEF IInv, LeaseInv, UnclaimedIsIdle
<1> QED BY <1>1, <1>3, <1>4, <1>5, <1>6 DEF Stays, Holders

\* A loop begins an action only for the body that has the tab.
LEMMA LoopSteps ==
  ASSUME IInv, NEW n \in Bodies, LoopStep(n) \/ LoopCloses(n) \/ LoopReports(n) \/ LoopThrows(n)
  PROVE  Stays \/ SendsLate(n)
<1>0. DOMAIN bodyPc = Bodies /\ DOMAIN cycle = Bodies /\ late \in [Bodies -> Nat]
  BY DEF IInv, TypeOK, BodyType, LoopType
<1>a. cycle[n] # "none" => bodyPc[n] # "none"
  BY DEF IInv, LeaseInv, UnclaimedIsIdle
<1>1. ASSUME /\ bodyPc[n] # "none"
             /\ UNCHANGED <<active, dashRun, offered, token, bodyPc, activeLoop, late, owner, shown>>
             /\ \E at : cycle' = [cycle EXCEPT ![n] = at] /\ (at = "check" => Owns(n))
      PROVE  Stays
  <2>1. \A m \in Bodies : /\ cycle'[m] = "check" => cycle[m] = "check" \/ Owns(m)
                          /\ bodyPc[m] = "none" => cycle'[m] = "none"
    BY <1>0, <1>1 DEF IInv, LeaseInv, UnclaimedIsIdle
  <2> QED BY <1>1, <2>1 DEF Stays, Claimed
<1>2. ASSUME LoopThinks(n) \/ LoopAnswered(n) \/ ResumeGate(n) \/ ResumeAnswered(n) \/ ResumeSettled(n)
      PROVE  Stays
  <2>1. cycle[n] # "none" /\ UNCHANGED <<active, dashRun, offered, token, bodyPc, activeLoop, owner, shown>>
    BY <1>2 DEF LoopThinks, LoopAnswered, ResumeGate, ResumeAnswered, ResumeSettled, dashVars, workerVars, bodyVars
  <2>2. UNCHANGED late /\ \E at : cycle' = [cycle EXCEPT ![n] = at] /\ (at = "check" => Owns(n))
    BY <1>2 DEF LoopThinks, LoopAnswered, ResumeGate, ResumeAnswered, ResumeSettled,
                LeaveLoop, GiveUp, GoOn, Restart, MayExecute
  <2> QED BY <1>a, <1>1, <2>1, <2>2
<1>3. ASSUME LoopSends(n) PROVE Stays \/ SendsLate(n)
  <2>1. cycle[n] = "check" /\ UNCHANGED <<active, dashRun, offered, token, bodyPc, activeLoop, owner, shown>>
    BY <1>3 DEF LoopSends, dashVars, workerVars, bodyVars
  <2>2. \/ late' = late /\ \E at : cycle' = [cycle EXCEPT ![n] = at] /\ at # "check"
        \/ ~Owns(n) /\ late' = [late EXCEPT ![n] = @ + 1] /\ cycle' = [cycle EXCEPT ![n] = "sent"]
    BY <1>0, <1>3 DEF LoopSends, GoOn, GiveUp
  <2> QED BY <1>a, <1>1, <2>1, <2>2 DEF SendsLate
<1>4. ASSUME LoopCloses(n) PROVE Stays
  <2>1. /\ UNCHANGED <<active, dashRun, offered, token, cycle, activeLoop, late, owner>>
        /\ bodyPc' = bodyPc \/ (bodyPc[n] = "loop" /\ bodyPc' = [bodyPc EXCEPT ![n] = "done"])
    BY <1>4 DEF LoopCloses
  <2>2. Claimed' = Claimed
    BY <1>0, <2>1 DEF Claimed
  <2>3. shown' = shown \/ (shown' = n /\ token[n] = dashRun /\ bodyPc[n] = "loop")
    BY <1>4 DEF LoopCloses, ShowFinal, Show, Accepts
  <2> QED BY <2>1, <2>2, <2>3 DEF Claimed, Stays, IInv, LeaseInv, UnclaimedIsIdle
<1>5. ASSUME LoopReports(n) PROVE Stays
  <2>1. UNCHANGED <<active, dashRun, offered, token, bodyPc, cycle, activeLoop, late, owner>>
    BY <1>5 DEF LoopReports, workerVars, bodyVars, loopVars
  <2>2. shown' = shown \/ (shown' = n /\ token[n] = dashRun /\ bodyPc[n] # "none")
    BY <1>a, <1>5 DEF LoopReports, Show, Accepts
  <2> QED BY <2>1, <2>2 DEF Stays, Claimed, IInv, LeaseInv, UnclaimedIsIdle
<1>6. ASSUME LoopThrows(n) PROVE Stays
  <2>1. /\ UNCHANGED <<active, dashRun, offered, token, activeLoop, late, owner>>
        /\ cycle' = [cycle EXCEPT ![n] = "none"]
        /\ bodyPc' = bodyPc \/ (bodyPc[n] = "loop" /\ bodyPc' = [bodyPc EXCEPT ![n] = "done"])
    BY <1>6 DEF LoopThrows, GiveUp, Caught
  <2>2. Claimed' = Claimed
    BY <1>0, <2>1 DEF Claimed
  <2>3. shown' = shown \/ (shown' = n /\ token[n] = dashRun /\ bodyPc[n] = "loop")
    BY <1>6 DEF LoopThrows, Caught, ShowFinal, Show, Accepts
  <2>4. \A m \in Bodies : /\ cycle'[m] = "check" => cycle[m] = "check"
                          /\ bodyPc[m] = "none" => cycle'[m] = "none"
    BY <1>0, <2>1 DEF IInv, LeaseInv, UnclaimedIsIdle
  <2> QED BY <2>1, <2>2, <2>3, <2>4 DEF Claimed, Stays, IInv, LeaseInv, UnclaimedIsIdle
<1> QED BY <1>2, <1>3, <1>4, <1>5, <1>6 DEF LoopStep

\* Every step is of one of five kinds.
LEMMA KindsOfSteps ==
  ASSUME MaxReloads = 0, IInv, [Next]_vars
  PROVE  \/ Stays
         \/ MovesOn
         \/ Offers
         \/ \E n \in Bodies : Claims(n) \/ SendsLate(n)
<1>1. CASE Next
  BY <1>1, DashboardSteps, BodySteps, LoopSteps DEF Next
<1>2. CASE UNCHANGED vars
  <2>1. UNCHANGED <<active, dashRun, offered, token, bodyPc, cycle, activeLoop, late, owner, shown>>
    BY <1>2 DEF vars, dashVars, workerVars, bodyVars, loopVars
  <2> QED BY <2>1 DEF Stays, Claimed, IInv, LeaseInv, UnclaimedIsIdle
<1> QED BY <1>1, <1>2

LEMMA InitLease == Init => LeaseInv
BY DEF Init, LeaseInv, IdsAdvance, TokensDiffer, OneLateAction, UnclaimedIsIdle, Owns, Claimed

LEMMA StepLease ==
  ASSUME MaxReloads = 0, IInv, [Next]_vars
  PROVE  LeaseInv'
BY KindsOfSteps, StaysKeepsLease, MovesOnKeepsLease, OffersKeepsLease, ClaimsKeepsLease, SendsLateKeepsLease

\* While the page is not loaded again, the invariant of the lease holds.
THEOREM LeaseCorrect ==
  ASSUME MaxReloads = 0
  PROVE  Spec => [](TypeOK /\ LeaseInv)
<1>1. Init => LeaseInv
  BY InitLease
<1>2. TypeOK /\ LeaseInv /\ [Next]_vars => LeaseInv'
  BY StepLease DEF IInv
<1>3. Spec => []TypeOK
  BY TypeCorrect
<1> QED BY <1>1, <1>2, <1>3, PTL DEF Spec
----------------------------------------------------------------------------
\* The order of the bodies, step by step.
LEMMA StaysKeepsOrder == IInv /\ OrderInv /\ Stays => OrderInv'
<1> SUFFICES ASSUME IInv, OrderInv, Stays PROVE OrderInv'
  OBVIOUS
<1>1. ClaimsInOrder' /\ CardIsOwners'
  BY DEF OrderInv, ClaimsInOrder, CardIsOwners, Stays
<1>2. ShownIsOwner'
  BY DEF OrderInv, CardIsOwners, ShownIsOwner, Stays
<1>3. ActiveLoopIsLatest'
  <2>1. ASSUME NEW n \in Holders, NEW m \in Claimed PROVE m <= n
    <3>1. token[n] = active /\ token[m] <= active /\ token[m] \in Int /\ token[n] \in Int
      BY <2>1, IInvTypes DEF IInv, LeaseInv, IdsAdvance, Holders, Owns, Claimed
    <3>2. ~(n < m)
      BY <3>1, <2>1 DEF OrderInv, ClaimsInOrder, Holders, Claimed
    <3> QED BY <2>1, <3>2, BoundsAssumption DEF Holders, Claimed, Bodies
  <2> QED BY <2>1 DEF OrderInv, ActiveLoopIsLatest, Stays
<1> QED BY <1>1, <1>2, <1>3 DEF OrderInv

LEMMA MovesOnKeepsOrder == IInv /\ OrderInv /\ MovesOn => OrderInv'
<1> SUFFICES ASSUME IInv, OrderInv, MovesOn PROVE OrderInv'
  OBVIOUS
<1>0. Claimed' = Claimed
  BY DEF MovesOn, Claimed
<1>1. ClaimsInOrder'
  BY <1>0 DEF OrderInv, ClaimsInOrder, MovesOn
<1>2. CardIsOwners' /\ ShownIsOwner'
  <2>1. \A m \in Claimed' : token'[m] # dashRun'
    BY <1>0, IInvTypes DEF MovesOn, Claimed
  <2>2. owner' = 0 /\ shown' = 0
    BY DEF OrderInv, CardIsOwners, ShownIsOwner, MovesOn
  <2> QED BY <2>1, <2>2 DEF CardIsOwners, ShownIsOwner
<1>3. ActiveLoopIsLatest'
  BY <1>0 DEF OrderInv, ActiveLoopIsLatest, MovesOn
<1> QED BY <1>1, <1>2, <1>3 DEF OrderInv

LEMMA OffersKeepsOrder == IInv /\ OrderInv /\ Offers => OrderInv'
<1> SUFFICES ASSUME IInv, OrderInv, Offers PROVE OrderInv'
  OBVIOUS
<1>0. Claimed' = Claimed
  BY DEF Offers, Claimed
<1>1. ClaimsInOrder' /\ ActiveLoopIsLatest'
  BY <1>0 DEF OrderInv, ClaimsInOrder, ActiveLoopIsLatest, Offers
<1>2. \A m \in Claimed' : token'[m] # dashRun'
  BY <1>0, IInvTypes DEF Offers, Claimed, IInv, LeaseInv, IdsAdvance
<1> QED BY <1>1, <1>2 DEF OrderInv, CardIsOwners, ShownIsOwner, Offers

LEMMA ClaimsKeepsOrder ==
  ASSUME IInv, OrderInv, NEW n \in Bodies, Claims(n)
  PROVE  OrderInv'
<1>0. /\ Claimed' = Claimed \cup {n} /\ n \notin Claimed /\ token'[n] = active' /\ active' = dashRun
      /\ \A m \in Bodies : m # n => token'[m] = token[m] /\ token[m] < active'
      /\ Claimed \subseteq Bodies /\ Bodies \subseteq Nat
  <2>1. Claimed \subseteq Bodies /\ Bodies \subseteq Nat
    BY BoundsAssumption DEF Claimed, Bodies
  <2>2. active' = dashRun
    BY DEF Claims
  <2> QED BY <2>1, <2>2, ClaimsAll, Zenon
<1>1. ClaimsInOrder'
  <2> SUFFICES ASSUME NEW k \in Bodies, NEW m \in Bodies, k < m, m \in Claimed'
               PROVE  k \in Claimed' /\ token'[k] < token'[m]
    BY DEF ClaimsInOrder
  <2>1. CASE m = n
    BY <1>0, <2>1 DEF Claims
  <2>2. CASE m # n
    <3>1. k \in Claimed /\ token[k] < token[m]
      BY <1>0, <2>2 DEF OrderInv, ClaimsInOrder
    <3>2. k # n
      BY <1>0, <3>1
    <3> QED BY <1>0, <2>2, <3>1, <3>2
  <2> QED BY <2>1, <2>2
<1>2. CardIsOwners'
  <2>1. \A m \in Claimed' : token'[m] = dashRun' => m = n
    BY <1>0, IInvTypes DEF Claims
  <2> QED BY <1>0, <2>1 DEF CardIsOwners, Claims
<1>3. ShownIsOwner'
  BY DEF OrderInv, CardIsOwners, ShownIsOwner, Claims
<1>4. ActiveLoopIsLatest'
  BY DEF ActiveLoopIsLatest, Claims
<1> QED BY <1>1, <1>2, <1>3, <1>4 DEF OrderInv

LEMMA SendsLateKeepsOrder ==
  ASSUME IInv, OrderInv, NEW n \in Bodies, SendsLate(n)
  PROVE  OrderInv'
<1>1. Claimed' = Claimed
  BY DEF SendsLate, Claimed
<1> QED BY <1>1 DEF OrderInv, ClaimsInOrder, CardIsOwners, ShownIsOwner, ActiveLoopIsLatest, SendsLate

LEMMA StepOrder ==
  ASSUME MaxReloads = 0, IInv, OrderInv, [Next]_vars
  PROVE  OrderInv'
BY KindsOfSteps, StaysKeepsOrder, MovesOnKeepsOrder, OffersKeepsOrder, ClaimsKeepsOrder, SendsLateKeepsOrder

\* While the page is not loaded again, bodies begin in the order of their tokens and
\* the card belongs to the one that has the run's id.
LEMMA OrderCorrect ==
  ASSUME MaxReloads = 0
  PROVE  Spec => []OrderInv
<1>1. Init => OrderInv
  BY DEF Init, OrderInv, ClaimsInOrder, CardIsOwners, ShownIsOwner, ActiveLoopIsLatest, Claimed
<1>2. TypeOK /\ LeaseInv /\ OrderInv /\ [Next]_vars => OrderInv'
  BY StepOrder DEF IInv
<1>3. Spec => [](TypeOK /\ LeaseInv)
  BY LeaseCorrect
<1> QED BY <1>1, <1>2, <1>3, PTL DEF Spec

\* The card of a run shows only what the body of that run sent, however late the
\* superseded ones report (handleExtensionProgress compares the run id).
THEOREM CardShowsItsOwn ==
  ASSUME MaxReloads = 0
  PROVE  Spec => []ShownIsOwner
<1>1. OrderInv => ShownIsOwner
  BY DEF OrderInv
<1> QED BY <1>1, OrderCorrect, PTL

\* The loop that STOP and CONFIRM reach is the one of the body that claimed the tab
\* last (the worker compares the token before it makes a loop).
THEOREM StopReachesLatest ==
  ASSUME MaxReloads = 0
  PROVE  Spec => []ActiveLoopIsLatest
<1>1. OrderInv => ActiveLoopIsLatest
  BY DEF OrderInv
<1> QED BY <1>1, OrderCorrect, PTL
----------------------------------------------------------------------------
(* The end of a task is told.                                              *)

LEMMA InitCard == Init => CardIsItsTask
BY DEF Init, CardIsItsTask

LEMMA ClaimKeepsCard ==
  ASSUME TypeOK, NEW n \in Bodies, NEW works, NEW from, NEW opens, Claim(n, works, from, opens),
         from = 0 => works = cardText
  PROVE  CardIsItsTask'
<1>1. /\ owner' = n /\ offered' = 0 /\ active' = dashRun /\ dashRun' = dashRun /\ cardText' = cardText
      /\ token'[n] = dashRun /\ text'[n] = cardText /\ task'[n] = works /\ continues'[n] = from
  BY DEF Claim, TypeOK, BodyType
<1> QED BY <1>1 DEF CardIsItsTask

\* A step that leaves the card, its run and what the bodies work on alone.
SameCard == UNCHANGED <<owner, dashRun, active, cardText, token, text, task, continues>> /\ offered' \in {0, offered}

LEMMA SameCardKeeps == CardIsItsTask /\ SameCard => CardIsItsTask'
BY DEF CardIsItsTask, SameCard

LEMMA DashboardKeepsCard ==
  ASSUME TypeOK, CardIsItsTask, Dashboard
  PROVE  CardIsItsTask'
<1>1. CASE \/ \E replaces \in BOOLEAN : StartTask(replaces)
           \/ StopTask
           \/ Reload
  <2>1. owner' = 0
    BY <1>1 DEF StartTask, StopTask, Reload
  <2> QED BY <2>1 DEF CardIsItsTask
<1>2. ASSUME NEW n \in Bodies, TaskArrives(n) PROVE CardIsItsTask'
  BY <1>2, ClaimKeepsCard DEF TaskArrives
<1>3. ASSUME NEW n \in Bodies, ContinueArrives(n) PROVE CardIsItsTask'
  <2>1. PICK opens \in BOOLEAN : Claim(n, last.text, last.run, opens)
    BY <1>3 DEF ContinueArrives
  <2>2. last.run # 0
    BY <1>3 DEF ContinueArrives, MayContinue
  <2> QED BY <2>1, <2>2, ClaimKeepsCard
<1>4. CASE AnswerArrives
  <2>1. owner' = 0
    BY <1>4 DEF AnswerArrives, CardIsItsTask
  <2> QED BY <2>1 DEF CardIsItsTask
<1>5. CASE (\E cancelling \in BOOLEAN : ChatArrives(cancelling)) \/ ConfirmArrives \/ DenyArrives
  <2>1. SameCard
    BY <1>5 DEF SameCard, ChatArrives, ConfirmArrives, DenyArrives, DeclineMovesId, bodyVars, workerVars
  <2> QED BY <2>1, SameCardKeeps
<1> QED BY <1>1, <1>2, <1>3, <1>4, <1>5 DEF Dashboard

LEMMA StepCard == TypeOK /\ CardIsItsTask /\ [Next]_vars => CardIsItsTask'
<1> SUFFICES ASSUME TypeOK, CardIsItsTask, [Next]_vars PROVE CardIsItsTask'
  OBVIOUS
<1>1. ASSUME NEW n \in Bodies, BodyStep(n) PROVE SameCard
  BY <1>1 DEF SameCard, BodyStep, BodyQueried, BodyProvisioned, BodyReady, BodyStartsLoop, BodyThrows, Caught, BodyFails,
              BodyGoesTo, workerVars, dashVars
<1>2. ASSUME NEW n \in Bodies, LoopStep(n) PROVE SameCard
  BY <1>2 DEF SameCard, LoopStep, LoopThinks, LoopSends, LoopAnswered, ResumeGate, ResumeAnswered, ResumeSettled,
              dashVars, workerVars, bodyVars
<1>3. ASSUME NEW n \in Bodies, LoopCloses(n) \/ LoopReports(n) \/ LoopThrows(n) PROVE SameCard
  BY <1>3 DEF SameCard, LoopCloses, LoopReports, LoopThrows, workerVars, bodyVars
<1>4. ASSUME UNCHANGED vars PROVE SameCard
  BY <1>4 DEF SameCard, vars, dashVars, workerVars, bodyVars, loopVars
<1>5. SameCard \/ Dashboard
  BY <1>1, <1>2, <1>3, <1>4 DEF Next
<1>6. SameCard => CardIsItsTask'
  BY SameCardKeeps
<1>7. Dashboard => CardIsItsTask'
  BY DashboardKeepsCard
<1> QED BY <1>5, <1>6, <1>7

\* The loop of the run on the card ends with a report that the card takes.
LEMMA EndIsTold ==
  ASSUME TypeOK, CardIsItsTask, [Next]_vars, NEW n \in Bodies,
         bodyPc[n] = "loop", bodyPc'[n] = "done", owner = n, continues[n] = 0
  PROVE  told' = n
<1>0. DOMAIN bodyPc = Bodies /\ n # 0
  BY BoundsAssumption DEF TypeOK, BodyType, Bodies
<1>1. ASSUME NEW m \in Bodies, BodyStep(m) PROVE FALSE
  <2>1. bodyPc[m] # "loop" /\ \E pc : bodyPc' = [bodyPc EXCEPT ![m] = pc]
    BY <1>1 DEF BodyStep, BodyQueried, BodyProvisioned, BodyReady, BodyStartsLoop, BodyThrows, Caught, BodyFails, BodyGoesTo
  <2> QED BY <1>0, <2>1
<1>2. ASSUME NEW m \in Bodies, LoopStep(m) \/ LoopReports(m) PROVE FALSE
  <2>1. bodyPc' = bodyPc
    BY <1>2 DEF LoopStep, LoopThinks, LoopSends, LoopAnswered, ResumeGate, ResumeAnswered, ResumeSettled, LoopReports,
                bodyVars
  <2> QED BY <2>1
<1>3. ASSUME NEW m \in Bodies, LoopCloses(m) PROVE told' = n
  <2>1. m = n
    BY <1>0, <1>3 DEF LoopCloses
  <2>2. Owns(n) /\ Accepts(n, task[n])
    BY <1>0 DEF CardIsItsTask, Owns, Accepts
  <2> QED BY <1>3, <2>1, <2>2 DEF LoopCloses, ShowFinal
<1>6. ASSUME NEW m \in Bodies, LoopThrows(m) PROVE told' = n
  <2>1. m = n
    BY <1>0, <1>6 DEF LoopThrows, Caught
  <2>2. Owns(n) /\ Accepts(n, text[n])
    BY <1>0 DEF CardIsItsTask, Owns, Accepts
  <2>3. Caught(n)
    BY <1>6, <2>1 DEF LoopThrows
  <2> QED BY <2>2, <2>3 DEF Caught, ShowFinal
<1>4. ASSUME Dashboard PROVE FALSE
  <2>1. bodyPc' = bodyPc \/ \E m \in Bodies : bodyPc[m] = "none" /\ bodyPc' = [bodyPc EXCEPT ![m] = "query"]
    BY <1>4 DEF Dashboard, StartTask, StopTask, Reload, TaskArrives, ContinueArrives, Claim, AnswerArrives, ChatArrives,
                ConfirmArrives, DenyArrives, bodyVars
  <2> QED BY <1>0, <2>1
<1>5. CASE UNCHANGED vars
  BY <1>5 DEF vars, bodyVars
<1> QED BY <1>1, <1>2, <1>3, <1>4, <1>5, <1>6 DEF Next

\* However often the page is loaded again: when the loop of a plain task closes
\* or throws while its run is still on the card, the card takes its final state.
THEOREM EndOfTaskIsTold == Spec => OwnTaskIsTold
<1>1. TypeOK /\ CardIsItsTask /\ [Next]_vars =>
        [\A n \in Bodies :
           bodyPc[n] = "loop" /\ bodyPc'[n] = "done" /\ owner = n /\ continues[n] = 0 => told' = n]_vars
  BY EndIsTold
<1>2. Spec => []TypeOK
  BY TypeCorrect
<1> QED BY <1>1, <1>2, InitCard, StepCard, PTL DEF Spec, OwnTaskIsTold
----------------------------------------------------------------------------
\* At most one body has the tab, and the holder names it.
LEMMA HolderIsTheOwner ==
  ASSUME TokensDiffer
  PROVE  /\ Holders = {} => Holder = 0
         /\ \A n \in Holders : Holder = n /\ Holders = {n}
<1>1. Holders = {} => Holder = 0
  BY DEF Holder
<1>2. ASSUME NEW n \in Holders PROVE Holder = n /\ Holders = {n}
  <2>1. \A m \in Holders : m = n
    BY <1>2 DEF TokensDiffer, Holders, Owns
  <2>2. Holder \in Holders
    BY <1>2 DEF Holder
  <2> QED BY <1>2, <2>1, <2>2
<1> QED BY <1>1, <1>2

LEMMA ZeroIsNoBody == 0 \notin Holders /\ Holders \subseteq Bodies
BY BoundsAssumption DEF Holders, Claimed, Bodies

\* The lease starts with nobody.
LEMMA InitMaps == Init => Lease!Init
<1> SUFFICES ASSUME Init PROVE Lease!Init
  OBVIOUS
<1>1. Claimed = {}
  BY DEF Init, Claimed
<1>2. Holders = {} /\ Claimed \ Holders = {}
  BY <1>1 DEF Holders
<1> QED BY <1>2 DEF Lease!Init, Holder, Init

\* A step that leaves the ids alone stutters.
LEMMA StaysMaps == IInv /\ Stays => UNCHANGED Lease!vars
<1> SUFFICES ASSUME IInv, Stays PROVE UNCHANGED Lease!vars
  OBVIOUS
<1>1. Holders' = Holders
  BY DEF Holders, Owns, Stays, Claimed
<1>2. Holder' = Holder
  BY <1>1 DEF Holder
<1> QED BY <1>1, <1>2 DEF Lease!vars, Stays

LEMMA OffersMaps == IInv /\ Offers => UNCHANGED Lease!vars
<1> SUFFICES ASSUME IInv, Offers PROVE UNCHANGED Lease!vars
  OBVIOUS
<1>1. Claimed' = Claimed /\ Holders' = Holders
  BY DEF Holders, Owns, Offers, Claimed
<1>2. Holder' = Holder
  BY <1>1 DEF Holder
<1> QED BY <1>1, <1>2 DEF Lease!vars, Offers

\* A step that moves the id on revokes the lease, if there was one.
LEMMA MovesOnMaps == IInv /\ MovesOn => [Lease!Next]_(Lease!vars)
<1> SUFFICES ASSUME IInv, MovesOn PROVE [Lease!Next]_(Lease!vars)
  OBVIOUS
<1>1. Claimed' = Claimed /\ late' = late
  BY DEF MovesOn, Claimed
<1>2. Holders' = {}
  <2>1. \A m \in Bodies : token'[m] < active' /\ token[m] \in Int /\ token' = token
    BY IInvTypes DEF MovesOn
  <2>2. \A m \in Bodies : token'[m] # active'
    BY <2>1 DEF MovesOn
  <2> QED BY <2>2 DEF Holders, Owns, Claimed
<1>3. Holder' = 0
  BY <1>2 DEF Holder
<1>4. CASE Holders = {}
  <2>1. Holder = 0
    BY <1>4 DEF Holder
  <2> QED BY <1>1, <1>2, <1>3, <1>4, <2>1 DEF Lease!vars
<1>5. CASE Holders # {}
  <2>1. PICK n : n \in Holders
    BY <1>5
  <2>2. Holder = n /\ Holders = {n} /\ n # 0 /\ n \in Claimed
    BY <2>1, HolderIsTheOwner, ZeroIsNoBody DEF IInv, LeaseInv, Holders
  <2>3. Claimed \ {} = (Claimed \ {n}) \cup {n}
    BY <2>2
  <2>4. Lease!Revoke
    BY <1>1, <1>2, <1>3, <2>2, <2>3 DEF Lease!Revoke
  <2> QED BY <2>4 DEF Lease!Next
<1> QED BY <1>4, <1>5

\* A body that claims the tab is granted the lease.
LEMMA ClaimsMaps ==
  ASSUME IInv, NEW n \in Bodies, Claims(n)
  PROVE  Lease!Next
<1>1. /\ Claimed' = Claimed \cup {n}
      /\ n \notin Claimed
      /\ token'[n] = active'
      /\ \A m \in Bodies : m # n => token'[m] < active'
      /\ late' = late
  BY ClaimsAll DEF Claims
<1>2. \A m \in Bodies : m # n => token'[m] # active'
  <2>1. \A m \in Bodies : token[m] \in Int
    BY IInvTypes
  <2>2. active' \in Int
    BY IInvTypes DEF Claims
  <2> QED BY <1>1, <2>1, <2>2, ClaimsAll
<1>3. Holders' = {n}
  BY <1>1, <1>2 DEF Holders, Owns, Claimed
<1>4. Holder' = n
  BY <1>3 DEF Holder
<1>5. n # Holder
  <2>1. Holder \in Claimed \cup {0}
    BY DEF Holder, Holders
  <2> QED BY <1>1, <2>1, BoundsAssumption DEF Bodies
<1>6. Claimed' \ Holders' = IF Holder = 0 THEN Claimed \ Holders ELSE (Claimed \ Holders) \cup {Holder}
  <2>1. Claimed' \ Holders' = Claimed
    BY <1>1, <1>3
  <2>2. CASE Holders = {}
    BY <2>1, <2>2 DEF Holder
  <2>3. CASE Holders # {}
    <3>1. PICK m : m \in Holders
      BY <2>3
    <3>2. Holder = m /\ Holders = {m} /\ m # 0 /\ m \in Claimed
      BY <3>1, HolderIsTheOwner, ZeroIsNoBody DEF IInv, LeaseInv, Holders
    <3>3. Claimed = (Claimed \ {m}) \cup {m}
      BY <3>2
    <3> QED BY <2>1, <3>2, <3>3
  <2> QED BY <2>2, <2>3
<1>7. Lease!Grant(n)
  BY <1>1, <1>4, <1>5, <1>6 DEF Lease!Grant
<1> QED BY <1>7 DEF Lease!Next

\* An action sent by a body that lost the tab is its one late action.
LEMMA SendsLateMaps ==
  ASSUME IInv, NEW n \in Bodies, SendsLate(n)
  PROVE  Lease!Next
<1>1. n \in Claimed /\ late[n] = 0 /\ late' = [late EXCEPT ![n] = 1]
  BY SendsLateFirst
<1>2. Claimed' = Claimed /\ Holders' = Holders /\ n \notin Holders
  BY DEF Holders, Owns, Claimed, SendsLate
<1>3. Holder' = Holder
  BY <1>2 DEF Holder
<1>4. Lease!LateAct(n)
  BY <1>1, <1>2, <1>3 DEF Lease!LateAct
<1> QED BY <1>4 DEF Lease!Next

\* While the page is not loaded again, the tab is leased to one body at a time, for
\* any number of bodies, runs and confirmations.
THEOREM OwnershipImplementsLease ==
  ASSUME MaxReloads = 0
  PROVE  Spec => ImplementsLease
<1>1. Init => Lease!Init
  BY InitMaps
<1>2. TypeOK /\ LeaseInv /\ [Next]_vars => [Lease!Next]_(Lease!vars)
  BY KindsOfSteps, StaysMaps, OffersMaps, MovesOnMaps, ClaimsMaps, SendsLateMaps DEF IInv
<1>3. Spec => [](TypeOK /\ LeaseInv)
  BY LeaseCorrect
<1> QED BY <1>1, <1>2, <1>3, PTL DEF Spec, ImplementsLease, Lease!Spec
----------------------------------------------------------------------------
(* Why every body and every loop ends (EveryRunSettles): a variant of two  *)
(* parts.  A confirmation gives a loop its steps back, but takes one of    *)
(* those the user still gives; between two of them the awaits run out.     *)

\* Two for each confirmation to come, one while a confirmed action is under way.
AnswersLeft(n) == 2 * (MaxConfirms - confirms) + IF resumed[n] THEN 1 ELSE 0

CycleStage(n) ==
  CASE cycle[n] = "none" -> 0
    [] cycle[n] = "settle" -> 1
    [] cycle[n] = "think" -> 2
    [] cycle[n] = "sent" -> 3
    [] cycle[n] = "check" -> 4
    [] cycle[n] = "gate" -> 5

BodyStage(n) ==
  CASE bodyPc[n] = "done" -> 0
    [] bodyPc[n] = "loop" -> 1
    [] bodyPc[n] = "announce" -> 4
    [] bodyPc[n] = "ready" -> 5
    [] bodyPc[n] = "provision" -> 6
    [] bodyPc[n] = "query" -> 7
    [] bodyPc[n] = "none" -> 8

Stages(n) == CycleStage(n) + BodyStage(n) + IF closing[n] THEN 1 ELSE 0

AwaitsLeft(n) == 3 * (MaxSteps - steps[n]) + Stages(n)

Shorter(n) ==
  \/ AnswersLeft(n)' < AnswersLeft(n)
  \/ AnswersLeft(n)' = AnswersLeft(n) /\ AwaitsLeft(n)' < AwaitsLeft(n)

\* The only await from which runTask is entered again without an answer to send.
SettleIsResumed == \A n \in Bodies : cycle[n] = "settle" => resumed[n]

LEMMA MeasuresAreNat ==
  ASSUME TypeOK, NEW n \in Bodies
  PROVE  Stages(n) \in 0 .. 14 /\ AnswersLeft(n) \in Nat /\ AwaitsLeft(n) \in Nat
<1>1. CycleStage(n) \in 0 .. 5
  BY DEF TypeOK, LoopType, CycleStage
<1>2. BodyStage(n) \in 0 .. 8
  BY DEF TypeOK, BodyType, BodyStage
<1>3. /\ steps[n] \in 0 .. MaxSteps /\ confirms \in 0 .. MaxConfirms
      /\ MaxSteps \in Nat /\ MaxConfirms \in Nat
  BY BoundsAssumption DEF TypeOK, LoopType, DashType
<1>4. Stages(n) \in 0 .. 14
  BY <1>1, <1>2 DEF Stages
<1> QED BY <1>3, <1>4 DEF AnswersLeft, AwaitsLeft

LEMMA MeasuresAreNatAfter ==
  ASSUME TypeOK', NEW n \in Bodies
  PROVE  Stages(n)' \in 0 .. 14
<1>1. CycleStage(n)' \in 0 .. 5
  BY DEF TypeOK, LoopType, CycleStage
<1>2. BodyStage(n)' \in 0 .. 8
  BY DEF TypeOK, BodyType, BodyStage
<1> QED BY <1>1, <1>2 DEF Stages

\* A step of the loop outweighs the awaits of an iteration.
LEMMA StepOutweighs ==
  ASSUME NEW m \in Nat, NEW s \in 0 .. m, NEW t \in 0 .. m, NEW i \in 0 .. 14, NEW j \in 0 .. 14,
         (t = s /\ j < i) \/ (t = s + 1 /\ j < i + 3)
  PROVE  3 * (m - t) + j < 3 * (m - s) + i
OBVIOUS

LEMMA FewerAwaits ==
  ASSUME TypeOK, TypeOK', NEW n \in Bodies, confirms' = confirms, resumed'[n] = resumed[n],
         \/ steps'[n] = steps[n] /\ Stages(n)' < Stages(n)
         \/ steps'[n] = steps[n] + 1 /\ Stages(n)' < Stages(n) + 3
  PROVE  Shorter(n)
<1>1. MaxSteps \in Nat /\ steps[n] \in 0 .. MaxSteps /\ steps'[n] \in 0 .. MaxSteps
  BY BoundsAssumption DEF TypeOK, LoopType
<1>2. Stages(n) \in 0 .. 14 /\ Stages(n)' \in 0 .. 14
  BY MeasuresAreNat, MeasuresAreNatAfter
<1>3. 3 * (MaxSteps - steps'[n]) + Stages(n)' < 3 * (MaxSteps - steps[n]) + Stages(n)
  BY <1>1, <1>2, StepOutweighs
<1>4. AnswersLeft(n)' = AnswersLeft(n)
  BY DEF AnswersLeft
<1> QED BY <1>3, <1>4 DEF Shorter, AwaitsLeft

\* A confirmed action that is over.
LEMMA AnswerCarriedOut ==
  ASSUME TypeOK, NEW n \in Bodies, confirms' = confirms, resumed[n], ~resumed'[n]
  PROVE  Shorter(n)
<1>1. confirms \in Nat /\ MaxConfirms \in Nat
  BY BoundsAssumption DEF TypeOK, DashType
<1> QED BY <1>1 DEF Shorter, AnswersLeft

\* A body that goes on, in every one of its sections.
LEMMA BodyShortens ==
  ASSUME TypeOK, TypeOK', NEW n \in Bodies, BodyStep(n)
  PROVE  Shorter(n)
<1>1. /\ bodyPc \in [Bodies -> {"none", "query", "provision", "ready", "announce", "loop", "done"}]
      /\ cycle \in [Bodies -> {"none", "think", "check", "sent", "gate", "settle"}]
  BY DEF TypeOK, BodyType, LoopType
<1>2. UNCHANGED <<steps, resumed, closing, confirms>>
  BY DEF BodyStep, BodyQueried, BodyProvisioned, BodyReady, BodyStartsLoop, BodyThrows, Caught, BodyFails,
         BodyGoesTo, loopVars, dashVars
<1>3. CASE BodyQueried(n) \/ BodyProvisioned(n) \/ BodyReady(n) \/ BodyThrows(n)
  <2>1. /\ cycle' = cycle
        /\ \/ bodyPc[n] = "query" /\ bodyPc'[n] \in {"provision", "ready", "done"}
           \/ bodyPc[n] = "provision" /\ bodyPc'[n] \in {"ready", "done"}
           \/ bodyPc[n] = "ready" /\ bodyPc'[n] \in {"announce", "done"}
           \/ bodyPc[n] = "announce" /\ bodyPc'[n] = "done"
    BY <1>1, <1>3 DEF BodyQueried, BodyProvisioned, BodyReady, BodyThrows, Caught, BodyFails, BodyGoesTo, loopVars
  <2>2. BodyStage(n)' < BodyStage(n) /\ BodyStage(n) \in Nat /\ BodyStage(n)' \in Nat
    BY <2>1 DEF BodyStage
  <2>3. CycleStage(n)' = CycleStage(n) /\ CycleStage(n) \in Nat
    BY <1>1, <2>1 DEF CycleStage
  <2>4. Stages(n)' < Stages(n)
    BY <1>2, <2>2, <2>3 DEF Stages
  <2> QED BY <1>2, <2>4, FewerAwaits
<1>4. CASE BodyStartsLoop(n)
  <2>1. /\ bodyPc[n] = "announce"
        /\ \/ bodyPc'[n] = "loop" /\ cycle'[n] = "think"
           \/ bodyPc'[n] = "done" /\ cycle' = cycle
    BY <1>1, <1>4 DEF BodyStartsLoop
  <2>2. /\ BodyStage(n) = 4 /\ CycleStage(n) \in Nat
        /\ \/ BodyStage(n)' = 1 /\ CycleStage(n)' = 2
           \/ BodyStage(n)' = 0 /\ CycleStage(n)' = CycleStage(n)
    BY <1>1, <2>1 DEF BodyStage, CycleStage
  <2>3. Stages(n)' < Stages(n)
    BY <1>2, <2>2 DEF Stages
  <2> QED BY <1>2, <2>3, FewerAwaits
<1> QED BY <1>3, <1>4 DEF BodyStep

\* A loop that goes on: to a later await, with a step taken, or with the
\* confirmed action carried out.
LEMMA LoopShortens ==
  ASSUME TypeOK, TypeOK', SettleIsResumed, NEW n \in Bodies, LoopStep(n)
  PROVE  Shorter(n)
<1>1. /\ cycle \in [Bodies -> {"none", "think", "check", "sent", "gate", "settle"}]
      /\ steps \in [Bodies -> 0 .. MaxSteps] /\ resumed \in [Bodies -> BOOLEAN]
      /\ closing \in [Bodies -> BOOLEAN]
  BY DEF TypeOK, LoopType
<1>2. bodyPc' = bodyPc /\ confirms' = confirms
  BY DEF LoopStep, LoopThinks, LoopSends, LoopAnswered, ResumeGate, ResumeAnswered, ResumeSettled,
         bodyVars, dashVars
<1>3. BodyStage(n)' = BodyStage(n) /\ BodyStage(n) \in Nat
  BY <1>2 DEF BodyStage, TypeOK, BodyType
<1>4. CASE LoopThinks(n)
  <2>1. /\ cycle[n] = "think" /\ resumed' = resumed
        /\ \/ cycle'[n] = "none" /\ closing'[n] /\ steps' = steps
           \/ cycle'[n] \in {"think", "check"} /\ closing' = closing /\ steps'[n] = steps[n] + 1
    BY <1>1, <1>4 DEF LoopThinks, LeaveLoop, GoOn, SpendStep
  <2>2. /\ CycleStage(n) = 2
        /\ \/ CycleStage(n)' = 0 /\ closing'[n] /\ steps' = steps
           \/ CycleStage(n)' \in {2, 4} /\ closing' = closing /\ steps'[n] = steps[n] + 1
    BY <2>1 DEF CycleStage
  <2>3. \/ steps'[n] = steps[n] /\ Stages(n)' < Stages(n)
        \/ steps'[n] = steps[n] + 1 /\ Stages(n)' < Stages(n) + 3
    BY <1>3, <2>2 DEF Stages
  <2> QED BY <1>2, <2>1, <2>3, FewerAwaits
<1>5. ASSUME UNCHANGED <<steps, resumed, closing>>,
             \/ cycle[n] = "gate" /\ cycle'[n] = "check"
             \/ cycle[n] = "check" /\ cycle'[n] \in {"sent", "think"}
             \/ cycle[n] = "sent" /\ cycle'[n] \in {"think", "settle"}
      PROVE  Shorter(n)
  <2>1. CycleStage(n)' < CycleStage(n) /\ CycleStage(n) \in Nat /\ CycleStage(n)' \in Nat
    BY <1>5 DEF CycleStage
  <2>2. Stages(n)' < Stages(n)
    BY <1>3, <1>5, <2>1 DEF Stages
  <2> QED BY <1>2, <1>5, <2>2, FewerAwaits
<1>6. ASSUME NEW outcome, GiveUp(n, outcome), cycle[n] # "none"
      PROVE  Shorter(n)
  <2>1. UNCHANGED <<steps, closing>> /\ cycle'[n] = "none" /\ ~resumed'[n]
    BY <1>1, <1>6 DEF GiveUp
  <2>2. CASE resumed[n]
    BY <1>2, <2>1, <2>2, AnswerCarriedOut
  <2>3. CASE ~resumed[n]
    <3>1. CycleStage(n)' = 0 /\ CycleStage(n) \in 1 .. 5
      BY <1>1, <1>6, <2>1 DEF CycleStage
    <3>2. Stages(n)' < Stages(n)
      BY <1>3, <2>1, <3>1 DEF Stages
    <3>3. resumed'[n] = resumed[n]
      BY <1>1, <2>1, <2>3 DEF TypeOK, LoopType
    <3> QED BY <1>2, <2>1, <3>2, <3>3, FewerAwaits
  <2> QED BY <2>2, <2>3
<1>7. ASSUME Restart(n), resumed[n]
      PROVE  Shorter(n)
  <2>1. ~resumed'[n]
    BY <1>1, <1>7 DEF Restart
  <2> QED BY <1>2, <1>7, <2>1, AnswerCarriedOut
<1>8. CASE LoopSends(n) \/ LoopAnswered(n)
  <2>1. \/ GiveUp(n, "FAILED") /\ cycle[n] # "none"
        \/ /\ UNCHANGED <<steps, resumed, closing>>
           /\ \/ cycle[n] = "check" /\ cycle'[n] \in {"sent", "think"}
              \/ cycle[n] = "sent" /\ cycle'[n] = "think"
    BY <1>1, <1>8 DEF LoopSends, LoopAnswered, GoOn
  <2> QED BY <1>5, <1>6, <2>1
<1>9. CASE ResumeGate(n)
  <2>1. \/ \E outcome : GiveUp(n, outcome) /\ cycle[n] # "none"
        \/ UNCHANGED <<steps, resumed, closing>> /\ cycle[n] = "gate" /\ cycle'[n] = "check"
    BY <1>1, <1>9 DEF ResumeGate, GoOn
  <2> QED BY <1>5, <1>6, <2>1
<1>10. CASE ResumeAnswered(n) \/ ResumeSettled(n)
  <2>1. \/ GiveUp(n, "FAILED") /\ cycle[n] # "none"
        \/ Restart(n) /\ resumed[n]
        \/ UNCHANGED <<steps, resumed, closing>> /\ cycle[n] = "sent" /\ cycle'[n] = "settle"
    BY <1>1, <1>10 DEF ResumeAnswered, ResumeSettled, GoOn, SettleIsResumed
  <2> QED BY <1>5, <1>6, <1>7, <2>1
<1> QED BY <1>4, <1>8, <1>9, <1>10 DEF LoopStep

LEMMA CloseShortens ==
  ASSUME TypeOK, TypeOK', NEW n \in Bodies, LoopCloses(n)
  PROVE  Shorter(n)
<1>1. /\ bodyPc \in [Bodies -> {"none", "query", "provision", "ready", "announce", "loop", "done"}]
      /\ cycle \in [Bodies -> {"none", "think", "check", "sent", "gate", "settle"}]
      /\ closing \in [Bodies -> BOOLEAN]
  BY DEF TypeOK, BodyType, LoopType
<1>2. /\ UNCHANGED <<steps, resumed, confirms, cycle>> /\ closing[n] /\ ~closing'[n]
      /\ (bodyPc' = bodyPc \/ (bodyPc[n] = "loop" /\ bodyPc'[n] = "done"))
  BY <1>1 DEF LoopCloses
<1>3. BodyStage(n)' <= BodyStage(n) /\ BodyStage(n) \in Nat /\ BodyStage(n)' \in Nat
  BY <1>1, <1>2 DEF BodyStage
<1>4. CycleStage(n)' = CycleStage(n) /\ CycleStage(n) \in Nat
  BY <1>1, <1>2 DEF CycleStage
<1>5. Stages(n)' < Stages(n)
  BY <1>2, <1>3, <1>4 DEF Stages
<1> QED BY <1>2, <1>5, FewerAwaits

\* A loop that throws, and the body that catches it.
LEMMA ThrowShortens ==
  ASSUME TypeOK, TypeOK', NEW n \in Bodies, LoopThrows(n)
  PROVE  Shorter(n)
<1>1. /\ bodyPc \in [Bodies -> {"none", "query", "provision", "ready", "announce", "loop", "done"}]
      /\ cycle \in [Bodies -> {"none", "think", "check", "sent", "gate", "settle"}]
      /\ closing \in [Bodies -> BOOLEAN] /\ resumed \in [Bodies -> BOOLEAN]
  BY DEF TypeOK, BodyType, LoopType
<1>2. /\ UNCHANGED <<steps, confirms, closing>> /\ ~resumed'[n]
      /\ cycle[n] \in {"think", "gate", "settle"} /\ cycle'[n] = "none"
      /\ (bodyPc' = bodyPc \/ (bodyPc[n] = "loop" /\ bodyPc'[n] = "done"))
  BY <1>1 DEF LoopThrows, GiveUp, Caught
<1>3. CASE resumed[n]
  BY <1>2, <1>3, AnswerCarriedOut
<1>4. CASE ~resumed[n]
  <2>1. BodyStage(n)' <= BodyStage(n) /\ BodyStage(n) \in Nat /\ BodyStage(n)' \in Nat
    BY <1>1, <1>2 DEF BodyStage
  <2>2. CycleStage(n)' = 0 /\ CycleStage(n) \in 1 .. 5
    BY <1>1, <1>2 DEF CycleStage
  <2>3. Stages(n)' < Stages(n)
    BY <1>2, <2>1, <2>2 DEF Stages
  <2>4. resumed'[n] = resumed[n]
    BY <1>1, <1>2, <1>4 DEF TypeOK, LoopType
  <2> QED BY <1>2, <2>3, <2>4, FewerAwaits
<1> QED BY <1>3, <1>4

\* What the measures of a body read.
View(n) == <<steps[n], cycle[n], resumed[n], bodyPc[n], closing[n], confirms>>

LEMMA SameView ==
  ASSUME NEW n, UNCHANGED View(n)
  PROVE  UNCHANGED <<AnswersLeft(n), AwaitsLeft(n)>>
BY DEF View, AnswersLeft, AwaitsLeft, Stages, CycleStage, BodyStage

\* Another body or loop, and a report, leave them alone.
LEMMA OthersLeaveView ==
  ASSUME TypeOK, NEW m \in Bodies, NEW n \in Bodies,
         \/ m # n /\ (BodyStep(m) \/ LoopStep(m) \/ LoopCloses(m) \/ LoopThrows(m))
         \/ LoopReports(m)
  PROVE  UNCHANGED View(n)
<1>1. /\ steps \in [Bodies -> 0 .. MaxSteps] /\ resumed \in [Bodies -> BOOLEAN]
      /\ closing \in [Bodies -> BOOLEAN]
      /\ bodyPc \in [Bodies -> {"none", "query", "provision", "ready", "announce", "loop", "done"}]
      /\ cycle \in [Bodies -> {"none", "think", "check", "sent", "gate", "settle"}]
  BY DEF TypeOK, BodyType, LoopType
<1>2. CASE m # n /\ BodyStep(m)
  <2>1. UNCHANGED <<steps, resumed, closing, confirms>>
    BY <1>2 DEF BodyStep, BodyQueried, BodyProvisioned, BodyReady, BodyStartsLoop, BodyThrows, Caught, BodyFails,
           BodyGoesTo, loopVars, dashVars
  <2>2. bodyPc'[n] = bodyPc[n] /\ cycle'[n] = cycle[n]
    BY <1>1, <1>2 DEF BodyStep, BodyQueried, BodyProvisioned, BodyReady, BodyStartsLoop, BodyThrows, Caught,
           BodyFails, BodyGoesTo, loopVars
  <2> QED BY <2>1, <2>2 DEF View
<1>3. CASE m # n /\ LoopStep(m)
  <2>1. bodyPc' = bodyPc /\ confirms' = confirms
    BY <1>3 DEF LoopStep, LoopThinks, LoopSends, LoopAnswered, ResumeGate, ResumeAnswered, ResumeSettled,
           bodyVars, dashVars
  <2>2. \/ LoopThinks(m) \/ LoopSends(m) \/ LoopAnswered(m)
        \/ ResumeGate(m) \/ ResumeAnswered(m) \/ ResumeSettled(m)
    BY <1>3 DEF LoopStep
  <2>3. /\ steps'[n] = steps[n] /\ cycle'[n] = cycle[n] /\ resumed'[n] = resumed[n]
        /\ closing'[n] = closing[n]
    BY <1>1, <1>3, <2>2 DEF LoopThinks, LoopSends, LoopAnswered, ResumeGate, ResumeAnswered,
           ResumeSettled, LeaveLoop, GoOn, GiveUp, Restart, SpendStep
  <2> QED BY <2>1, <2>3 DEF View
<1>4. CASE m # n /\ LoopCloses(m)
  BY <1>1, <1>4 DEF LoopCloses, View
<1>5. CASE LoopReports(m)
  BY <1>5 DEF LoopReports, bodyVars, loopVars, View
<1>6. CASE m # n /\ LoopThrows(m)
  BY <1>1, <1>6 DEF LoopThrows, GiveUp, Caught, View
<1> QED BY <1>2, <1>3, <1>4, <1>5, <1>6

\* The dashboard gives a body nothing but a start, and a loop nothing but an
\* answer that was still to come.
LEMMA DashboardLengthensNothing ==
  ASSUME TypeOK, TypeOK', NEW n \in Bodies, Dashboard
  PROVE  Shorter(n) \/ UNCHANGED <<AnswersLeft(n), AwaitsLeft(n)>>
<1>1. CASE ConfirmArrives
  <2>1. confirms' = confirms + 1 /\ confirms \in Nat /\ MaxConfirms \in Nat
    BY <1>1, BoundsAssumption DEF ConfirmArrives, TypeOK, DashType
  <2>2. AnswersLeft(n)' < AnswersLeft(n)
    BY <2>1 DEF AnswersLeft
  <2> QED BY <2>2 DEF Shorter
<1>2. ASSUME NEW m \in Bodies, NEW w, NEW from, NEW opens, Claim(m, w, from, opens)
      PROVE  Shorter(n) \/ UNCHANGED <<AnswersLeft(n), AwaitsLeft(n)>>
  <2>1. /\ UNCHANGED <<steps, cycle, resumed, closing, confirms>>
        /\ bodyPc[m] = "none" /\ bodyPc' = [bodyPc EXCEPT ![m] = "query"]
    BY <1>2 DEF Claim
  <2>2. CASE m # n
    <3>1. UNCHANGED View(n)
      BY <2>1, <2>2 DEF View, TypeOK, BodyType
    <3> QED BY <3>1, SameView
  <2>3. CASE m = n
    <3>1. BodyStage(n) = 8 /\ BodyStage(n)' = 7
      BY <2>1, <2>3 DEF BodyStage, TypeOK, BodyType
    <3>2. CycleStage(n)' = CycleStage(n) /\ CycleStage(n) \in Nat
      BY <2>1 DEF CycleStage, TypeOK, LoopType
    <3>3. Stages(n)' < Stages(n)
      BY <2>1, <3>1, <3>2 DEF Stages
    <3> QED BY <2>1, <3>3, FewerAwaits
  <2> QED BY <2>2, <2>3
<1>3. CASE \E m \in Bodies : TaskArrives(m) \/ ContinueArrives(m)
  <2>1. PICK m \in Bodies : TaskArrives(m) \/ ContinueArrives(m)
    BY <1>3
  <2>2. \E w, from, opens : Claim(m, w, from, opens)
    BY <2>1, Zenon DEF TaskArrives, ContinueArrives
  <2> QED BY <1>2, <2>2
<1>4. CASE \/ (\E replaces \in BOOLEAN : StartTask(replaces)) \/ StopTask \/ Reload \/ AnswerArrives
           \/ (\E cancelling \in BOOLEAN : ChatArrives(cancelling)) \/ DenyArrives
  <2>1. UNCHANGED <<steps, cycle, resumed, closing, confirms, bodyPc>>
    BY <1>4 DEF StartTask, StopTask, Reload, AnswerArrives, ChatArrives, DenyArrives, bodyVars, loopVars
  <2>2. UNCHANGED View(n)
    BY <2>1 DEF View
  <2> QED BY <2>2, SameView
<1> QED BY <1>1, <1>3, <1>4 DEF Dashboard

LEMMA SettleStaysResumed ==
  ASSUME TypeOK, SettleIsResumed, [Next]_vars
  PROVE  SettleIsResumed'
<1>1. /\ cycle \in [Bodies -> {"none", "think", "check", "sent", "gate", "settle"}]
      /\ resumed \in [Bodies -> BOOLEAN]
  BY DEF TypeOK, LoopType
<1> SUFFICES ASSUME NEW n \in Bodies, cycle'[n] = "settle" PROVE resumed'[n]
  BY DEF SettleIsResumed
<1>2. CASE Dashboard
  <2>1. \/ UNCHANGED <<cycle, resumed>>
        \/ ConfirmArrives
    BY <1>2 DEF Dashboard, StartTask, StopTask, Reload, TaskArrives, ContinueArrives, Claim,
           AnswerArrives, ChatArrives, DenyArrives, loopVars
  <2> QED BY <1>1, <2>1 DEF ConfirmArrives, SettleIsResumed
<1>3. ASSUME NEW m \in Bodies, BodyStep(m) PROVE resumed'[n]
  <2>1. resumed' = resumed /\ (cycle' = cycle \/ cycle' = [cycle EXCEPT ![m] = "think"])
    BY <1>3 DEF BodyStep, BodyQueried, BodyProvisioned, BodyReady, BodyStartsLoop, BodyThrows, Caught, BodyFails,
           BodyGoesTo, loopVars
  <2> QED BY <1>1, <2>1 DEF SettleIsResumed
<1>4. ASSUME NEW m \in Bodies, LoopStep(m) PROVE resumed'[n]
  <2>1. CASE m # n
    BY <1>4, <2>1, OthersLeaveView DEF View, SettleIsResumed
  <2>2. CASE m = n
    <3>1. ResumeAnswered(n) \/ ~(cycle'[n] = "settle")
      BY <1>1, <1>4, <2>2 DEF LoopStep, LoopThinks, LoopSends, LoopAnswered, ResumeGate,
             ResumeSettled, LeaveLoop, GoOn, GiveUp, Restart
    <3> QED BY <1>1, <3>1 DEF ResumeAnswered, GiveUp, GoOn, Restart
  <2> QED BY <2>1, <2>2
<1>5. ASSUME NEW m \in Bodies, LoopCloses(m) \/ LoopReports(m) PROVE resumed'[n]
  BY <1>5 DEF LoopCloses, LoopReports, loopVars, SettleIsResumed
<1>7. ASSUME NEW m \in Bodies, LoopThrows(m) PROVE resumed'[n]
  <2>1. cycle'[m] = "none"
    BY <1>1, <1>7 DEF LoopThrows, GiveUp
  <2>2. m # n
    BY <2>1
  <2> QED BY <1>7, <2>2, OthersLeaveView DEF View, SettleIsResumed
<1>6. CASE UNCHANGED vars
  BY <1>6 DEF vars, loopVars, SettleIsResumed
<1> QED BY <1>2, <1>3, <1>4, <1>5, <1>6, <1>7 DEF Next

\* Whatever arrives from the dashboard, however often the page is loaded again
\* and whoever has the tab: each await of a body or of its loop that returns
\* leaves it less to do, and nobody else's step leaves it more.  The step count
\* that runTask resets is paid for by the confirmation that let it run again
\* (agentLoop.ts, resumeWithConfirmation and runTask).
THEOREM BodiesRunOut ==
  Spec => /\ [](\A n \in Bodies : AnswersLeft(n) \in Nat /\ AwaitsLeft(n) \in Nat)
          /\ [][\A n \in Bodies :
                  /\ BodyStep(n) \/ LoopStep(n) \/ LoopCloses(n) \/ LoopThrows(n) => Shorter(n)
                  /\ Shorter(n) \/ UNCHANGED <<AnswersLeft(n), AwaitsLeft(n)>>]_vars
<1> DEFINE RunsOut ==
      \A n \in Bodies :
        /\ BodyStep(n) \/ LoopStep(n) \/ LoopCloses(n) \/ LoopThrows(n) => Shorter(n)
        /\ Shorter(n) \/ UNCHANGED <<AnswersLeft(n), AwaitsLeft(n)>>
<1>1. TypeOK => \A n \in Bodies : AnswersLeft(n) \in Nat /\ AwaitsLeft(n) \in Nat
  BY MeasuresAreNat
<1>2. Init => SettleIsResumed
  BY DEF Init, SettleIsResumed
<1>3. ASSUME TypeOK, TypeOK', SettleIsResumed, Next, NEW n \in Bodies
      PROVE  /\ BodyStep(n) \/ LoopStep(n) \/ LoopCloses(n) \/ LoopThrows(n) => Shorter(n)
             /\ Shorter(n) \/ UNCHANGED <<AnswersLeft(n), AwaitsLeft(n)>>
  <2>1. BodyStep(n) \/ LoopStep(n) \/ LoopCloses(n) \/ LoopThrows(n) => Shorter(n)
    BY <1>3, BodyShortens, LoopShortens, CloseShortens, ThrowShortens
  <2>2. CASE Dashboard
    BY <1>3, <2>1, <2>2, DashboardLengthensNothing
  <2>3. ASSUME NEW m \in Bodies, BodyStep(m) \/ LoopStep(m) \/ LoopCloses(m) \/ LoopThrows(m) \/ LoopReports(m)
        PROVE  Shorter(n) \/ UNCHANGED <<AnswersLeft(n), AwaitsLeft(n)>>
    BY <1>3, <2>1, <2>3, OthersLeaveView, SameView
  <2> QED BY <1>3, <2>1, <2>2, <2>3 DEF Next
<1>4. TypeOK /\ TypeOK' /\ SettleIsResumed /\ [Next]_vars => [RunsOut]_vars
  BY <1>3
<1>5. TypeOK /\ SettleIsResumed /\ [Next]_vars => SettleIsResumed'
  BY SettleStaysResumed
<1> QED BY <1>1, <1>2, <1>4, <1>5, TypeCorrect, PTL DEF Spec
=============================================================================
