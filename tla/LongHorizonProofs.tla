------------------------- MODULE LongHorizonProofs -------------------------
(***************************************************************************)
(* What holds for every value of the bounds: the types, that actions are   *)
(* steps, that what teaches nothing is bounded, that the budgets of the    *)
(* failed effects end the run, and that no budget of RecoveryEngine does.  *)
(* The last rests on RunwayAssumption, a relation between three bounds.    *)
(***************************************************************************)
EXTENDS LongHorizon, FiniteSetTheorems, TLAPS

IInv == TypeOK /\ HorizonInv

\* What a planned recovery changes.
LEMMA Planned ==
  ASSUME TypeOK, NEW c \in Categories, Plan(c)
  PROVE  /\ planner' \in [attempts : [Categories -> Nat], strategy : [Categories -> Strategies]]
         /\ planner'.attempts[c] = planner.attempts[c] + 1
         /\ \A d \in Categories \ {c} : planner'.attempts[d] = planner.attempts[d]
<1>1. planner.attempts \in [Categories -> Nat] /\ planner.strategy \in [Categories -> Strategies]
  BY DEF TypeOK
<1>2. NextStrategy(c) \in Strategies
  <2> DEFINE n == planner.attempts[c] + 1
  <2>1. Allowed[planner.strategy[c]] \subseteq Strategies
    BY <1>1 DEF Allowed, Strategies
  <2>2. CASE Chain[c][n] \in Allowed[planner.strategy[c]]
    BY <2>1, <2>2 DEF NextStrategy, Strategies
  <2>3. CASE Chain[c][n] \notin Allowed[planner.strategy[c]]
    BY <2>3 DEF NextStrategy, Strategies
  <2> QED BY <2>2, <2>3
<1>3. [planner.attempts EXCEPT ![c] = @ + 1] \in [Categories -> Nat]
  BY <1>1
<1>4. [planner.strategy EXCEPT ![c] = NextStrategy(c)] \in [Categories -> Strategies]
  BY <1>1, <1>2
<1> QED BY <1>1, <1>3, <1>4 DEF Plan

\* A recovery that is not exhausted was still in the budget.
LEMMA InBudget ==
  ASSUME NEW c \in Categories, ~Exhausted(c)
  PROVE  planner.attempts[c] + 1 <= Budget[c]
BY DEF Exhausted, NextStrategy

LEMMA BudgetIs ==
  /\ Budget["NO_EFFECT"] = 2
  /\ Budget["OSCILLATION"] = 1
  /\ Budget["EFFECT_UNVERIFIABLE"] = 1
BY DEF Budget, Categories, Verdicts

\* The engine does not abort while it has decided about two failures at most
\* and has answered both by looking again, unless it must not look at the third.
LEMMA NoAbort ==
  ASSUME TypeOK, Len(calls) <= 2,
         \A i \in DOMAIN calls : i <= 2 => calls[i].strategy = "REPERCEIVE",
         NEW key, ~RawShaped(key)
  PROVE  /\ Decide(key) \in {"REPERCEIVE", "REPLAN_SUBGOAL"}
         /\ Len(calls) <= 1 => Decide(key) = "REPERCEIVE"
<1> DEFINE sameSubgoal == {i \in DOMAIN calls : calls[i].key.subgoal = key.subgoal}
           same == {i \in DOMAIN calls : calls[i].key = key}
<1>1. DOMAIN calls = 1 .. Len(calls) /\ Len(calls) \in Nat
  BY DEF TypeOK
<1>2. IsFiniteSet(1 .. Len(calls)) /\ Cardinality(1 .. Len(calls)) = Len(calls)
  <2>1. 1 \in Int /\ Len(calls) \in Int
    BY <1>1
  <2>2. /\ IsFiniteSet(1 .. Len(calls))
        /\ Cardinality(1 .. Len(calls)) = IF 1 > Len(calls) THEN 0 ELSE Len(calls) - 1 + 1
    BY <2>1, FS_Interval
  <2> QED BY <1>1, <2>2
<1>3. /\ IsFiniteSet(sameSubgoal) /\ Cardinality(sameSubgoal) \in Nat
      /\ Cardinality(sameSubgoal) <= Len(calls)
  <2>1. sameSubgoal \subseteq 1 .. Len(calls)
    BY <1>1
  <2> QED BY <1>2, <2>1, FS_Subset, FS_CardinalityType
<1>4. /\ IsFiniteSet(same) /\ Cardinality(same) \in Nat
      /\ Cardinality(same) <= Len(calls)
  <2>1. same \subseteq 1 .. Len(calls)
    BY <1>1
  <2> QED BY <1>2, <2>1, FS_Subset, FS_CardinalityType
<1>5. ~(\/ Len(calls) >= 6
        \/ key.subgoal # None /\ Cardinality(sameSubgoal) >= 3
        \/ RawShaped(key))
  BY <1>1, <1>3
<1>6. CASE Len(calls) = 2
  <2>1. Repeated
    BY <1>1, <1>6 DEF Repeated
  <2> QED BY <1>5, <1>6, <2>1 DEF Decide
<1>7. CASE Len(calls) # 2
  <2>1. ~Repeated
    BY <1>1, <1>7 DEF Repeated
  <2>2. ~(Cardinality(same) >= 2)
    BY <1>1, <1>4, <1>7
  <2> QED BY <1>5, <2>1, <2>2 DEF Decide
<1> QED BY <1>6, <1>7

\* A run that starts, and one whose memory is gone.
LEMMA ResetHolds ==
  ASSUME ResetRun, pc' \in {"top", "down", "over"}, runs' \in 0 .. MaxRuns,
         stored' \in [run : 0 .. MaxRuns, counters : Counters]
  PROVE  IInv'
<1> USE HorizonAssumption, RunwayAssumption
<1>1. TypeOK'
  <2>1. ZeroCounters \in Counters
    BY DEF ZeroCounters, Counters
  <2>2. planner' \in [attempts : [Categories -> Nat], strategy : [Categories -> Strategies]]
    BY DEF ResetRun, Strategies
  <2>3. scroll' \in [dir : Scrolls \cup {"none"}, run : Nat, swings : Nat]
    BY DEF ResetRun, NoScroll
  <2>4. step' \in 0 .. MaxSteps /\ prints' \in 0 .. Window /\ retry' \in Nat
    BY DEF ResetRun
  <2>5. verdicts' \in [Verdicts -> Nat] /\ fruitless' \in Nat
    BY DEF ResetRun
  <2>6. /\ kind' \in Kinds /\ proposed' \in Kinds
        /\ stagnation' \in {"NONE", "NO_EFFECT", "OSCILLATION"}
        /\ dispatched' \in BOOLEAN /\ scrollSpent' \in BOOLEAN /\ acted' \in BOOLEAN
    BY DEF ResetRun, Kinds
  <2>7. calls' \in Seq(Decisions) /\ tracker' \in Counters
    BY <2>1 DEF ResetRun
  <2> QED BY <2>2, <2>3, <2>4, <2>5, <2>6, <2>7 DEF TypeOK
<1>2. StepInv'
  BY DEF ResetRun, StepInv, ActionsAreSteps, ZeroCounters
<1>3. StallInv'
  BY DEF ResetRun, StallInv, ZeroCounters
<1>4. ScrollInv'
  BY DEF ResetRun, ScrollInv, ZeroCounters, NoScroll
<1>5. RecoveryInv'
  BY BudgetIs DEF ResetRun, RecoveryInv, EngineAbortsOnlyRaw, Categories, Verdicts
<1> QED BY <1>1, <1>2, <1>3, <1>4, <1>5 DEF IInv, HorizonInv

\* The first state.
LEMMA InitHolds == Init => IInv
<1> SUFFICES ASSUME Init PROVE IInv
  OBVIOUS
<1> USE HorizonAssumption, RunwayAssumption
<1>1. TypeOK
  <2>1. ZeroCounters \in Counters
    BY DEF ZeroCounters, Counters
  <2>2. planner \in [attempts : [Categories -> Nat], strategy : [Categories -> Strategies]]
    BY DEF Init, Strategies
  <2>3. scroll \in [dir : Scrolls \cup {"none"}, run : Nat, swings : Nat]
    BY DEF Init, NoScroll
  <2>4. step \in 0 .. MaxSteps /\ prints \in 0 .. Window /\ retry \in Nat /\ runs \in 0 .. MaxRuns
    BY DEF Init
  <2>5. verdicts \in [Verdicts -> Nat] /\ fruitless \in Nat
    BY DEF Init
  <2>6. /\ kind \in Kinds /\ proposed \in Kinds
        /\ stagnation \in {"NONE", "NO_EFFECT", "OSCILLATION"}
        /\ dispatched \in BOOLEAN /\ scrollSpent \in BOOLEAN /\ acted \in BOOLEAN
    BY DEF Init, Kinds
  <2>7. calls \in Seq(Decisions) /\ tracker \in Counters
    BY <2>1 DEF Init
  <2>8. stored \in [run : 0 .. MaxRuns, counters : Counters]
    BY <2>1 DEF Init, NoRecord
  <2>9. pc = "idle"
    BY DEF Init
  <2> QED BY <2>2, <2>3, <2>4, <2>5, <2>6, <2>7, <2>8, <2>9 DEF TypeOK
<1>2. StepInv /\ StallInv
  BY DEF Init, StepInv, ActionsAreSteps, StallInv, ZeroCounters, Running
<1>3. ScrollInv
  BY DEF Init, ScrollInv, ZeroCounters, NoScroll
<1>4. RecoveryInv
  BY DEF Init, RecoveryInv, EngineAbortsOnlyRaw, Running
<1> QED BY <1>1, <1>2, <1>3, <1>4 DEF IInv, HorizonInv

\* Runs begin and are cut off.
LEMMA RunsHold ==
  ASSUME IInv, Start \/ Die \/ Stop
  PROVE  IInv'
<1>1. NoRecord \in [run : 0 .. MaxRuns, counters : Counters]
  BY HorizonAssumption DEF NoRecord, ZeroCounters, Counters
<1>2. /\ stored \in [run : 0 .. MaxRuns, counters : Counters]
      /\ runs \in 0 .. MaxRuns
  BY DEF IInv, TypeOK
<1>3. CASE Start
  BY <1>1, <1>2, <1>3, ResetHolds, HorizonAssumption DEF Start
<1>4. CASE Die
  BY <1>1, <1>2, <1>4, ResetHolds DEF Die
<1>5. CASE Stop
  BY <1>1, <1>2, <1>5, ResetHolds DEF Stop
<1> QED BY <1>3, <1>4, <1>5

\* The observation: counters, budgets, and the bounds that end the run.
LEMMA ObserveHolds ==
  ASSUME IInv, Observe
  PROVE  IInv'
<1> USE HorizonAssumption, RunwayAssumption
<1> USE DEF IInv, HorizonInv
<1> PICK meaningful \in BOOLEAN, looping \in BOOLEAN :
      /\ prints' = IF prints < Window THEN prints + 1 ELSE Window
      /\ scroll' = ScrollBudget(meaningful)
      /\ stagnation' = Stagnation(meaningful, scroll')
      /\ LET counted == Count(meaningful)
         IN  /\ tracker' = IF looping \/ counted.quiet >= MaxQuiet
                           THEN Replan(counted) ELSE counted
             /\ IF BoundReached(tracker')
                THEN End
                ELSE /\ Leave("propose")
                     /\ stored' = [run |-> runs, counters |-> counted]
      /\ fruitless' = IF acted /\ ~meaningful THEN fruitless + 1 ELSE fruitless
  BY DEF Observe
<1> DEFINE counted == Count(meaningful)
<1>0. /\ tracker = [actions |-> tracker.actions, recoveries |-> tracker.recoveries,
                    quiet |-> tracker.quiet, total |-> tracker.total]
      /\ tracker.actions \in Nat /\ tracker.recoveries \in Nat
      /\ tracker.quiet \in Nat /\ tracker.total \in Nat
      /\ scroll \in [dir : Scrolls \cup {"none"}, run : Nat, swings : Nat]
      /\ scroll.run \in Nat /\ scroll.swings \in Nat
      /\ dispatched \in BOOLEAN /\ kind \in Kinds /\ acted \in BOOLEAN
      /\ prints \in 0 .. Window /\ fruitless \in Nat /\ runs \in 0 .. MaxRuns
  BY DEF TypeOK, Counters
<1>1. /\ pc = "top" /\ step < MaxSteps
      /\ UNCHANGED <<step, retry, kind, dispatched, calls, runs, verdicts>>
      /\ acted' = FALSE /\ proposed' = "none"
      /\ pc' \in {"over", "propose"}
  BY DEF Observe, StepsLeft, End, Leave
<1>2. /\ counted \in Counters
      /\ counted.actions = IF dispatched THEN tracker.actions + 1 ELSE tracker.actions
      /\ counted.total = IF meaningful THEN tracker.total ELSE tracker.total + 1
  BY <1>0 DEF Count, Counters
<1>3. /\ tracker' \in Counters
      /\ tracker'.actions = IF dispatched THEN tracker.actions + 1 ELSE tracker.actions
      /\ tracker'.total = IF meaningful THEN tracker.total ELSE tracker.total + 1
  <2>1. tracker' \in {Replan(counted), counted}
    OBVIOUS
  <2> HIDE DEF counted
  <2>2. /\ Replan(counted) \in Counters
        /\ Replan(counted).actions = counted.actions
        /\ Replan(counted).total = counted.total
    BY <1>2 DEF Counters, Replan
  <2> QED BY <1>2, <2>1, <2>2
<1>4. pc' = "propose" => tracker'.total < MaxStall
  BY <1>3 DEF BoundReached, End, Leave, Counters
<1>5. /\ scroll' \in [dir : Scrolls \cup {"none"}, run : Nat, swings : Nat]
      /\ meaningful => scroll' = NoScroll
      /\ ~meaningful => /\ scroll'.run <= scroll.run + 1
                        /\ scroll'.run >= 2 => scroll'.swings = 1
                        /\ scroll'.swings <= scroll.swings + 1
  <2>1. CASE meaningful
    BY <2>1 DEF ScrollBudget, NoScroll
  <2>2. CASE ~meaningful /\ kind \notin Scrolls
    BY <1>0, <2>2 DEF ScrollBudget, ScrollInv
  <2>3. CASE ~meaningful /\ kind \in Scrolls
    BY <1>0, <2>3 DEF ScrollBudget
  <2> QED BY <2>1, <2>2, <2>3
<1>6. /\ stagnation' \in {"NONE", "NO_EFFECT", "OSCILLATION"}
      /\ stagnation' = "OSCILLATION" => scroll'.swings >= MaxSwings
      /\ stagnation' = "NO_EFFECT" => scroll'.run >= MaxQuiet /\ ~meaningful
  BY DEF Stagnation
<1>7. /\ planner' \in [attempts : [Categories -> Nat], strategy : [Categories -> Strategies]]
      /\ \A c \in Categories : planner'.attempts[c] >= planner.attempts[c]
      /\ stagnation' = "OSCILLATION" /\ ~scrollSpent => planner'.attempts["OSCILLATION"] >= 1
      /\ scrollSpent' \in BOOLEAN
      /\ scrollSpent' => scrollSpent \/ stagnation' # "NONE"
      /\ scrollSpent /\ planner'.attempts["OSCILLATION"] = 0 => planner.attempts["OSCILLATION"] = 0
  <2>1. CASE stagnation' # "NONE" /\ ~scrollSpent
    <3>1. scrollSpent' = TRUE /\ Plan(stagnation') /\ stagnation' \in Categories
      BY <1>6, <2>1 DEF Observe, Categories, Verdicts
    <3>2. PICK c \in Categories : c = stagnation' /\ Plan(c)
      BY <3>1
    <3>3. /\ planner' \in [attempts : [Categories -> Nat], strategy : [Categories -> Strategies]]
          /\ planner'.attempts[c] = planner.attempts[c] + 1
          /\ \A d \in Categories \ {c} : planner'.attempts[d] = planner.attempts[d]
      BY <3>2, Planned
    <3>4. \A d \in Categories : planner.attempts[d] \in Nat
      BY DEF TypeOK
    <3>5. \A d \in Categories : planner'.attempts[d] >= planner.attempts[d]
      BY <3>3, <3>4
    <3>6. stagnation' = "OSCILLATION" => planner'.attempts["OSCILLATION"] >= 1
      BY <3>2, <3>3, <3>4
    <3> QED BY <2>1, <3>1, <3>3, <3>5, <3>6
  <2>2. CASE ~(stagnation' # "NONE" /\ ~scrollSpent)
    <3>1. scrollSpent' = scrollSpent /\ planner' = planner
      BY <2>2 DEF Observe
    <3>2. /\ \A d \in Categories : planner.attempts[d] \in Nat
          /\ planner \in [attempts : [Categories -> Nat], strategy : [Categories -> Strategies]]
          /\ scrollSpent \in BOOLEAN
      BY DEF TypeOK
    <3>3. \A d \in Categories : planner'.attempts[d] >= planner.attempts[d]
      BY <3>1, <3>2
    <3> QED BY <2>2, <3>1, <3>2, <3>3
  <2> QED BY <2>1, <2>2
<1>8. stored' \in [run : 0 .. MaxRuns, counters : Counters]
  <2>1. NoRecord \in [run : 0 .. MaxRuns, counters : Counters]
    BY DEF NoRecord, ZeroCounters, Counters
  <2>2. stored' = NoRecord \/ stored' = [run |-> runs, counters |-> counted]
    BY DEF End
  <2> HIDE DEF counted
  <2> QED BY <1>0, <1>2, <2>1, <2>2
<1>9. TypeOK'
  <2>1. prints' \in 0 .. Window /\ fruitless' \in Nat
    BY <1>0
  <2>2. /\ step' \in 0 .. MaxSteps /\ retry' \in Nat /\ runs' \in 0 .. MaxRuns
        /\ kind' \in Kinds /\ proposed' \in Kinds
        /\ dispatched' \in BOOLEAN /\ acted' \in BOOLEAN
        /\ calls' \in Seq(Decisions) /\ verdicts' \in [Verdicts -> Nat]
    BY <1>1 DEF TypeOK, Kinds
  <2> QED BY <1>1, <1>3, <1>5, <1>6, <1>7, <1>8, <2>1, <2>2 DEF TypeOK
<1>10. StepInv'
  <2>1. step \in Nat
    BY DEF TypeOK
  <2> QED BY <1>0, <1>1, <1>3, <2>1 DEF StepInv, ActionsAreSteps
<1>11. StallInv'
  <2>1. Running /\ tracker.total < MaxStall /\ fruitless <= tracker.total
    BY <1>1 DEF StallInv, Running
  <2>2. tracker'.total <= MaxStall /\ fruitless' <= tracker'.total
    BY <1>0, <1>3, <2>1
  <2> QED BY <1>1, <1>4, <2>2 DEF StallInv, Running
<1>12. ScrollInv'
  <2>1. tracker.total \in Nat /\ tracker'.total \in Nat
    BY <1>3 DEF TypeOK, Counters
  <2>2. /\ scroll.run \in Nat /\ scroll.swings \in Nat
        /\ scroll'.run \in Nat /\ scroll'.swings \in Nat
    BY <1>5 DEF TypeOK
  <2>3. scroll'.run <= tracker'.total
    BY <1>3, <1>5, <2>1, <2>2 DEF ScrollInv, NoScroll
  <2>4. scroll'.run >= 2 => scroll'.swings = 1
    BY <1>5 DEF NoScroll
  <2>5. scrollSpent' /\ planner'.attempts["OSCILLATION"] = 0 =>
          tracker'.total >= MaxQuiet /\ tracker'.total + 1 >= MaxQuiet + scroll'.swings
    <3> SUFFICES ASSUME scrollSpent', planner'.attempts["OSCILLATION"] = 0
                 PROVE  tracker'.total >= MaxQuiet /\ tracker'.total + 1 >= MaxQuiet + scroll'.swings
      OBVIOUS
    <3>1. CASE scrollSpent
      <4>1. tracker.total >= MaxQuiet /\ tracker.total + 1 >= MaxQuiet + scroll.swings
        BY <1>7, <3>1 DEF ScrollInv
      <4> QED BY <1>3, <1>5, <2>1, <2>2, <4>1 DEF NoScroll
    <3>2. CASE ~scrollSpent
      <4>1. stagnation' = "NO_EFFECT"
        BY <1>6, <1>7, <3>2
      <4>2. scroll'.run >= MaxQuiet /\ scroll'.swings = 1
        BY <1>6, <2>2, <2>4, <4>1
      <4> QED BY <2>1, <2>2, <2>3, <4>2
    <3> QED BY <3>1, <3>2
  <2>6. pc' \in {"propose", "gates", "act"} /\ stagnation' = "OSCILLATION" =>
          planner'.attempts["OSCILLATION"] >= 1
    <3> SUFFICES ASSUME pc' = "propose", stagnation' = "OSCILLATION",
                        planner'.attempts["OSCILLATION"] = 0
                 PROVE  FALSE
      BY <1>1, <1>7 DEF Categories, Verdicts
    <3>1. scrollSpent
      BY <1>7
    <3>2. tracker'.total + 1 >= MaxQuiet + MaxSwings
      <4>1. scrollSpent'
        BY <3>1 DEF Observe
      <4> QED BY <1>6, <2>1, <2>2, <2>5, <4>1 DEF MaxSwings
    <3> QED BY <1>4, <2>1, <3>2 DEF MaxSwings
  <2> QED BY <2>3, <2>4, <2>5, <2>6 DEF ScrollInv
<1>13. RecoveryInv'
  <2>1. \A c \in Verdicts : /\ planner.attempts[c] \in Nat /\ verdicts[c] \in Nat
                            /\ planner'.attempts[c] \in Nat
                            /\ planner'.attempts[c] >= planner.attempts[c]
    BY <1>7 DEF TypeOK, Categories
  <2>2. Running
    BY <1>1 DEF Running
  <2>3. verdicts' = verdicts /\ calls' = calls
    BY <1>1
  <2>4. RecoveryInv
    OBVIOUS
  <2> HIDE DEF counted, IInv, HorizonInv
  <2>5. \A c \in Verdicts : /\ verdicts'[c] <= Budget[c]
                            /\ verdicts'[c] <= planner'.attempts[c]
    <3>1. \A c \in Verdicts : /\ verdicts[c] <= Budget[c]
                              /\ verdicts[c] <= planner.attempts[c]
      BY <2>2, <2>4 DEF RecoveryInv
    <3> QED BY <2>1, <2>3, <3>1
  <2>6. Len(calls') <= verdicts'["NO_EFFECT"] + verdicts'["EFFECT_UNVERIFIABLE"]
    BY <2>2, <2>3, <2>4 DEF RecoveryInv
  <2>7. \A i \in DOMAIN calls' : i <= 2 => calls'[i].strategy = "REPERCEIVE"
    BY <2>2, <2>3, <2>4 DEF RecoveryInv
  <2>8. EngineAbortsOnlyRaw'
    BY <2>3, <2>4 DEF RecoveryInv, EngineAbortsOnlyRaw
  <2> QED BY <2>5, <2>6, <2>7, <2>8 DEF RecoveryInv
<1> QED BY <1>9, <1>10, <1>11, <1>12, <1>13

\* A step of the cycle that observes nothing and judges no effect.
LEMMA QuietHolds ==
  ASSUME IInv, Running,
         UNCHANGED <<scrollSpent, memory, calls, runs, fruitless, verdicts>>,
         pc' \in {"top", "gates", "act", "parked", "over"},
         pc' \in {"gates", "act"} => pc # "top",
         step' \in 0 .. MaxSteps, retry' \in Nat,
         kind' \in Kinds, proposed' \in Kinds,
         dispatched' \in BOOLEAN, acted' \in BOOLEAN,
         stored' \in {stored, NoRecord},
         planner' \in [attempts : [Categories -> Nat], strategy : [Categories -> Strategies]],
         \A c \in Verdicts : planner'.attempts[c] = planner.attempts[c],
         StepInv'
  PROVE  IInv'
<1> USE DEF IInv, HorizonInv
<1>1. TypeOK'
  <2>1. NoRecord \in [run : 0 .. MaxRuns, counters : Counters]
    BY HorizonAssumption DEF NoRecord, ZeroCounters, Counters
  <2>2. stored' \in [run : 0 .. MaxRuns, counters : Counters]
    BY <2>1 DEF TypeOK
  <2> QED BY <2>2 DEF TypeOK, memory
<1>2. StallInv'
  BY DEF StallInv, Running, memory
<1>3. ScrollInv'
  BY DEF ScrollInv, Running, memory, Verdicts
<1>4. RecoveryInv'
  BY DEF RecoveryInv, EngineAbortsOnlyRaw
<1> QED BY <1>1, <1>2, <1>3, <1>4

\* The turn of the provider, the gates, and an action whose effect is known.
LEMMA CycleHolds ==
  ASSUME IInv,
         \/ OutOfSteps \/ Unsupported \/ Propose
         \/ Refuse \/ Park \/ Dispatch
         \/ ExecutionFails \/ AlreadyThere \/ EffectVerified
  PROVE  IInv'
<1>0. /\ TypeOK /\ StepInv
      /\ step \in 0 .. MaxSteps /\ MaxSteps \in Nat /\ retry \in Nat
      /\ kind \in Kinds /\ proposed \in Kinds /\ "none" \in Kinds /\ Actions \subseteq Kinds
      /\ dispatched \in BOOLEAN /\ acted \in BOOLEAN
      /\ tracker.actions \in Nat
      /\ planner \in [attempts : [Categories -> Nat], strategy : [Categories -> Strategies]]
  BY HorizonAssumption DEF IInv, HorizonInv, TypeOK, Kinds, Counters
<1> USE <1>0
<1> USE DEF memory, recovery, history, Leave, End, Again, EndIf, Record, CountTurn
<1>1. CASE OutOfSteps
  <2>1. StepInv'
    BY <1>1 DEF OutOfSteps, StepInv, ActionsAreSteps
  <2> QED BY <1>1, <2>1, QuietHolds DEF OutOfSteps, Running
<1>2. CASE Unsupported
  <2>1. StepInv' /\ step' \in 0 .. MaxSteps
    BY <1>2 DEF Unsupported, StepInv, ActionsAreSteps
  <2> QED BY <1>2, <2>1, QuietHolds DEF Unsupported, Running
<1>3. CASE Propose
  <2>1. StepInv' /\ step' \in 0 .. MaxSteps
    BY <1>3 DEF Propose, StepInv, ActionsAreSteps
  <2>2. kind' \in Kinds /\ proposed' \in Kinds
    BY <1>3 DEF Propose
  <2>3. pc' \in {"top", "gates"} /\ stored' = stored
    BY <1>3 DEF Propose
  <2> QED BY <1>3, <2>1, <2>2, <2>3, QuietHolds DEF Propose, Running
<1>4. CASE Refuse
  <2>1. StepInv'
    BY <1>4 DEF Refuse, StepInv, ActionsAreSteps
  <2> QED BY <1>4, <2>1, QuietHolds DEF Refuse, Running
<1>5. CASE Park
  <2>1. StepInv'
    BY <1>5 DEF Park, StepInv, ActionsAreSteps
  <2> QED BY <1>5, <2>1, QuietHolds DEF Park, Running
<1>6. CASE Dispatch
  <2>1. StepInv'
    BY <1>6 DEF Dispatch, StepInv, ActionsAreSteps
  <2> QED BY <1>6, <2>1, QuietHolds DEF Dispatch, Running
<1>7. CASE ExecutionFails
  <2>1. StepInv'
    BY <1>7 DEF ExecutionFails, StepInv, ActionsAreSteps
  <2> QED BY <1>7, <2>1, QuietHolds DEF ExecutionFails, Running
<1>8. CASE AlreadyThere
  <2>1. StepInv'
    BY <1>8 DEF AlreadyThere, StepInv, ActionsAreSteps
  <2> QED BY <1>8, <2>1, QuietHolds DEF AlreadyThere, Running
<1>9. CASE EffectVerified
  <2>1. StepInv'
    BY <1>9 DEF EffectVerified, StepInv, ActionsAreSteps
  <2> QED BY <1>9, <2>1, QuietHolds DEF EffectVerified, Running
<1> QED BY <1>1, <1>2, <1>3, <1>4, <1>5, <1>6, <1>7, <1>8, <1>9

\* An answer or an action for a page that is no longer there.
LEMMA StaleHolds ==
  ASSUME IInv, StaleAnswer \/ NotFresh
  PROVE  IInv'
<1>0. /\ TypeOK /\ StepInv
      /\ step \in 0 .. MaxSteps /\ MaxSteps \in Nat /\ retry \in Nat
      /\ kind \in Kinds /\ proposed \in Kinds /\ "none" \in Kinds
      /\ dispatched \in BOOLEAN /\ acted \in BOOLEAN
      /\ tracker.actions \in Nat
  BY HorizonAssumption DEF IInv, HorizonInv, TypeOK, Kinds, Counters
<1>1. /\ planner' \in [attempts : [Categories -> Nat], strategy : [Categories -> Strategies]]
      /\ \A c \in Verdicts : planner'.attempts[c] = planner.attempts[c]
  <2>1. Plan("STALE_PERCEPTION") /\ "STALE_PERCEPTION" \in Categories
    BY DEF StaleAnswer, NotFresh, Categories
  <2>2. PICK c \in Categories : c = "STALE_PERCEPTION" /\ Plan(c)
    BY <2>1
  <2>3. Verdicts \subseteq Categories \ {c}
    BY <2>2 DEF Categories, Verdicts
  <2> QED BY <1>0, <2>2, <2>3, Planned
<1> USE <1>0, <1>1
<1> USE DEF memory, history, Leave, End, Again, EndIf, Record, CountTurn
<1>2. CASE StaleAnswer
  <2>1. StepInv' /\ step' \in 0 .. MaxSteps
    BY <1>2 DEF StaleAnswer, StepInv, ActionsAreSteps
  <2>2. pc' \in {"top", "over"} /\ proposed' = "none" /\ stored' \in {stored, NoRecord}
    BY <1>2 DEF StaleAnswer
  <2> QED BY <1>2, <2>1, <2>2, QuietHolds DEF StaleAnswer, Running
<1>3. CASE NotFresh
  <2>1. StepInv'
    BY <1>3 DEF NotFresh, StepInv, ActionsAreSteps
  <2>2. pc' \in {"top", "over"} /\ proposed' = "none" /\ stored' \in {stored, NoRecord}
    BY <1>3 DEF NotFresh
  <2> QED BY <1>3, <2>1, <2>2, QuietHolds DEF NotFresh, Running
<1> QED BY <1>2, <1>3

\* A verdict that goes on is within its budget, and was planned for.
LEMMA VerdictCounted ==
  ASSUME IInv, Running, NEW c \in Verdicts, Plan(c),
         verdicts' = [verdicts EXCEPT ![c] = @ + 1]
  PROVE  /\ planner' \in [attempts : [Categories -> Nat], strategy : [Categories -> Strategies]]
         /\ verdicts' \in [Verdicts -> Nat]
         /\ \A d \in Categories : planner'.attempts[d] >= planner.attempts[d]
         /\ \A d \in Verdicts : verdicts'[d] <= planner'.attempts[d]
         /\ ~Exhausted(c) => \A d \in Verdicts : verdicts'[d] <= Budget[d]
<1>1. /\ TypeOK /\ c \in Categories /\ Verdicts \subseteq Categories
      /\ planner.attempts \in [Categories -> Nat] /\ verdicts \in [Verdicts -> Nat]
      /\ \A d \in Verdicts : verdicts[d] <= Budget[d] /\ verdicts[d] <= planner.attempts[d]
  BY DEF IInv, HorizonInv, RecoveryInv, TypeOK, Categories
<1>2. /\ planner' \in [attempts : [Categories -> Nat], strategy : [Categories -> Strategies]]
      /\ planner'.attempts[c] = planner.attempts[c] + 1
      /\ \A d \in Categories \ {c} : planner'.attempts[d] = planner.attempts[d]
  BY <1>1, Planned
<1>3. /\ verdicts' \in [Verdicts -> Nat]
      /\ verdicts'[c] = verdicts[c] + 1
      /\ \A d \in Verdicts \ {c} : verdicts'[d] = verdicts[d]
  BY <1>1
<1>4. \A d \in Categories : planner'.attempts[d] >= planner.attempts[d]
  BY <1>1, <1>2
<1>5. \A d \in Verdicts : verdicts'[d] <= planner'.attempts[d]
  BY <1>1, <1>2, <1>3
<1>6. ASSUME ~Exhausted(c) PROVE \A d \in Verdicts : verdicts'[d] <= Budget[d]
  <2>1. planner.attempts[c] + 1 <= Budget[c]
    BY <1>1, <1>6, InBudget
  <2>2. Budget[c] \in Nat
    BY <1>1 DEF Budget
  <2> QED BY <1>1, <1>3, <2>1, <2>2
<1> QED BY <1>2, <1>3, <1>4, <1>5, <1>6

\* An action without a known effect; what RecoveryEngine says of it is apart.
LEMMA VerdictHolds ==
  ASSUME IInv, pc = "act", NEW c \in Verdicts, Plan(c),
         verdicts' = [verdicts EXCEPT ![c] = @ + 1],
         UNCHANGED <<step, dispatched, scrollSpent, memory, runs, acted, fruitless>>,
         kind' = proposed, proposed' = "none", retry' = retry + 1,
         pc' \in {"top", "over"}, stored' \in {stored, NoRecord},
         calls' \in Seq(Decisions), RecoveryInv'
  PROVE  IInv'
<1>0. /\ TypeOK /\ StepInv /\ StallInv /\ ScrollInv /\ Running
      /\ retry \in Nat /\ proposed \in Kinds
      /\ step \in 0 .. MaxSteps /\ MaxSteps \in Nat /\ tracker.actions \in Nat
  BY HorizonAssumption DEF IInv, HorizonInv, TypeOK, Running, Counters
<1>1. /\ planner' \in [attempts : [Categories -> Nat], strategy : [Categories -> Strategies]]
      /\ verdicts' \in [Verdicts -> Nat]
      /\ planner'.attempts["OSCILLATION"] >= planner.attempts["OSCILLATION"]
      /\ planner.attempts["OSCILLATION"] \in Nat
      /\ planner'.attempts["OSCILLATION"] \in Nat
  BY <1>0, VerdictCounted DEF Categories, Verdicts, TypeOK
<1>2. TypeOK'
  <2>1. NoRecord \in [run : 0 .. MaxRuns, counters : Counters]
    BY HorizonAssumption DEF NoRecord, ZeroCounters, Counters
  <2>2. stored' \in [run : 0 .. MaxRuns, counters : Counters]
    BY <1>0, <2>1 DEF TypeOK
  <2>3. proposed' \in Kinds /\ retry' \in Nat
    BY <1>0 DEF Kinds
  <2> QED BY <1>0, <1>1, <2>2, <2>3 DEF TypeOK, memory
<1>3. StepInv'
  BY <1>0 DEF StepInv, ActionsAreSteps, memory
<1>4. StallInv'
  BY <1>0 DEF StallInv, Running, memory
<1>5. ScrollInv'
  BY <1>0, <1>1 DEF ScrollInv, memory
<1> QED BY <1>2, <1>3, <1>4, <1>5 DEF IInv, HorizonInv

\* An effect that could not be read.
LEMMA UnreadHolds ==
  ASSUME IInv, EffectUnread
  PROVE  IInv'
<1> DEFINE c == "EFFECT_UNVERIFIABLE"
<1>0. /\ Plan(c) /\ verdicts' = [verdicts EXCEPT ![c] = @ + 1]
      /\ UNCHANGED <<step, dispatched, scrollSpent, memory, calls, runs, acted, fruitless>>
      /\ pc = "act" /\ kind' = proposed /\ retry' = retry + 1
      /\ c \in Verdicts /\ Running
  BY DEF EffectUnread, Record, Verdicts, Running
<1>1. /\ pc' \in {"top", "over"} /\ proposed' = "none" /\ stored' \in {stored, NoRecord}
      /\ pc' = "top" => ~Exhausted(c)
  BY DEF EffectUnread, EndIf, End, Again, Leave
<1> HIDE DEF c
<1>2. /\ \A d \in Verdicts : verdicts'[d] <= planner'.attempts[d]
      /\ ~Exhausted(c) => \A d \in Verdicts : verdicts'[d] <= Budget[d]
      /\ verdicts' \in [Verdicts -> Nat]
  BY <1>0, VerdictCounted
<1>3. /\ TypeOK /\ RecoveryInv /\ calls \in Seq(Decisions) /\ Len(calls) \in Nat
      /\ verdicts \in [Verdicts -> Nat]
  BY DEF IInv, HorizonInv, TypeOK
<1>4. Len(calls) <= verdicts'["NO_EFFECT"] + verdicts'["EFFECT_UNVERIFIABLE"]
  <2>1. \A d \in Verdicts : verdicts'[d] \in Nat /\ verdicts[d] \in Nat /\ verdicts'[d] >= verdicts[d]
    BY <1>0, <1>3
  <2> QED BY <1>0, <1>3, <2>1 DEF RecoveryInv, Verdicts
<1>5. RecoveryInv'
  BY <1>0, <1>1, <1>2, <1>3, <1>4 DEF RecoveryInv, EngineAbortsOnlyRaw, Running
<1> QED BY <1>0, <1>1, <1>3, <1>5, VerdictHolds

\* An action without effect: the planner ends the run before the engine would.
LEMMA NoEffectHolds ==
  ASSUME IInv, NoEffect
  PROVE  IInv'
<1> PICK code \in {"NO_EFFECT", "EFFECT_UNVERIFIABLE"} :
      LET category == IF code = "NO_EFFECT" /\ stagnation = "OSCILLATION"
                      THEN "OSCILLATION" ELSE code
      IN  /\ verdicts' = [verdicts EXCEPT ![category] = @ + 1]
          /\ Plan(category)
          /\ IF Exhausted(category) \/ retry' > MaxRetries
             THEN End /\ UNCHANGED calls
             ELSE \E g \in Subgoals, t \in Targets :
                    LET key == [code |-> code, subgoal |-> g, target |-> t]
                    IN  /\ calls' = Append(calls, [key |-> key, strategy |-> Decide(key)])
                        /\ EndIf(Decide(key) = "ABORT")
  BY DEF NoEffect
<1> DEFINE c == IF code = "NO_EFFECT" /\ stagnation = "OSCILLATION"
                THEN "OSCILLATION" ELSE code
<1>0. /\ Plan(c) /\ verdicts' = [verdicts EXCEPT ![c] = @ + 1]
      /\ c \in Verdicts
  BY DEF Verdicts
<1>1. /\ UNCHANGED <<step, dispatched, scrollSpent, memory, runs, acted, fruitless>>
      /\ pc = "act" /\ kind' = proposed /\ retry' = retry + 1
      /\ Running
  BY DEF NoEffect, Record, Running
<1>2. \/ End /\ UNCHANGED calls
      \/ /\ ~Exhausted(c)
         /\ \E g \in Subgoals, t \in Targets :
              LET key == [code |-> code, subgoal |-> g, target |-> t]
              IN  /\ calls' = Append(calls, [key |-> key, strategy |-> Decide(key)])
                  /\ EndIf(Decide(key) = "ABORT")
  OBVIOUS
<1>3. ~Exhausted(c) => c \in {"NO_EFFECT", "EFFECT_UNVERIFIABLE"}
  <2> SUFFICES ASSUME c = "OSCILLATION", ~Exhausted(c) PROVE FALSE
    BY <1>0 DEF Verdicts
  <2>1. stagnation = "OSCILLATION"
    OBVIOUS
  <2>2. planner.attempts["OSCILLATION"] >= 1
    BY <1>1, <2>1 DEF IInv, HorizonInv, ScrollInv
  <2>3. planner.attempts["OSCILLATION"] \in Nat
    BY DEF IInv, TypeOK, Categories, Verdicts
  <2>4. planner.attempts["OSCILLATION"] + 1 <= Budget["OSCILLATION"]
    BY InBudget DEF Categories, Verdicts
  <2> QED BY <2>2, <2>3, <2>4, BudgetIs
<1> HIDE DEF c
<1>4. /\ TypeOK /\ RecoveryInv /\ calls \in Seq(Decisions) /\ Len(calls) \in Nat
      /\ verdicts \in [Verdicts -> Nat]
      /\ \A i \in DOMAIN calls : i <= 2 => calls[i].strategy = "REPERCEIVE"
      /\ EngineAbortsOnlyRaw
      /\ Len(calls) <= verdicts["NO_EFFECT"] + verdicts["EFFECT_UNVERIFIABLE"]
  BY <1>1 DEF IInv, HorizonInv, TypeOK, RecoveryInv
<1>5. /\ \A d \in Verdicts : verdicts'[d] <= planner'.attempts[d]
      /\ ~Exhausted(c) => \A d \in Verdicts : verdicts'[d] <= Budget[d]
      /\ verdicts' \in [Verdicts -> Nat]
  BY <1>0, <1>1, VerdictCounted
<1>6. CASE End /\ UNCHANGED calls
  <2>1. pc' = "over" /\ proposed' = "none" /\ stored' = NoRecord
    BY <1>6 DEF End, Leave
  <2>2. RecoveryInv'
    BY <1>4, <1>6, <2>1 DEF RecoveryInv, EngineAbortsOnlyRaw, Running
  <2> QED BY <1>0, <1>1, <1>4, <1>6, <2>1, <2>2, VerdictHolds
<1>7. CASE /\ ~Exhausted(c)
           /\ \E g \in Subgoals, t \in Targets :
                LET key == [code |-> code, subgoal |-> g, target |-> t]
                IN  /\ calls' = Append(calls, [key |-> key, strategy |-> Decide(key)])
                    /\ EndIf(Decide(key) = "ABORT")
  <2> PICK key \in Failures :
        /\ calls' = Append(calls, [key |-> key, strategy |-> Decide(key)])
        /\ EndIf(Decide(key) = "ABORT")
    BY <1>7 DEF Failures, Verdicts
  <2>1. Len(calls) + 1 <= verdicts'["NO_EFFECT"] + verdicts'["EFFECT_UNVERIFIABLE"]
    <3>1. c = "NO_EFFECT" \/ c = "EFFECT_UNVERIFIABLE"
      BY <1>3, <1>7
    <3>2. CASE c = "NO_EFFECT"
      <4>1. /\ verdicts'["NO_EFFECT"] = verdicts["NO_EFFECT"] + 1
            /\ verdicts'["EFFECT_UNVERIFIABLE"] = verdicts["EFFECT_UNVERIFIABLE"]
            /\ verdicts["NO_EFFECT"] \in Nat /\ verdicts["EFFECT_UNVERIFIABLE"] \in Nat
        BY <1>0, <1>4, <3>2 DEF Verdicts
      <4> QED BY <1>4, <4>1
    <3>3. CASE c = "EFFECT_UNVERIFIABLE"
      <4>1. /\ verdicts'["NO_EFFECT"] = verdicts["NO_EFFECT"]
            /\ verdicts'["EFFECT_UNVERIFIABLE"] = verdicts["EFFECT_UNVERIFIABLE"] + 1
            /\ verdicts["NO_EFFECT"] \in Nat /\ verdicts["EFFECT_UNVERIFIABLE"] \in Nat
        BY <1>0, <1>4, <3>3 DEF Verdicts
      <4> QED BY <1>4, <4>1
    <3> QED BY <3>1, <3>2, <3>3
  <2>2. Len(calls) <= 2
    <3>1. verdicts'["NO_EFFECT"] <= 2 /\ verdicts'["EFFECT_UNVERIFIABLE"] <= 1
      BY <1>5, <1>7, BudgetIs DEF Verdicts
    <3>2. verdicts'["NO_EFFECT"] \in Nat /\ verdicts'["EFFECT_UNVERIFIABLE"] \in Nat
      BY <1>5 DEF Verdicts
    <3> QED BY <1>4, <2>1, <3>1, <3>2
  <2>3. /\ ~RawShaped(key) => Decide(key) \in {"REPERCEIVE", "REPLAN_SUBGOAL"}
        /\ ~RawShaped(key) /\ Len(calls) <= 1 => Decide(key) = "REPERCEIVE"
    BY <1>4, <2>2, NoAbort
  <2>4. RawShaped(key) => Decide(key) = "ABORT"
    BY DEF Decide
  <2>5. /\ Decide(key) # "ABORT" => pc' = "top" /\ proposed' = "none" /\ stored' = stored
        /\ Decide(key) = "ABORT" => pc' = "over" /\ proposed' = "none" /\ stored' = NoRecord
    BY DEF EndIf, End, Again, Leave
  <2> DEFINE new == [key |-> key, strategy |-> Decide(key)]
  <2>6. new.strategy = Decide(key) /\ new.key = key
    OBVIOUS
  <2>7. new \in Decisions /\ calls' = Append(calls, new)
    BY <2>3, <2>4 DEF Decisions
  <2> HIDE DEF new
  <2>8. /\ calls' \in Seq(Decisions) /\ Len(calls') = Len(calls) + 1
        /\ \A i \in DOMAIN calls' : IF i = Len(calls) + 1 THEN calls'[i] = new
                                    ELSE i \in DOMAIN calls /\ calls'[i] = calls[i]
    BY <1>4, <2>7
  <2>9. /\ pc' = "top" => \A i \in DOMAIN calls' : i <= 2 => calls'[i].strategy = "REPERCEIVE"
        /\ EngineAbortsOnlyRaw'
    <3> SUFFICES ASSUME NEW i \in DOMAIN calls'
                 PROVE  /\ pc' = "top" /\ i <= 2 => calls'[i].strategy = "REPERCEIVE"
                        /\ calls'[i].strategy = "ABORT" => RawShaped(calls'[i].key)
      BY DEF EngineAbortsOnlyRaw, RawShaped
    <3>1. CASE i = Len(calls) + 1
      <4>1. calls'[i].strategy = Decide(key) /\ calls'[i].key = key
        BY <2>6, <2>8, <3>1
      <4> QED BY <1>4, <2>3, <2>4, <2>5, <3>1, <4>1
    <3>2. CASE i # Len(calls) + 1
      BY <1>4, <2>8, <3>2 DEF EngineAbortsOnlyRaw
    <3> QED BY <3>1, <3>2
  <2>10. RecoveryInv'
    BY <1>5, <1>7, <2>1, <2>5, <2>8, <2>9 DEF RecoveryInv, Running
  <2> QED BY <1>0, <1>1, <2>5, <2>8, <2>10, VerdictHolds
<1> QED BY <1>2, <1>6, <1>7

\* The invariant holds in every state of every run.
THEOREM HorizonCorrect == Spec => []IInv
<1>1. IInv /\ [Next]_vars => IInv'
  <2> SUFFICES ASSUME IInv, [Next]_vars PROVE IInv'
    OBVIOUS
  <2>1. CASE Start \/ Stop \/ Die
    BY <2>1, RunsHold
  <2>2. CASE Observe
    BY <2>2, ObserveHolds
  <2>3. CASE StaleAnswer \/ NotFresh
    BY <2>3, StaleHolds
  <2>4. CASE EffectUnread
    BY <2>4, UnreadHolds
  <2>5. CASE NoEffect
    BY <2>5, NoEffectHolds
  <2>6. CASE \/ OutOfSteps \/ Unsupported \/ Propose \/ Refuse \/ Park \/ Dispatch
             \/ ExecutionFails \/ AlreadyThere \/ EffectVerified
    BY <2>6, CycleHolds
  <2>7. CASE UNCHANGED vars
    BY <2>7 DEF vars, loop, memory, recovery, history, IInv, TypeOK, HorizonInv, StepInv,
                ActionsAreSteps, StallInv, ScrollInv, RecoveryInv, EngineAbortsOnlyRaw, Running
  <2> QED BY <2>1, <2>2, <2>3, <2>4, <2>5, <2>6, <2>7 DEF Next, Cycle
<1> QED BY InitHolds, <1>1, PTL DEF Spec

\* The counters and records of a run keep their types, and no run takes more
\* steps than its bound (longHorizon.ts, agentLoop.ts StepsLeft).
THEOREM TypeCorrect == Spec => []TypeOK
<1>1. IInv => TypeOK
  BY DEF IInv
<1> QED BY <1>1, HorizonCorrect, PTL

\* The tracker never counts more actions than the loop has steps.
THEOREM ActionsBounded == Spec => []ActionsAreSteps
<1>1. IInv => ActionsAreSteps
  BY DEF IInv, HorizonInv, StepInv
<1> QED BY <1>1, HorizonCorrect, PTL

\* A run dispatches at most MaxStall actions that teach it nothing, whatever it
\* learns in between.
THEOREM FruitlessActionsBounded == Spec => []FruitlessBounded
<1>1. IInv => FruitlessBounded
  <2> SUFFICES ASSUME IInv PROVE FruitlessBounded
    OBVIOUS
  <2>1. /\ fruitless \in Nat /\ tracker.total \in Nat /\ MaxStall \in Nat
        /\ fruitless <= tracker.total /\ tracker.total <= MaxStall
        /\ Running => tracker.total < MaxStall
    BY HorizonAssumption DEF IInv, HorizonInv, TypeOK, StallInv, Counters
  <2> QED BY <2>1 DEF FruitlessBounded, Running
<1> QED BY <1>1, HorizonCorrect, PTL

\* A run goes on only within the budgets of its failed effects.
THEOREM BudgetsHold == Spec => []BudgetsEndRun
<1>1. IInv => BudgetsEndRun
  BY DEF IInv, HorizonInv, RecoveryInv, BudgetsEndRun
<1> QED BY <1>1, HorizonCorrect, PTL

\* No budget of RecoveryEngine ends a run: the planner has always ended it before.
THEOREM EngineSilent == Spec => []EngineAbortsOnlyRaw
<1>1. IInv => EngineAbortsOnlyRaw
  BY DEF IInv, HorizonInv, RecoveryInv
<1> QED BY <1>1, HorizonCorrect, PTL
=============================================================================
