-------------------------- MODULE PlanEngineProofs --------------------------
(***************************************************************************)
(* What holds for every plan, bound and verdict: the types, the order in   *)
(* which subgoals are taken, that completion is announced when it is       *)
(* earned, and that the machine refuses nothing but a verdict.             *)
(***************************************************************************)
EXTENDS PlanEngine, TLAPS

IInv == TypeOK /\ PlanInv

\* What Refresh leaves alone and what it releases.
LEMMA Refreshed ==
  ASSUME NEW s \in [Subgoals -> SubgoalStates]
  PROVE  /\ Refresh(s) \in [Subgoals -> SubgoalStates]
         /\ \A g \in Subgoals :
              \/ Refresh(s)[g] = s[g]
              \/ /\ s[g] = "PENDING" /\ Refresh(s)[g] = "READY"
                 /\ \A p \in given.prereqs[g] : s[p] = "COMPLETED"
BY DEF Refresh, PrerequisitesMet, SubgoalStates

\* The completion of a subgoal that was started keeps the order of the graph.
LEMMA Completed ==
  ASSUME TypeOK, GraphInv, NEW g \in Subgoals, sub[g] \in {"IN_PROGRESS", "COMPLETED"},
         Complete(g), given' = given
  PROVE  /\ sub' \in [Subgoals -> SubgoalStates]
         /\ proven' \subseteq Subgoals
         /\ \A h \in Subgoals :
              /\ sub'[h] \in {"READY", "IN_PROGRESS", "COMPLETED"} =>
                    given'.prereqs[h] \subseteq proven'
              /\ sub'[h] = "COMPLETED" => h \in proven'
              /\ sub[h] \in {"IN_PROGRESS", "COMPLETED"} =>
                    sub'[h] \in {"IN_PROGRESS", "COMPLETED"}
         /\ proven \subseteq proven' /\ verified' = verified
<1> DEFINE s == [sub EXCEPT ![g] = "COMPLETED"]
<1>1. s \in [Subgoals -> SubgoalStates]
  BY DEF TypeOK, PlanType, SubgoalStates
<1>2. sub' = Refresh(s) /\ proven' = proven \cup {g} /\ verified' = verified
  BY DEF Complete
<1>3. given.prereqs \in [Subgoals -> SUBSET Subgoals]
  BY PlanAssumption DEF TypeOK, PlanType
<1>4. \A h \in Subgoals : s[h] = "COMPLETED" => h \in proven'
  BY <1>2 DEF TypeOK, PlanType, GraphInv
<1>5. \A h \in Subgoals :
        s[h] \in {"READY", "IN_PROGRESS", "COMPLETED"} => given.prereqs[h] \subseteq proven
  BY DEF TypeOK, PlanType, GraphInv
<1>6. \A h \in Subgoals :
        \/ sub'[h] = s[h]
        \/ s[h] = "PENDING" /\ sub'[h] = "READY" /\ \A p \in given.prereqs[h] : s[p] = "COMPLETED"
  BY <1>1, <1>2, Refreshed
<1>7. ASSUME NEW h \in Subgoals, sub'[h] \in {"READY", "IN_PROGRESS", "COMPLETED"}
      PROVE  given'.prereqs[h] \subseteq proven'
  <2>1. CASE sub'[h] = s[h]
    BY <1>2, <1>5, <1>7, <2>1
  <2>2. CASE sub'[h] = "READY" /\ \A p \in given.prereqs[h] : s[p] = "COMPLETED"
    BY <1>3, <1>4, <2>2
  <2> QED BY <1>6, <2>1, <2>2
<1>8. ASSUME NEW h \in Subgoals, sub'[h] = "COMPLETED"
      PROVE  h \in proven'
  BY <1>4, <1>6, <1>8
<1>9. ASSUME NEW h \in Subgoals, sub[h] \in {"IN_PROGRESS", "COMPLETED"}
      PROVE  sub'[h] \in {"IN_PROGRESS", "COMPLETED"}
  <2>1. s[h] \in {"IN_PROGRESS", "COMPLETED"}
    BY <1>9 DEF TypeOK, PlanType
  <2> QED BY <1>6, <2>1
<1>10. sub' \in [Subgoals -> SubgoalStates]
  BY <1>1, <1>2, Refreshed
<1> QED BY <1>2, <1>7, <1>8, <1>9, <1>10 DEF TypeOK, PlanType

\* A run starts in the order of its plan.
LEMMA InitHolds == Init => IInv
<1> SUFFICES ASSUME Init PROVE IInv
  OBVIOUS
<1>1. given.prereqs \in [Subgoals -> SUBSET Subgoals]
  BY PlanAssumption DEF Init
<1>2. PlanType
  BY <1>1 DEF Init, PlanType, SubgoalStates
<1>3. LoopType /\ engine \in EngineStates /\ verified \in BOOLEAN
  <2>1. step \in 0 .. MaxSteps /\ retry \in Nat
    BY PlanAssumption DEF Init
  <2> QED BY <2>1 DEF Init, LoopType, EngineStates
<1>4. ctx \in Contexts
  BY DEF Init, Contexts, EmptyContext
<1>5. GraphInv
  <2>1. \A g \in Subgoals : sub[g] = IF given.prereqs[g] = {} THEN "READY" ELSE "PENDING"
    BY DEF Init
  <2>2. pc = "top" /\ proven = {}
    BY DEF Init
  <2> QED BY <2>1, <2>2 DEF GraphInv
<1>6. ContextInv /\ StepInv /\ CompletedIsEarned
  BY DEF Init, ContextInv, StepInv, CompletedIsEarned
<1> QED BY <1>2, <1>3, <1>4, <1>5, <1>6 DEF IInv, PlanInv, TypeOK

\* The actions that leave the graph alone and announce nothing new.
LEMMA LoopSteps ==
  ASSUME IInv,
         \/ BeginCycle \/ CheckGoal \/ Propose \/ Ground
         \/ ValidateM5 \/ PassCriticAndPrivacy \/ AssessRisk \/ CheckDispatch
         \/ Execute \/ EffectUnobservable \/ EffectObserved \/ FinishCycle
         \/ Stop
  PROVE  IInv'
<1> USE PlanAssumption
<1> USE DEF IInv, PlanInv
<1>1. CASE BeginCycle
  <2>1. PlanType' /\ LoopType' /\ engine' \in EngineStates
    BY <1>1 DEF BeginCycle, history, StepsLeft, Goto, End, plan, machine, loop, TypeOK, PlanType, LoopType, EngineStates, StepInv
  <2>2. ctx' \in Contexts /\ verified' \in BOOLEAN
    BY <1>1 DEF BeginCycle, history, StepsLeft, Goto, End, plan, machine, loop, TypeOK, LoopType, Contexts
  <2>3. GraphInv' /\ CompletedIsEarned'
    BY <1>1 DEF BeginCycle, history, StepsLeft, Goto, End, plan, machine, loop, TypeOK, PlanType, GraphInv, CompletedIsEarned
  <2>4. ContextInv' /\ StepInv'
    BY <1>1 DEF BeginCycle, history, StepsLeft, Goto, End, plan, machine, loop, TypeOK, LoopType, Contexts, ContextInv, StepInv
  <2> QED BY <2>1, <2>2, <2>3, <2>4 DEF TypeOK
<1>2. CASE CheckGoal
  <2>1. PlanType' /\ LoopType' /\ engine' \in EngineStates
    BY <1>2 DEF CheckGoal, Goto, End, MayComplete, MayEnter, plan, loop, TypeOK, PlanType, LoopType, EngineStates, StepInv
  <2>2. ctx' \in Contexts /\ verified' \in BOOLEAN
    BY <1>2 DEF CheckGoal, Goto, End, MayComplete, MayEnter, plan, loop, TypeOK, LoopType, Contexts
  <2>3. GraphInv' /\ CompletedIsEarned'
    BY <1>2 DEF CheckGoal, Goto, End, MayComplete, MayEnter, plan, loop, TypeOK, PlanType, GraphInv, CompletedIsEarned
  <2>4. ContextInv' /\ StepInv'
    BY <1>2 DEF CheckGoal, Goto, End, MayComplete, MayEnter, plan, loop, TypeOK, LoopType, Contexts, ContextInv, StepInv
  <2> QED BY <2>1, <2>2, <2>3, <2>4 DEF TypeOK
<1>3. CASE Propose
  <2>1. PlanType' /\ LoopType' /\ engine' \in EngineStates
    BY <1>3 DEF Propose, CountTurn, Goto, End, plan, machine, history, TypeOK, PlanType, LoopType, EngineStates, StepInv
  <2>2. ctx' \in Contexts /\ verified' \in BOOLEAN
    BY <1>3 DEF Propose, CountTurn, Goto, End, plan, machine, history, TypeOK, LoopType, Contexts
  <2>3. GraphInv' /\ CompletedIsEarned'
    BY <1>3 DEF Propose, CountTurn, Goto, End, plan, machine, history, TypeOK, PlanType, GraphInv, CompletedIsEarned
  <2>4. ContextInv' /\ StepInv'
    BY <1>3 DEF Propose, CountTurn, Goto, End, plan, machine, history, TypeOK, LoopType, Contexts, ContextInv, StepInv
  <2> QED BY <2>1, <2>2, <2>3, <2>4 DEF TypeOK
<1>4. CASE Ground
  <2>1. PlanType' /\ LoopType' /\ engine' \in EngineStates
    BY <1>4 DEF Ground, Refuse, Register, MayEnter, GroundedContext, Goto, End, plan, history, TypeOK, PlanType, LoopType, EngineStates, StepInv
  <2>2. ctx' \in Contexts /\ verified' \in BOOLEAN
    BY <1>4 DEF Ground, Refuse, Register, MayEnter, GroundedContext, Goto, End, plan, history, TypeOK, LoopType, Contexts
  <2>3. GraphInv' /\ CompletedIsEarned'
    BY <1>4 DEF Ground, Refuse, Register, MayEnter, GroundedContext, Goto, End, plan, history, TypeOK, PlanType, GraphInv, CompletedIsEarned
  <2>4. ContextInv' /\ StepInv'
    BY <1>4 DEF Ground, Refuse, Register, MayEnter, GroundedContext, Goto, End, plan, history, TypeOK, LoopType, Contexts, ContextInv, StepInv
  <2> QED BY <2>1, <2>2, <2>3, <2>4 DEF TypeOK
<1>5. CASE ValidateM5
  <2>1. PlanType' /\ LoopType' /\ engine' \in EngineStates
    BY <1>5 DEF ValidateM5, Refuse, Register, MayEnter, Goto, End, plan, history, TypeOK, PlanType, LoopType, EngineStates, StepInv
  <2>2. ctx' \in Contexts /\ verified' \in BOOLEAN
    BY <1>5 DEF ValidateM5, Refuse, Register, MayEnter, Goto, End, plan, history, TypeOK, LoopType, Contexts
  <2>3. GraphInv' /\ CompletedIsEarned'
    BY <1>5 DEF ValidateM5, Refuse, Register, MayEnter, Goto, End, plan, history, TypeOK, PlanType, GraphInv, CompletedIsEarned
  <2>4. ContextInv' /\ StepInv'
    BY <1>5 DEF ValidateM5, Refuse, Register, MayEnter, Goto, End, plan, history, TypeOK, LoopType, Contexts, ContextInv, StepInv
  <2> QED BY <2>1, <2>2, <2>3, <2>4 DEF TypeOK
<1>6. CASE PassCriticAndPrivacy
  <2>1. PlanType' /\ LoopType' /\ engine' \in EngineStates
    BY <1>6 DEF PassCriticAndPrivacy, Refuse, Goto, End, plan, machine, history, TypeOK, PlanType, LoopType, EngineStates, StepInv
  <2>2. ctx' \in Contexts /\ verified' \in BOOLEAN
    BY <1>6 DEF PassCriticAndPrivacy, Refuse, Goto, End, plan, machine, history, TypeOK, LoopType, Contexts
  <2>3. GraphInv' /\ CompletedIsEarned'
    BY <1>6 DEF PassCriticAndPrivacy, Refuse, Goto, End, plan, machine, history, TypeOK, PlanType, GraphInv, CompletedIsEarned
  <2>4. ContextInv' /\ StepInv'
    BY <1>6 DEF PassCriticAndPrivacy, Refuse, Goto, End, plan, machine, history, TypeOK, LoopType, Contexts, ContextInv, StepInv
  <2> QED BY <2>1, <2>2, <2>3, <2>4 DEF TypeOK
<1>7. CASE AssessRisk
  <2>1. PlanType' /\ LoopType' /\ engine' \in EngineStates
    BY <1>7 DEF AssessRisk, Refuse, Register, MayEnter, Goto, End, plan, history, TypeOK, PlanType, LoopType, EngineStates, StepInv
  <2>2. ctx' \in Contexts /\ verified' \in BOOLEAN
    BY <1>7 DEF AssessRisk, Refuse, Register, MayEnter, Goto, End, plan, history, TypeOK, LoopType, Contexts
  <2>3. GraphInv' /\ CompletedIsEarned'
    BY <1>7 DEF AssessRisk, Refuse, Register, MayEnter, Goto, End, plan, history, TypeOK, PlanType, GraphInv, CompletedIsEarned
  <2>4. ContextInv' /\ StepInv'
    BY <1>7 DEF AssessRisk, Refuse, Register, MayEnter, Goto, End, plan, history, TypeOK, LoopType, Contexts, ContextInv, StepInv
  <2> QED BY <2>1, <2>2, <2>3, <2>4 DEF TypeOK
<1>8. CASE CheckDispatch
  <2>1. PlanType' /\ LoopType' /\ engine' \in EngineStates
    BY <1>8 DEF CheckDispatch, Goto, End, plan, machine, history, TypeOK, PlanType, LoopType, EngineStates, StepInv
  <2>2. ctx' \in Contexts /\ verified' \in BOOLEAN
    BY <1>8 DEF CheckDispatch, Goto, End, plan, machine, history, TypeOK, LoopType, Contexts
  <2>3. GraphInv' /\ CompletedIsEarned'
    BY <1>8 DEF CheckDispatch, Goto, End, plan, machine, history, TypeOK, PlanType, GraphInv, CompletedIsEarned
  <2>4. ContextInv' /\ StepInv'
    BY <1>8 DEF CheckDispatch, Goto, End, plan, machine, history, TypeOK, LoopType, Contexts, ContextInv, StepInv
  <2> QED BY <2>1, <2>2, <2>3, <2>4 DEF TypeOK
<1>9. CASE Execute
  <2>1. PlanType' /\ LoopType' /\ engine' \in EngineStates
    BY <1>9 DEF Execute, Refuse, Goto, End, plan, history, TypeOK, PlanType, LoopType, EngineStates, StepInv
  <2>2. ctx' \in Contexts /\ verified' \in BOOLEAN
    BY <1>9 DEF Execute, Refuse, Goto, End, plan, history, TypeOK, LoopType, Contexts
  <2>3. GraphInv' /\ CompletedIsEarned'
    BY <1>9 DEF Execute, Refuse, Goto, End, plan, history, TypeOK, PlanType, GraphInv, CompletedIsEarned
  <2>4. ContextInv' /\ StepInv'
    BY <1>9 DEF Execute, Refuse, Goto, End, plan, history, TypeOK, LoopType, Contexts, ContextInv, StepInv
  <2> QED BY <2>1, <2>2, <2>3, <2>4 DEF TypeOK
<1>10. CASE EffectUnobservable
  <2>1. PlanType' /\ LoopType' /\ engine' \in EngineStates
    BY <1>10 DEF EffectUnobservable, Goto, End, plan, machine, history, TypeOK, PlanType, LoopType, EngineStates, StepInv
  <2>2. ctx' \in Contexts /\ verified' \in BOOLEAN
    BY <1>10 DEF EffectUnobservable, Goto, End, plan, machine, history, TypeOK, LoopType, Contexts
  <2>3. GraphInv' /\ CompletedIsEarned'
    BY <1>10 DEF EffectUnobservable, Goto, End, plan, machine, history, TypeOK, PlanType, GraphInv, CompletedIsEarned
  <2>4. ContextInv' /\ StepInv'
    BY <1>10 DEF EffectUnobservable, Goto, End, plan, machine, history, TypeOK, LoopType, Contexts, ContextInv, StepInv
  <2> QED BY <2>1, <2>2, <2>3, <2>4 DEF TypeOK
<1>11. CASE EffectObserved
  <2>1. PlanType' /\ LoopType' /\ engine' \in EngineStates
    BY <1>11 DEF EffectObserved, Goto, plan, loop, history, TypeOK, PlanType, LoopType, EngineStates, StepInv
  <2>2. ctx' \in Contexts /\ verified' \in BOOLEAN
    BY <1>11 DEF EffectObserved, Goto, plan, loop, history, TypeOK, LoopType, Contexts
  <2>3. GraphInv' /\ CompletedIsEarned'
    BY <1>11 DEF EffectObserved, Goto, plan, loop, history, TypeOK, PlanType, GraphInv, CompletedIsEarned
  <2>4. ContextInv' /\ StepInv'
    BY <1>11 DEF EffectObserved, Goto, plan, loop, history, TypeOK, LoopType, Contexts, ContextInv, StepInv
  <2> QED BY <2>1, <2>2, <2>3, <2>4 DEF TypeOK
<1>12. CASE FinishCycle
  <2>1. PlanType' /\ LoopType' /\ engine' \in EngineStates
    BY <1>12 DEF FinishCycle, Goto, End, plan, machine, loop, TypeOK, PlanType, LoopType, EngineStates, StepInv
  <2>2. ctx' \in Contexts /\ verified' \in BOOLEAN
    BY <1>12 DEF FinishCycle, Goto, End, plan, machine, loop, TypeOK, LoopType, Contexts
  <2>3. GraphInv' /\ CompletedIsEarned'
    BY <1>12 DEF FinishCycle, Goto, End, plan, machine, loop, TypeOK, PlanType, GraphInv, CompletedIsEarned
  <2>4. ContextInv' /\ StepInv'
    BY <1>12 DEF FinishCycle, Goto, End, plan, machine, loop, TypeOK, LoopType, Contexts, ContextInv, StepInv
  <2> QED BY <2>1, <2>2, <2>3, <2>4 DEF TypeOK
<1>13. CASE Stop
  <2>1. PlanType' /\ LoopType' /\ engine' \in EngineStates
    BY <1>13 DEF Stop, End, plan, machine, loop, history, TypeOK, PlanType, LoopType, EngineStates, StepInv
  <2>2. ctx' \in Contexts /\ verified' \in BOOLEAN
    BY <1>13 DEF Stop, End, plan, machine, loop, history, TypeOK, LoopType, Contexts
  <2>3. GraphInv' /\ CompletedIsEarned'
    BY <1>13 DEF Stop, End, plan, machine, loop, history, TypeOK, PlanType, GraphInv, CompletedIsEarned
  <2>4. ContextInv' /\ StepInv'
    BY <1>13 DEF Stop, End, plan, machine, loop, history, TypeOK, LoopType, Contexts, ContextInv, StepInv
  <2> QED BY <2>1, <2>2, <2>3, <2>4 DEF TypeOK
<1> QED BY <1>1, <1>2, <1>3, <1>4, <1>5, <1>6, <1>7, <1>8, <1>9, <1>10, <1>11, <1>12, <1>13

\* A proof can only complete the plan: it never makes a COMPLETED unearned.
LEMMA StillEarned ==
  ASSUME IInv, engine' = engine, verified' = verified, proven \subseteq proven',
         proven' \subseteq Subgoals
  PROVE  CompletedIsEarned'
BY DEF IInv, PlanInv, CompletedIsEarned

\* The actions that change the graph.
LEMMA GraphSteps ==
  ASSUME IInv,
         \/ SelectSubgoal \/ RevisitDestination \/ AlreadyThere \/ NoEffect \/ ProveSubgoal
  PROVE  IInv'
<1> USE DEF IInv, PlanInv
<1>p. given.prereqs \in [Subgoals -> SUBSET Subgoals] /\ given.destinations \subseteq Subgoals
  BY PlanAssumption DEF TypeOK, PlanType
<1>n. None \notin Subgoals /\ MaxSteps \in Nat /\ MaxRetries \in Nat
  BY PlanAssumption
<1>a. pc \notin {"top", "select", "over"} /\ active # None =>
        active \in Subgoals /\ sub[active] \in {"IN_PROGRESS", "COMPLETED"}
  BY DEF GraphInv, TypeOK, PlanType
<1>1. CASE SelectSubgoal
  <2> DEFINE r == Refresh(sub)
  <2>1. /\ r \in [Subgoals -> SubgoalStates]
        /\ \A g \in Subgoals :
             \/ r[g] = sub[g]
             \/ sub[g] = "PENDING" /\ r[g] = "READY" /\ \A p \in given.prereqs[g] : sub[p] = "COMPLETED"
    BY Refreshed DEF TypeOK, PlanType
  <2>2. \A g \in Subgoals :
          /\ r[g] \in {"READY", "IN_PROGRESS", "COMPLETED"} => given.prereqs[g] \subseteq proven
          /\ r[g] = "COMPLETED" => g \in proven
    BY <2>1, <1>p DEF GraphInv
  <2>3. \/ \E g \in Subgoals : r[g] = "READY" /\ sub' = [r EXCEPT ![g] = "IN_PROGRESS"] /\ active' = g
        \/ active' = None /\ sub' = sub
    BY <1>1 DEF SelectSubgoal
  <2>4. given' = given /\ UNCHANGED <<loop, history>> /\ pc' = "revisit" /\ status' = status
        /\ pc = "select"
    BY <1>1 DEF SelectSubgoal, Goto
  <2>5. PlanType'
    BY <2>1, <2>3, <2>4 DEF TypeOK, PlanType, SubgoalStates, history
  <2>6. LoopType' /\ StepInv'
    BY <2>4 DEF TypeOK, LoopType, StepInv, loop
  <2>7. engine' \in EngineStates /\ ctx' \in Contexts /\ verified' \in BOOLEAN
    <3>1. \/ engine' = engine /\ ctx' = ctx
          \/ engine' = "TARGET_GROUNDING" /\ ctx' = EmptyContext
      BY <1>1 DEF SelectSubgoal
    <3>2. EmptyContext \in Contexts
      BY DEF EmptyContext, Contexts
    <3> QED BY <2>4, <3>1, <3>2 DEF TypeOK, EngineStates, history
  <2>8. GraphInv'
    <3>1. ASSUME NEW g \in Subgoals, r[g] = "READY", sub' = [r EXCEPT ![g] = "IN_PROGRESS"],
                 active' = g
          PROVE  GraphInv'
      BY <2>1, <2>2, <2>4, <3>1 DEF GraphInv, history
    <3>2. CASE active' = None /\ sub' = sub
      BY <2>4, <3>2 DEF GraphInv, history
    <3> QED BY <2>3, <3>1, <3>2
  <2>9. ContextInv' /\ CompletedIsEarned'
    BY <1>1, <2>4 DEF SelectSubgoal, ContextInv, CompletedIsEarned, history
  <2> QED BY <2>5, <2>6, <2>7, <2>8, <2>9 DEF TypeOK
<1>2. CASE RevisitDestination
  <2>1. given' = given /\ active' = active /\ UNCHANGED <<machine, loop>> /\ pc = "revisit"
        /\ ((pc' = "goal" /\ status' = status) \/ (pc' = "over" /\ status' = "FAILED"))
    BY <1>2 DEF RevisitDestination, Goto, End
  <2>2. LoopType' /\ StepInv' /\ ContextInv' /\ engine' \in EngineStates /\ ctx' \in Contexts
    BY <2>1 DEF TypeOK, LoopType, StepInv, ContextInv, machine, loop
  <2>3. ASSUME NEW g \in Subgoals, sub[g] = "IN_PROGRESS", Complete(g)
        PROVE  IInv'
    <3>1. /\ sub' \in [Subgoals -> SubgoalStates]
          /\ proven' \subseteq Subgoals
          /\ \A h \in Subgoals :
                /\ sub'[h] \in {"READY", "IN_PROGRESS", "COMPLETED"} =>
                      given'.prereqs[h] \subseteq proven'
                /\ sub'[h] = "COMPLETED" => h \in proven'
                /\ sub[h] \in {"IN_PROGRESS", "COMPLETED"} =>
                      sub'[h] \in {"IN_PROGRESS", "COMPLETED"}
          /\ proven \subseteq proven' /\ verified' = verified
      BY <2>1, <2>3, Completed
    <3>2. PlanType' /\ verified' \in BOOLEAN
      BY <2>1, <3>1 DEF TypeOK, PlanType
    <3>3. GraphInv'
      BY <1>a, <2>1, <3>1 DEF GraphInv
    <3>4. CompletedIsEarned'
      BY <2>1, <3>1, StillEarned DEF machine
    <3> QED BY <2>2, <3>2, <3>3, <3>4 DEF TypeOK
  <2>4. CASE UNCHANGED <<sub, history>>
    <3>1. PlanType' /\ GraphInv' /\ CompletedIsEarned' /\ verified' \in BOOLEAN
      BY <2>1, <2>4 DEF TypeOK, PlanType, GraphInv, CompletedIsEarned, machine, history
    <3> QED BY <2>2, <3>1 DEF TypeOK
  <2> QED BY <1>2, <1>p, <2>3, <2>4 DEF RevisitDestination
<1>3. CASE AlreadyThere
  <2>1. given' = given /\ active' = active /\ UNCHANGED <<machine, step, retry, targeted>>
        /\ pc = "noeffect" /\ pc' = "top" /\ status' = status /\ lastAction' = "FAILED"
    BY <1>3 DEF AlreadyThere, Goto
  <2>2. active \in Subgoals /\ sub[active] \in {"IN_PROGRESS", "COMPLETED"} /\ Complete(active)
    BY <1>3, <1>p, <1>n, <1>a DEF AlreadyThere
  <2>3. /\ sub' \in [Subgoals -> SubgoalStates]
        /\ proven' \subseteq Subgoals
        /\ \A h \in Subgoals :
              /\ sub'[h] \in {"READY", "IN_PROGRESS", "COMPLETED"} =>
                    given'.prereqs[h] \subseteq proven'
              /\ sub'[h] = "COMPLETED" => h \in proven'
        /\ proven \subseteq proven' /\ verified' = verified
    BY <2>1, <2>2, Completed
  <2>4. LoopType' /\ StepInv' /\ ContextInv' /\ engine' \in EngineStates /\ ctx' \in Contexts
    BY <2>1 DEF TypeOK, LoopType, StepInv, ContextInv, machine
  <2>5. PlanType' /\ GraphInv' /\ verified' \in BOOLEAN
    BY <2>1, <2>3 DEF TypeOK, PlanType, GraphInv
  <2>6. CompletedIsEarned'
    BY <2>1, <2>3, StillEarned DEF machine
  <2> QED BY <2>4, <2>5, <2>6 DEF TypeOK
<1>4. CASE NoEffect
  <2>1. given' = given /\ active' = active /\ UNCHANGED <<machine, step, targeted, history>>
        /\ pc = "noeffect" /\ ((pc' = "top" /\ status' = status) \/ (pc' = "over" /\ status' = "FAILED"))
        /\ lastAction' = "FAILED" /\ retry' = retry + 1
        /\ sub' = IF active = None THEN sub ELSE [sub EXCEPT ![active] = "FAILED"]
    BY <1>4 DEF NoEffect, Refuse, Goto, End
  <2>2. LoopType' /\ StepInv' /\ ContextInv' /\ engine' \in EngineStates /\ ctx' \in Contexts
    BY <2>1 DEF TypeOK, LoopType, StepInv, ContextInv, machine
  <2>3. sub' \in [Subgoals -> SubgoalStates]
        /\ \A h \in Subgoals : sub'[h] = sub[h] \/ sub'[h] = "FAILED"
    BY <2>1 DEF TypeOK, PlanType, SubgoalStates
  <2>4. PlanType' /\ verified' \in BOOLEAN
    BY <2>1, <2>3 DEF TypeOK, PlanType, history
  <2>5. GraphInv' /\ CompletedIsEarned'
    BY <2>1, <2>3 DEF GraphInv, CompletedIsEarned, machine, history
  <2> QED BY <2>2, <2>4, <2>5 DEF TypeOK
<1>5. CASE ProveSubgoal
  <2>1. given' = given /\ active' = active /\ UNCHANGED <<machine, step, lastAction, targeted>>
        /\ pc = "prove" /\ pc' = "judge" /\ status' = status /\ retry' = 0
    BY <1>5 DEF ProveSubgoal, Goto
  <2>2. LoopType' /\ StepInv' /\ ContextInv' /\ engine' \in EngineStates /\ ctx' \in Contexts
    BY <2>1 DEF TypeOK, LoopType, StepInv, ContextInv, machine
  <2>3. CASE active # None /\ Complete(active)
    <3>1. active \in Subgoals /\ sub[active] \in {"IN_PROGRESS", "COMPLETED"}
      BY <1>a, <2>1, <2>3
    <3>2. /\ sub' \in [Subgoals -> SubgoalStates]
          /\ proven' \subseteq Subgoals
          /\ \A h \in Subgoals :
                /\ sub'[h] \in {"READY", "IN_PROGRESS", "COMPLETED"} =>
                      given'.prereqs[h] \subseteq proven'
                /\ sub'[h] = "COMPLETED" => h \in proven'
                /\ sub[h] \in {"IN_PROGRESS", "COMPLETED"} =>
                      sub'[h] \in {"IN_PROGRESS", "COMPLETED"}
          /\ proven \subseteq proven' /\ verified' = verified
      BY <2>1, <2>3, <3>1, Completed
    <3>3. PlanType' /\ GraphInv' /\ verified' \in BOOLEAN
      BY <2>1, <3>1, <3>2 DEF TypeOK, PlanType, GraphInv
    <3>4. CompletedIsEarned'
      BY <2>1, <3>2, StillEarned DEF machine
    <3> QED BY <2>2, <3>3, <3>4 DEF TypeOK
  <2>4. CASE UNCHANGED <<sub, history>>
    <3>1. PlanType' /\ GraphInv' /\ CompletedIsEarned' /\ verified' \in BOOLEAN
      BY <2>1, <2>4 DEF TypeOK, PlanType, GraphInv, CompletedIsEarned, machine, history
    <3> QED BY <2>2, <3>1 DEF TypeOK
  <2> QED BY <1>5, <2>3, <2>4 DEF ProveSubgoal
<1> QED BY <1>1, <1>2, <1>3, <1>4, <1>5

\* The machine's COMPLETED at the end of a cycle.
LEMMA JudgeStep ==
  ASSUME IInv, JudgeCycle
  PROVE  IInv'
<1> USE DEF IInv, PlanInv
<1>1. UNCHANGED <<plan, ctx, loop, proven>> /\ pc = "judge"
      /\ ((pc' = "finish" /\ status' = status) \/ (pc' = "over" /\ status' = "THROWN"))
  BY DEF JudgeCycle, Goto, End
<1>2. PlanType' /\ GraphInv'
  BY <1>1 DEF TypeOK, PlanType, GraphInv, plan
<1>3. LoopType' /\ StepInv' /\ ctx' \in Contexts
  BY <1>1 DEF TypeOK, LoopType, StepInv, loop
<1>4. AllCompleted => proven = Subgoals
  BY DEF AllCompleted, GraphInv, TypeOK, PlanType
<1>5. \/ engine' = engine /\ verified' = verified
      \/ engine \in {"GOAL_VERIFICATION", "DYNAMIC_REPLANNING"}
         /\ \E satisfied \in BOOLEAN :
              /\ verified' = (verified \/ satisfied)
              /\ \/ engine' = "COMPLETED" /\ (satisfied \/ AllCompleted)
                 \/ engine' = engine
                 \/ engine' = "SUBGOAL_SELECTION"
  BY DEF JudgeCycle
<1>6. engine' \in EngineStates /\ ContextInv' /\ verified' \in BOOLEAN
  BY <1>1, <1>5 DEF TypeOK, EngineStates, ContextInv
<1>7. CompletedIsEarned'
  BY <1>1, <1>4, <1>5 DEF CompletedIsEarned, TypeOK, plan
<1> QED BY <1>2, <1>3, <1>6, <1>7 DEF TypeOK

\* Every step keeps the invariant.
LEMMA Inductive == IInv /\ [Next]_vars => IInv'
<1> SUFFICES ASSUME IInv, [Next]_vars PROVE IInv'
  OBVIOUS
<1>1. CASE Next
  BY <1>1, LoopSteps, GraphSteps, JudgeStep DEF Next
<1>2. CASE UNCHANGED vars
  BY <1>2 DEF vars, plan, machine, loop, history, IInv, TypeOK, PlanType, LoopType, PlanInv,
              GraphInv, ContextInv, StepInv, CompletedIsEarned
<1> QED BY <1>1, <1>2

\* The invariant holds in every run.
LEMMA Invariant == Spec => []IInv
BY InitHolds, Inductive, PTL DEF Spec

\* The state keeps its shape; in particular no run takes more steps than
\* maxSteps, although six places of the loop go back to its top.
THEOREM TypeCorrect == Spec => []TypeOK
<1>1. IInv => TypeOK
  BY DEF IInv
<1> QED BY <1>1, Invariant, PTL

\* Whatever the plan, a subgoal is worked on only after its prerequisites were
\* proven by an observation.
THEOREM EvidenceOrder == Spec => []PlanFollowsEvidence
<1>1. IInv => PlanFollowsEvidence
  BY DEF IInv, PlanInv, GraphInv, PlanFollowsEvidence
<1> QED BY <1>1, Invariant, PTL

\* The machine announces COMPLETED only when the goal verifier said yes or
\* the whole plan was proven.
THEOREM CompletionEarned == Spec => []CompletedIsEarned
<1>1. IInv => CompletedIsEarned
  BY DEF IInv, PlanInv
<1> QED BY <1>1, Invariant, PTL

\* Where the machine and the loop are out of step, the guards of the security
\* pipeline still refuse nothing: only a verdict about the goal makes the
\* machine throw.
THEOREM OnlyGoalThrowsHolds == Spec => OnlyGoalThrows
<1> DEFINE Throws == status' = "THROWN" => pc \in {"goal", "judge"}
<1>1. ASSUME IInv, [Next]_vars
      PROVE  [Throws]_vars
  <2>1. ASSUME Next, pc \notin {"goal", "judge"}
        PROVE  status' # "THROWN"
    <3>1. pc # "over" => status # "THROWN"
      BY <1>1 DEF IInv, PlanInv, StepInv
    <3>2. /\ engine = "TARGET_GROUNDING" => MayEnter(engine, "M5_VALIDATION", GroundedContext)
          /\ engine = "M5_VALIDATION" =>
                \A to \in {"RISK_POLICY_CHECK", "DYNAMIC_REPLANNING"}, c \in Contexts :
                    MayEnter(engine, to, c)
      BY DEF MayEnter
    <3>3. engine = "RISK_POLICY_CHECK" =>
            \A to \in {"USER_CONFIRMATION", "CHROME_EXECUTION"} :
                MayEnter(engine, to, [ctx EXCEPT !.risk = TRUE])
      BY <1>1 DEF IInv, PlanInv, TypeOK, Contexts, ContextInv, MayEnter
    <3>4. \A b \in BOOLEAN : [ctx EXCEPT !.m5 = b] \in Contexts
      BY <1>1 DEF IInv, TypeOK, Contexts
    <3>5. CASE Ground
      BY <3>1, <3>2, <3>5 DEF Ground, Refuse, Register, Goto, End
    <3>6. CASE ValidateM5
      BY <3>1, <3>2, <3>4, <3>6 DEF ValidateM5, Refuse, Register, Goto, End
    <3>7. CASE AssessRisk
      BY <3>1, <3>3, <3>7 DEF AssessRisk, Refuse, Register, Goto, End
    <3>8. CASE BeginCycle \/ SelectSubgoal \/ RevisitDestination \/ Propose
               \/ PassCriticAndPrivacy \/ CheckDispatch \/ Execute
      BY <3>1, <3>8 DEF BeginCycle, SelectSubgoal, RevisitDestination, Propose,
             PassCriticAndPrivacy, CheckDispatch, Execute, Refuse, Goto, End
    <3>9. CASE EffectUnobservable \/ EffectObserved \/ AlreadyThere \/ NoEffect
               \/ ProveSubgoal \/ FinishCycle \/ Stop
      BY <3>1, <3>9 DEF EffectUnobservable, EffectObserved, AlreadyThere, NoEffect,
             ProveSubgoal, FinishCycle, Stop, Refuse, Goto, End
    <3> QED BY <2>1, <3>5, <3>6, <3>7, <3>8, <3>9 DEF Next, CheckGoal, JudgeCycle
  <2> QED BY <1>1, <2>1
<1>2. IInv /\ [Next]_vars => [Throws]_vars
  BY <1>1
<1> QED BY <1>2, Invariant, PTL DEF Spec, OnlyGoalThrows

(***************************************************************************)
(* Why a run ends (RunEnds): a variant.  Each stage of a cycle lies nearer *)
(* to its end than the one before; the ways back to the top of the loop    *)
(* start behind the count of the turn, which weighs more than a cycle.     *)
(***************************************************************************)

\* The stages a cycle has at most in front of it, the next one's included.
StagesLeft ==
  CASE pc = "over" -> 0
    [] pc = "propose" -> 1
    [] pc = "goal" -> 2
    [] pc = "revisit" -> 3
    [] pc = "select" -> 4
    [] pc = "top" -> 5
    [] pc = "finish" -> 6
    [] pc = "judge" -> 7
    [] pc = "prove" -> 8
    [] pc = "noeffect" -> 9
    [] pc = "effect" -> 10
    [] pc = "execute" -> 11
    [] pc = "dispatch" -> 12
    [] pc = "risk" -> 13
    [] pc = "gates" -> 14
    [] pc = "m5" -> 15
    [] pc = "ground" -> 16

\* What a run may still do.
RunLeft == 17 * (MaxSteps - step) + StagesLeft

\* Where the loop goes on without counting a turn, it goes on to a later stage.
LEMMA StagesFall ==
  ASSUME TypeOK, Next, ~Propose
  PROVE  step' = step /\ StagesLeft' < StagesLeft
<1>1. CASE BeginCycle \/ SelectSubgoal \/ RevisitDestination \/ CheckGoal
  BY <1>1 DEF BeginCycle, SelectSubgoal, RevisitDestination, CheckGoal, Goto, End, loop, StagesLeft
<1>2. CASE Ground \/ ValidateM5
  <2>1. \/ pc = "ground" /\ pc' \in {"m5", "top", "over"}
        \/ pc = "m5" /\ pc' \in {"gates", "top", "over"}
    BY <1>2 DEF Ground, ValidateM5, Register, Refuse, Goto, End
  <2> QED BY <1>2, <2>1 DEF Ground, ValidateM5, StagesLeft
<1>3. CASE PassCriticAndPrivacy \/ AssessRisk
  BY <1>3 DEF PassCriticAndPrivacy, AssessRisk, Register, Refuse, Goto, End, StagesLeft
<1>4. CASE CheckDispatch \/ Execute \/ EffectUnobservable
  BY <1>4 DEF CheckDispatch, Execute, EffectUnobservable, Refuse, Goto, End, StagesLeft
<1>5. CASE EffectObserved \/ AlreadyThere \/ NoEffect
  BY <1>5 DEF EffectObserved, AlreadyThere, NoEffect, Refuse, Goto, End, loop, StagesLeft
<1>6. CASE ProveSubgoal \/ JudgeCycle \/ FinishCycle
  BY <1>6 DEF ProveSubgoal, JudgeCycle, FinishCycle, Goto, End, loop, StagesLeft
<1>7. CASE Stop
  BY <1>7 DEF Stop, End, loop, StagesLeft
<1> QED BY <1>1, <1>2, <1>3, <1>4, <1>5, <1>6, <1>7 DEF Next

\* A turn is taken only while one is left, and costs more than its cycle.
LEMMA TurnsFall ==
  ASSUME IInv, Propose
  PROVE  /\ step' = step + 1 /\ step < MaxSteps
         /\ StagesLeft = 1 /\ StagesLeft' \in 0 .. 16
BY DEF IInv, PlanInv, StepInv, Propose, CountTurn, Goto, End, StagesLeft

\* A turn outweighs the stages of a cycle.
LEMMA TurnOutweighs ==
  ASSUME NEW m \in Nat, NEW n \in 0 .. m, NEW o \in 0 .. m, NEW i \in 0 .. 16, NEW j \in 0 .. 16,
         \/ o = n /\ j < i
         \/ o = n + 1 /\ i = 1
  PROVE  /\ 17 * (m - o) + j < 17 * (m - n) + i
         /\ 17 * (m - o) + j \in Nat
OBVIOUS

\* Every step a run takes leaves it fewer: for every plan, bound and verdict
\* it takes at most 17 * MaxSteps + 5, however often the gates refuse, a page
\* cannot be observed or a proven action sends the loop back to its top.  A
\* loop that forgot to count a turn on one of its ways back would have no
\* such measure (agentLoop.ts, the increments of currentStep in runTask).
THEOREM RunsAreFinite ==
  Spec => /\ [](RunLeft \in 0 .. 17 * MaxSteps + 5)
          /\ [][RunLeft' < RunLeft]_vars
<1> DEFINE Within == RunLeft \in 0 .. 17 * MaxSteps + 5
<1>1. ASSUME IInv
      PROVE  RunLeft \in Nat
  <2>1. StagesLeft \in 0 .. 16
    BY <1>1 DEF IInv, TypeOK, LoopType, StagesLeft
  <2> QED BY <1>1, <2>1, PlanAssumption DEF IInv, TypeOK, LoopType, RunLeft
<1>2. Init => Within
  BY PlanAssumption DEF Init, RunLeft, StagesLeft
<1>3. ASSUME IInv, IInv', Next
      PROVE  RunLeft' < RunLeft /\ RunLeft' \in Nat
  <2>1. StagesLeft \in 0 .. 16
    BY <1>3 DEF IInv, TypeOK, LoopType, StagesLeft
  <2>2. StagesLeft' \in 0 .. 16
    BY <1>3 DEF IInv, TypeOK, LoopType, StagesLeft
  <2>3. step \in 0 .. MaxSteps /\ step' \in 0 .. MaxSteps /\ MaxSteps \in Nat
    BY <1>3, PlanAssumption DEF IInv, TypeOK, LoopType
  <2>4. \/ step' = step /\ StagesLeft' < StagesLeft
        \/ step' = step + 1 /\ StagesLeft = 1
    BY <1>3, StagesFall, TurnsFall DEF IInv
  <2>5. /\ 17 * (MaxSteps - step') + StagesLeft' < 17 * (MaxSteps - step) + StagesLeft
        /\ 17 * (MaxSteps - step') + StagesLeft' \in Nat
    BY <2>1, <2>2, <2>3, <2>4, TurnOutweighs
  <2> QED BY <2>5 DEF RunLeft
<1>4. IInv /\ IInv' /\ [Next]_vars => [RunLeft' < RunLeft]_vars
  BY <1>3
<1>5. ASSUME Within, IInv, IInv', [Next]_vars
      PROVE  Within'
  <2>1. CASE Next
    <3>1. RunLeft' < RunLeft /\ RunLeft' \in Nat /\ RunLeft \in Nat
      BY <1>1, <1>3, <1>5, <2>1
    <3>2. 17 * MaxSteps + 5 \in Nat
      BY PlanAssumption
    <3> QED BY <1>5, <3>1, <3>2
  <2>2. CASE UNCHANGED vars
    BY <1>5, <2>2 DEF vars, loop, RunLeft, StagesLeft
  <2> QED BY <1>5, <2>1, <2>2
<1>6. Within /\ IInv /\ IInv' /\ [Next]_vars => Within'
  BY <1>5
<1> QED BY <1>2, <1>4, <1>6, Invariant, PTL DEF Spec
=============================================================================
