----------------------------- MODULE PlanEngine -----------------------------
(***************************************************************************)
(* One run of the agent's plan: the loop of AgentLoop.runTask seen from    *)
(* its planning side.  The decomposer gives the run subgoals with          *)
(* prerequisites (SubgoalGraph); each cycle selects one that is ready,     *)
(* asks whether a destination was reached, asks whether the goal is met,   *)
(* takes one action through the gates, observes its effect and asks        *)
(* whether the subgoal is proven.  Beside it PlanStateMachine follows the  *)
(* cycle and refuses transitions that skip a stage by throwing.  It        *)
(* follows only the transitions the loop tells it about, and the loop      *)
(* tells it nothing when it is in another state than the one expected: the *)
(* two drift apart.                                                        *)
(*                                                                         *)
(* The verdicts of the page, of the verifiers and of the gates are free.   *)
(* Of the machine's context the model keeps what its guards read; the      *)
(* provenance records it writes are read by nothing.                       *)
(***************************************************************************)
EXTENDS Naturals, FiniteSets

CONSTANTS
    Subgoals,      \* the subgoals of a plan
    Plans,         \* what the decomposer may answer
    MaxSteps,      \* maxSteps (the service worker passes 10)
    MaxRetries,    \* maxRetries (2)
    None           \* undefined

ASSUME PlanAssumption ==
    /\ Plans \subseteq [prereqs : [Subgoals -> SUBSET Subgoals], \* per subgoal
                       destinations : SUBSET Subgoals]          \* DESTINATION_VERIFIED
    /\ MaxSteps \in Nat
    /\ MaxRetries \in Nat
    /\ None \notin Subgoals

VARIABLES
    given,       \* the plan of this run
    sub,         \* the state of each subgoal
    active,      \* activeSubgoal of this cycle, or None
    engine,      \* PlanStateMachine.currentState
    ctx,         \* PlanStateMachine.context
    pc,          \* where the cycle is
    status,      \* state.status; THROWN: runTask was left by an exception
    step,        \* state.currentStep
    retry,       \* state.retryCount
    lastAction,  \* state.lastActionResult
    targeted,    \* the action of this cycle has a target
    proven,      \* history: subgoals an observation has proven
    verified     \* history: the goal verifier said yes at least once

plan == <<given, sub, active>>
machine == <<engine, ctx>>
loop == <<step, retry, lastAction, targeted>>
history == <<proven, verified>>
vars == <<plan, machine, pc, status, loop, history>>

\* SKIPPED is left out: the loop calls neither skip, cancel nor splice
SubgoalStates == {"PENDING", "READY", "IN_PROGRESS", "COMPLETED", "FAILED"}
EngineStates ==
    {"SUBGOAL_SELECTION", "TARGET_GROUNDING", "M5_VALIDATION",
     "RISK_POLICY_CHECK", "USER_CONFIRMATION", "CHROME_EXECUTION",
     "EFFECT_VERIFICATION", "GOAL_VERIFICATION", "DYNAMIC_REPLANNING",
     "COMPLETED"}
Contexts == [targeted : BOOLEAN, grounded : BOOLEAN, m5 : BOOLEAN, risk : BOOLEAN]

(***************************************************************************)
(* The subgoal graph.                                                      *)
(***************************************************************************)
\* Mutant: dispatched is as good as proven.
PrerequisitesStarted(s, g) ==
    \A p \in given.prereqs[g] : s[p] \notin {"PENDING", "READY"}

PrerequisitesMet(s, g) == \A p \in given.prereqs[g] : s[p] = "COMPLETED"

Refresh(s) ==
    [g \in Subgoals |->
        IF s[g] = "PENDING" /\ PrerequisitesMet(s, g) THEN "READY" ELSE s[g]]

\* Mutant: nothing is left to start.
AllStarted ==
    \A g \in Subgoals : sub[g] \notin {"PENDING", "READY"}

AllCompleted == \A g \in Subgoals : sub[g] = "COMPLETED"

\* completeSubgoal, called only on a verdict of the observation
Complete(g) ==
    /\ sub' = Refresh([sub EXCEPT ![g] = "COMPLETED"])
    /\ proven' = proven \cup {g}
    /\ UNCHANGED verified

(***************************************************************************)
(* The state machine.  Register is transitionTo after the handler has      *)
(* updated the context: where the guard refuses, the exception leaves      *)
(* runTask; else the cycle goes on with Continue.                          *)
(***************************************************************************)
EmptyContext == [targeted |-> FALSE, grounded |-> FALSE, m5 |-> FALSE, risk |-> FALSE]

\* registerTargetGrounded and registerNonTargetedAction
GroundedContext == [ctx EXCEPT !.targeted = targeted, !.grounded = targeted]

MayEnter(from, to, c) ==
    /\ from # "COMPLETED"
    /\ to = "CHROME_EXECUTION" =>
          /\ from \in {"RISK_POLICY_CHECK", "USER_CONFIRMATION"}
          /\ c.m5 /\ c.risk
          /\ c.targeted => c.grounded
    /\ to = "GOAL_VERIFICATION" =>
          from \in {"EFFECT_VERIFICATION", "SUBGOAL_SELECTION", "TARGET_GROUNDING"}

End(s) == status' = s /\ pc' = "over"
Goto(l) == pc' = l /\ UNCHANGED status

Register(to, c, Continue) ==
    /\ ctx' = c
    /\ \/ /\ MayEnter(engine, to, c)
          /\ engine' = to
          /\ Continue
       \/ /\ ~MayEnter(engine, to, c)
          /\ End("THROWN")
          /\ UNCHANGED <<engine, retry>>

\* registerGoalVerification: through GOAL_VERIFICATION to COMPLETED
MayComplete(e) == e = "GOAL_VERIFICATION" \/ MayEnter(e, "GOAL_VERIFICATION", ctx)

\* a step that was refused or failed: one retry less, or the end
Refuse ==
    /\ retry' = retry + 1
    /\ IF retry + 1 > MaxRetries THEN End("FAILED") ELSE Goto("top")

-----------------------------------------------------------------------------
Init ==
    /\ given \in Plans
    /\ sub = [g \in Subgoals |-> IF given.prereqs[g] = {} THEN "READY" ELSE "PENDING"]
    /\ active = None
    /\ engine = "SUBGOAL_SELECTION" /\ ctx = EmptyContext
    /\ pc = "top" /\ status = "IN_PROGRESS"
    /\ step = 0 /\ retry = 0 /\ lastAction = "NONE"
    /\ targeted = FALSE
    /\ proven = {} /\ verified = FALSE

StepsLeft == step < MaxSteps

\* the bounds, the harness and the page: any of them may end the run
BeginCycle ==
    /\ pc = "top"
    /\ \/ StepsLeft /\ Goto("select")
       \/ End("FAILED")
    /\ UNCHANGED <<plan, machine, loop, history>>

\* selectNextSubgoal, and startSubgoal on its answer; the machine is told
\* only when it waits for a subgoal.  The filter on a subgoal's own maxRetries
\* removes nothing: getRecentFailures books every failed step on the subgoal
\* selected last, which is not READY any more
SelectSubgoal ==
    /\ pc = "select"
    /\ LET ready == {g \in Subgoals : Refresh(sub)[g] = "READY"}
       IN  \/ \E g \in ready :
                 /\ sub' = [Refresh(sub) EXCEPT ![g] = "IN_PROGRESS"]
                 /\ active' = g
                 /\ IF engine \in {"SUBGOAL_SELECTION", "DYNAMIC_REPLANNING"}
                      THEN /\ engine' = "TARGET_GROUNDING"
                           /\ ctx' = EmptyContext
                      ELSE UNCHANGED <<engine, ctx>>
           \/ /\ ready = {}
              /\ active' = None
              /\ UNCHANGED <<sub, engine, ctx>>
    /\ Goto("revisit")
    /\ UNCHANGED <<given, loop, history>>

\* a destination in progress is put to its verifier when the page changed
RevisitDestination ==
    /\ pc = "revisit"
    /\ \/ \E g \in {d \in given.destinations : sub[d] = "IN_PROGRESS"} :
             Complete(g) /\ Goto("goal")
       \/ UNCHANGED <<sub, history>> /\ Goto("goal")
       \/ UNCHANGED <<sub, history>> /\ End("FAILED")   \* long-horizon bounds
    /\ UNCHANGED <<given, active, machine, loop>>

\* isTaskGoalSatisfied before an action is asked for
CheckGoal ==
    /\ pc = "goal"
    /\ \/ /\ lastAction # "FAILED"
          /\ verified' = TRUE
          /\ IF engine = "COMPLETED" \/ MayComplete(engine)
               THEN engine' = "COMPLETED" /\ End("SUCCESS")
               ELSE UNCHANGED engine /\ End("THROWN")
       \/ /\ UNCHANGED <<engine, verified>>
          /\ Goto("propose") \/ End("HANDED_BACK")      \* an unclear reference
    /\ UNCHANGED <<plan, ctx, loop, proven>>

\* Mutant: a turn that was refused is not counted.
CountSomeTurns == step' \in {step, step + 1}

CountTurn == step' = step + 1

\* the destination named by the user, or the answer of the provider
Propose ==
    /\ pc = "propose"
    /\ CountTurn
    /\ \/ targeted' \in BOOLEAN /\ Goto("ground")
       \/ /\ Goto("top") \/ End("FAILED") \/ End("HANDED_BACK")
          /\ UNCHANGED targeted
    /\ UNCHANGED <<plan, machine, retry, lastAction, history>>

\* GATE 1: target grounding
Ground ==
    /\ pc = "ground"
    /\ \/ Refuse /\ UNCHANGED <<engine, ctx>>
       \/ IF engine = "TARGET_GROUNDING"
            THEN Register("M5_VALIDATION", GroundedContext, Goto("m5") /\ UNCHANGED retry)
            ELSE Goto("m5") /\ UNCHANGED <<engine, ctx, retry>>
    /\ UNCHANGED <<plan, step, lastAction, targeted, history>>

\* GATE 2: M5, with another target where self-healing finds one
ValidateM5 ==
    /\ pc = "m5"
    /\ \E approved \in BOOLEAN :
          LET Continue == IF approved THEN Goto("gates") /\ UNCHANGED retry
                                      ELSE Refuse
          IN  IF engine = "M5_VALIDATION"
                THEN Register(IF approved THEN "RISK_POLICY_CHECK"
                                          ELSE "DYNAMIC_REPLANNING",
                              [ctx EXCEPT !.m5 = approved], Continue)
                ELSE Continue /\ UNCHANGED <<engine, ctx>>
    /\ UNCHANGED <<plan, step, lastAction, targeted, history>>

\* the security critic and the privacy policy: the machine hears of neither
PassCriticAndPrivacy ==
    /\ pc = "gates"
    /\ \/ Refuse
       \/ Goto("risk") /\ UNCHANGED retry
    /\ UNCHANGED <<plan, machine, step, lastAction, targeted, history>>

\* GATE 4 and 5: risk, safety review, confirmation
AssessRisk ==
    /\ pc = "risk"
    /\ \E confirm \in BOOLEAN :
          LET Continue == \/ Refuse                      \* safety review
                          \/ /\ UNCHANGED retry
                             /\ \/ End("FAILED")         \* risk block
                                \/ End("PARKED")         \* for any reason
                                \/ ~confirm /\ Goto("dispatch")
          IN  IF engine = "RISK_POLICY_CHECK"
                THEN Register(IF confirm THEN "USER_CONFIRMATION"
                                         ELSE "CHROME_EXECUTION",
                              [ctx EXCEPT !.risk = TRUE], Continue)
                ELSE Continue /\ UNCHANGED <<engine, ctx>>
    /\ UNCHANGED <<plan, step, lastAction, targeted, history>>

\* containment, freshness of the page, open commits
CheckDispatch ==
    /\ pc = "dispatch"
    /\ \/ End("FAILED") /\ UNCHANGED retry
       \/ End("HANDED_BACK") /\ UNCHANGED retry
       \/ Goto("top") /\ UNCHANGED retry                 \* RE_PERCEIVE
       \/ Goto("execute") /\ retry' \in {retry, 0}       \* commit resolved
    /\ UNCHANGED <<plan, machine, step, lastAction, targeted, history>>

\* executeAction and registerExecutionResult
Execute ==
    /\ pc = "execute"
    /\ \E ok \in BOOLEAN :
          /\ lastAction' = IF ok THEN "OK" ELSE "FAILED"
          /\ engine' = IF engine # "CHROME_EXECUTION" THEN engine
                       ELSE IF ok THEN "EFFECT_VERIFICATION" ELSE "DYNAMIC_REPLANNING"
          /\ IF ok THEN Goto("effect") /\ UNCHANGED retry
                   ELSE Refuse \/ (UNCHANGED retry /\ End("HANDED_BACK"))
    /\ UNCHANGED <<plan, ctx, step, targeted, history>>

\* neither side of the action could be observed: no retry bound, one fresh look
EffectUnobservable ==
    /\ pc = "effect"
    /\ lastAction' = "FAILED"
    /\ retry' = retry + 1
    /\ Goto("top") \/ End("FAILED")
    /\ UNCHANGED <<plan, machine, step, targeted, history>>

\* verifyActionEffect and registerEffectVerification
EffectObserved ==
    /\ pc = "effect"
    /\ \E effect \in BOOLEAN :
          /\ Goto(IF effect THEN "prove" ELSE "noeffect")
          /\ IF engine = "EFFECT_VERIFICATION"
               THEN engine' = IF effect THEN "GOAL_VERIFICATION" ELSE "DYNAMIC_REPLANNING"
               ELSE UNCHANGED engine
    /\ UNCHANGED <<plan, ctx, loop, history>>

\* an action without effect at a destination that is reached anyway
AlreadyThere ==
    /\ pc = "noeffect"
    /\ active \in given.destinations
    /\ Complete(active)
    /\ lastAction' = "FAILED"
    /\ Goto("top")
    /\ UNCHANGED <<given, active, machine, step, retry, targeted>>

\* an action without effect fails the active subgoal; what the replanner
\* decides is not used
NoEffect ==
    /\ pc = "noeffect"
    /\ lastAction' = "FAILED"
    /\ sub' = IF active = None THEN sub ELSE [sub EXCEPT ![active] = "FAILED"]
    /\ Refuse \/ (retry' = retry + 1 /\ End("FAILED"))   \* recovery exhausted
    /\ UNCHANGED <<given, active, machine, step, targeted, history>>

\* the action had its effect: is the active subgoal proven?
ProveSubgoal ==
    /\ pc = "prove"
    /\ retry' = 0
    /\ \/ active # None /\ Complete(active)
       \/ UNCHANGED <<sub, history>>
    /\ Goto("judge")
    /\ UNCHANGED <<given, active, machine, step, lastAction, targeted>>

\* what the machine hears at the end of a successful cycle
JudgeCycle ==
    /\ pc = "judge"
    /\ IF engine \in {"GOAL_VERIFICATION", "DYNAMIC_REPLANNING"}
         THEN \E satisfied \in BOOLEAN :
                /\ verified' = (verified \/ satisfied)
                /\ IF satisfied \/ AllCompleted
                     THEN IF MayComplete(engine)
                            THEN engine' = "COMPLETED" /\ Goto("finish")
                            ELSE UNCHANGED engine /\ End("THROWN")
                     ELSE engine' = "SUBGOAL_SELECTION" /\ Goto("finish")
         ELSE UNCHANGED <<engine, verified>> /\ Goto("finish")
    /\ UNCHANGED <<plan, ctx, loop, proven>>

\* isTaskGoalSatisfied at the end of the cycle
FinishCycle ==
    /\ pc = "finish"
    /\ \/ End("SUCCESS") /\ verified' = TRUE
       \/ Goto("top") /\ UNCHANGED verified
    /\ UNCHANGED <<plan, machine, loop, proven>>

\* cancel: the loop notices at the next check of its token after an await
Stop ==
    /\ pc \in {"top", "select", "propose", "risk", "execute", "effect"}
    /\ End("STOPPED")
    /\ UNCHANGED <<plan, machine, loop, history>>

Next ==
    \/ BeginCycle \/ SelectSubgoal \/ RevisitDestination \/ CheckGoal
    \/ Propose \/ Ground \/ ValidateM5 \/ PassCriticAndPrivacy \/ AssessRisk
    \/ CheckDispatch \/ Execute \/ EffectUnobservable \/ EffectObserved
    \/ AlreadyThere \/ NoEffect \/ ProveSubgoal \/ JudgeCycle \/ FinishCycle
    \/ Stop

\* every awaited call of the cycle is bounded by a timeout
Spec == Init /\ [][Next]_vars /\ WF_vars(Next)

-----------------------------------------------------------------------------
(* Properties.                                                             *)

PlanType ==
    /\ given \in Plans
    /\ sub \in [Subgoals -> SubgoalStates]
    /\ active \in Subgoals \cup {None}
    /\ proven \subseteq Subgoals

LoopType ==
    /\ pc \in {"top", "select", "revisit", "goal", "propose", "ground", "m5", "gates",
              "risk", "dispatch", "execute", "effect", "noeffect", "prove", "judge",
              "finish", "over"}
    /\ status \in {"IN_PROGRESS", "SUCCESS", "FAILED", "PARKED", "HANDED_BACK", "STOPPED",
                   "THROWN"}
    /\ step \in 0 .. MaxSteps
    /\ retry \in Nat
    /\ lastAction \in {"NONE", "OK", "FAILED"}
    /\ targeted \in BOOLEAN

\* Every subgoal, task and loop is in a state the code has a name for, no run
\* takes more steps than its bound (subgoalGraph.ts, executionEngine.ts,
\* agentLoop.ts: the type unions and the loop's own condition).
TypeOK ==
    /\ PlanType /\ LoopType
    /\ engine \in EngineStates /\ ctx \in Contexts
    /\ verified \in BOOLEAN

\* A subgoal is worked on only after an observation has proven every one of
\* its prerequisites, whatever happened to them since: neither an action that
\* was merely dispatched nor a failure releases what depends on it
\* (subgoalGraph.ts arePrerequisitesMet, agentLoop.ts "SUBGOAL COMPLETION MUST
\* BE PROVEN FROM OBSERVATION").
PlanFollowsEvidence ==
    \A g \in Subgoals :
        sub[g] \in {"IN_PROGRESS", "COMPLETED"} => given.prereqs[g] \subseteq proven

\* The machine announces COMPLETED only when the goal verifier said yes at
\* some time or every subgoal of the plan was proven: no dispatch, failure or
\* confusion between the two counters of progress reaches it
\* (agentLoop.ts, the comments of PHASE 17.2A at the end of the cycle).
CompletedIsEarned == engine = "COMPLETED" => verified \/ proven = Subgoals

\* The guards of M5_VALIDATION and CHROME_EXECUTION never refuse: however the
\* machine and the loop drift apart, the risk assessment finds the context of
\* a grounded and M5-approved action, so no run is lost to "Security Invariant
\* Violation" (planStateMachine.ts).  Only a verdict about the goal can throw.
OnlyGoalThrows ==
    [][status' = "THROWN" => pc \in {"goal", "judge"}]_vars

\* Every run ends: each way back to the top of the loop has taken a step.
RunEnds == <>(pc = "over")

(* Why they hold.                                                          *)

\* What is released is released by a proof, what is completed is proven, and
\* the active subgoal of a cycle is one that was started.
GraphInv ==
    /\ \A g \in Subgoals :
          /\ sub[g] \in {"READY", "IN_PROGRESS", "COMPLETED"} =>
                given.prereqs[g] \subseteq proven
          /\ sub[g] = "COMPLETED" => g \in proven
    /\ pc \notin {"top", "select", "over"} /\ active # None =>
          sub[active] \in {"IN_PROGRESS", "COMPLETED"}

\* The context of a machine that waits for M5 or for the risk assessment.
ContextInv ==
    /\ engine \in {"M5_VALIDATION", "RISK_POLICY_CHECK"} => (ctx.targeted => ctx.grounded)
    /\ engine = "RISK_POLICY_CHECK" => ctx.m5

\* Between the check of the bound and the count of the turn a step is left,
\* and a run has its outcome only when it is over.
StepInv ==
    /\ pc \in {"select", "revisit", "goal", "propose"} => step < MaxSteps
    /\ pc # "over" => status = "IN_PROGRESS"

PlanInv == GraphInv /\ ContextInv /\ StepInv /\ CompletedIsEarned

(* What comments and tests say, and the code does not do.                  *)

\* "so a finished task ends without a dummy action"
\* (tests/hierarchicalPlanningAcceptance.test.ts): a satisfied goal does not
\* make the machine throw.
GoalVerdictIsAccepted == status # "THROWN"
=============================================================================
