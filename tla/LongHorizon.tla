---------------------------- MODULE LongHorizon ----------------------------
(***************************************************************************)
(* What keeps a run of the agent from going on for ever: the counters of   *)
(* LongHorizonTracker, the scroll budget of SemanticProgressTracker, the   *)
(* typed recovery planner, the older RecoveryEngine behind it, the retries *)
(* and the steps of the loop, and the record of the tracker that is kept   *)
(* in session storage while the run goes on.  Five bounds that count       *)
(* different things at different points of one cycle.                      *)
(*                                                                         *)
(* What the page shows, whether it taught anything, what the provider      *)
(* proposes and what the gates and verifiers say is free.  An action is a  *)
(* scroll up, a scroll down or any other one.  A run that ends for a       *)
(* reason of another component just stops; recoveries planned in the cycle *)
(* that ends it are left out, since the planner is reset before it is read *)
(* again.                                                                  *)
(***************************************************************************)
EXTENDS Integers, Sequences, FiniteSets

CONSTANTS
    Subgoals,        \* what activeSubgoal may be, perhaps None
    Targets,         \* targets (and directions) of actions without effect
    Raw,             \* ids of subgoals and targets that look like a personal value
    PlanSize,        \* for each run, how many subgoals its plan has
    Scrolls,         \* the two directions of a scroll
    MaxSteps,        \* maxSteps (the service worker passes 10)
    MaxRetries,      \* maxRetries (2)
    MaxTotalActions, \* maxTotalActions (24)
    MaxReplans,      \* maxReplans (4)
    MaxSubgoals,     \* maxSubgoals (10)
    MaxQuiet,        \* maxConsecutiveNoProgress (3)
    MaxRepeats,      \* maxRepeatedStates (2)
    MaxStall,        \* maxStallActions (5)
    Window,          \* fingerprintWindow (8)
    MaxRuns,         \* bound: runs that are started
    None             \* undefined

ASSUME HorizonAssumption ==
    /\ {MaxSteps, MaxRetries, MaxTotalActions, MaxReplans, MaxSubgoals, MaxQuiet,
        MaxRepeats, MaxStall, Window, MaxRuns} \subseteq Nat
    /\ MaxStall > 0 /\ MaxReplans > 0
    /\ Cardinality(Scrolls) = 2 /\ {"other", "none"} \cap Scrolls = {}

ASSUME PlanAssumption == PlanSize \in [1 .. MaxRuns -> Nat]

VARIABLES
    pc,          \* where the cycle is
    step,        \* state.currentStep
    retry,       \* state.retryCount
    kind,        \* the action of the last entry of state.steps
    proposed,    \* the action of this cycle
    dispatched,  \* state.lastActionResult # null
    scrollSpent, \* scrollStrategyExhausted
    tracker,     \* the counters of LongHorizonTracker
    prints,      \* how many recent fingerprints it holds
    scroll,      \* the budget of SemanticProgressTracker
    stagnation,  \* its last verdict
    planner,     \* TypedRecoveryPlanner: attempts and strategy per category
    calls,       \* RecoveryEngine: the failures it decided about, and how
    stored,      \* the record in session storage; its run is 0 if there is none
    runs,        \* the runs started so far; the last one's number is its runId
    acted,       \* history: an action was dispatched since the last observation
    fruitless,   \* history: dispatched actions after which nothing was learnt
    verdicts     \* history: verdicts of this run that an action had no known effect

loop == <<step, retry, kind, proposed, dispatched, scrollSpent>>
memory == <<tracker, prints, scroll, stagnation>>
recovery == <<planner, calls>>
history == <<acted, fruitless, verdicts>>
vars == <<pc, loop, memory, recovery, stored, runs, history>>

Actions == Scrolls \cup {"other"}
Kinds == Actions \cup {"none"}
Counters == [actions : Nat, recoveries : Nat, quiet : Nat, total : Nat]
Running == pc \in {"top", "propose", "gates", "act"}

(***************************************************************************)
(* The typed recovery planner.  EXECUTION_FAILED is never planned, and of  *)
(* POLICY_BLOCKED the outcome is never looked at: both are left out.       *)
(***************************************************************************)
Verdicts == {"NO_EFFECT", "OSCILLATION", "EFFECT_UNVERIFIABLE"}
Categories == Verdicts \cup {"STALE_PERCEPTION"}
Strategies == {"RE_PERCEIVE", "CONTINUE", "CHANGE_STRATEGY", "STOP"}

Budget == [c \in Categories |-> IF c = "NO_EFFECT" THEN 2 ELSE 1]

Chain == [c \in Categories |->
    CASE c = "NO_EFFECT" -> <<"RE_PERCEIVE", "CHANGE_STRATEGY">>
      [] c = "OSCILLATION" -> <<"CHANGE_STRATEGY">>
      [] OTHER -> <<"RE_PERCEIVE">>]

Allowed == [s \in Strategies |->
    CASE s = "RE_PERCEIVE" -> {"CONTINUE", "CHANGE_STRATEGY", "STOP"}
      [] s = "CONTINUE" -> Strategies
      [] s = "CHANGE_STRATEGY" -> {"CONTINUE", "STOP"}
      [] s = "STOP" -> {"STOP"}]

NextStrategy(c) ==
    LET n == planner.attempts[c] + 1 IN
    IF /\ n <= Budget[c]
       /\ n <= Len(Chain[c])
       /\ Chain[c][n] \in Allowed[planner.strategy[c]]
    THEN Chain[c][n]
    ELSE "STOP"

\* Mutant: "This used to be bounded by retryCount > maxRetries".
ExhaustedByRetries(c) == retry >= MaxRetries

Exhausted(c) == NextStrategy(c) = "STOP"

Plan(c) ==
    planner' = [attempts |-> [planner.attempts EXCEPT ![c] = @ + 1],
                strategy |-> [planner.strategy EXCEPT ![c] = NextStrategy(c)]]

(***************************************************************************)
(* RecoveryEngine.decide.  The two codes it is given both mean REPERCEIVE. *)
(* Behind its budgets classifyFailure drops a failure one of whose ids has *)
(* the shape of a personal value.                                          *)
(***************************************************************************)
Failures == [code : Verdicts, subgoal : Subgoals, target : Targets]
Decisions == [key : Failures, strategy : {"REPERCEIVE", "REPLAN_SUBGOAL", "ABORT"}]

Repeated == \* countTrailingRepeats("REPERCEIVE") >= maxRepeatedStrategy (2)
    /\ Len(calls) >= 2
    /\ \A i \in Len(calls) - 1 .. Len(calls) : calls[i].strategy = "REPERCEIVE"

RawShaped(key) == {key.subgoal, key.target} \cap Raw # {}

Decide(key) ==
    LET sameSubgoal == {i \in DOMAIN calls : calls[i].key.subgoal = key.subgoal}
        same == {i \in DOMAIN calls : calls[i].key = key}
    IN  IF \/ Len(calls) >= 6                                       \* maxTotalRecoveries
           \/ key.subgoal # None /\ Cardinality(sameSubgoal) >= 3   \* maxRecoveriesPerSubgoal
           \/ RawShaped(key)
        THEN "ABORT"
        ELSE IF Repeated THEN "REPLAN_SUBGOAL"
        ELSE IF Cardinality(same) >= 2 THEN "ABORT"                 \* maxRecoveriesPerAction
        ELSE "REPERCEIVE"

(***************************************************************************)
(* The tracker.                                                            *)
(***************************************************************************)
NoScroll == [dir |-> "none", run |-> 0, swings |-> 0]
ZeroCounters == [actions |-> 0, recoveries |-> 0, quiet |-> 0, total |-> 0]
MaxSwings == IF MaxQuiet + 1 > 4 THEN MaxQuiet + 1 ELSE 4

\* The stall budget ends a run before the scrolls that have spent their
\* strategy in one direction can swing between two (3 + 4 - 1 >= 5).
ASSUME RunwayAssumption ==
    /\ MaxQuiet >= 2
    /\ MaxStall <= MaxQuiet + MaxSwings - 1

\* Mutant: progress forgives the actions that taught nothing.
CountForgiving(meaningful) ==
    [actions |-> IF dispatched THEN tracker.actions + 1 ELSE tracker.actions,
     recoveries |-> tracker.recoveries,
     quiet |-> IF meaningful THEN 0 ELSE tracker.quiet + 1,
     total |-> IF meaningful THEN 0 ELSE tracker.total + 1]

Count(meaningful) ==
    [actions |-> IF dispatched THEN tracker.actions + 1 ELSE tracker.actions,
     recoveries |-> tracker.recoveries,
     quiet |-> IF meaningful THEN 0 ELSE tracker.quiet + 1,
     total |-> IF meaningful THEN tracker.total ELSE tracker.total + 1]

\* replanRemaining
Replan(t) == [t EXCEPT !.recoveries = @ + 1]

ScrollBudget(meaningful) ==
    IF meaningful THEN NoScroll
    ELSE IF kind \notin Scrolls THEN scroll
    ELSE [dir |-> kind,
          run |-> IF scroll.dir = kind THEN scroll.run + 1 ELSE 1,
          swings |-> IF scroll.dir \in Scrolls \ {kind} THEN scroll.swings + 1 ELSE 1]

Stagnation(meaningful, s) ==
    IF meaningful \/ kind \notin Scrolls THEN "NONE"
    ELSE IF s.swings >= MaxSwings THEN "OSCILLATION"
    ELSE IF s.run >= MaxQuiet THEN "NO_EFFECT"
    ELSE "NONE"

NoRecord == [run |-> 0, counters |-> ZeroCounters]

BoundReached(t) ==
    \/ t.actions >= MaxTotalActions
    \/ t.recoveries >= MaxReplans
    \/ t.total >= MaxStall
    \/ PlanSize[runs] >= MaxSubgoals

-----------------------------------------------------------------------------
ResetRun ==
    /\ step' = 0 /\ retry' = 0 /\ kind' = "none" /\ proposed' = "none"
    /\ dispatched' = FALSE /\ scrollSpent' = FALSE
    /\ tracker' = ZeroCounters /\ prints' = 0
    /\ scroll' = NoScroll /\ stagnation' = "NONE"
    /\ planner' = [attempts |-> [c \in Categories |-> 0],
                   strategy |-> [c \in Categories |-> "CONTINUE"]]
    /\ calls' = <<>>
    /\ acted' = FALSE /\ fruitless' = 0 /\ verdicts' = [c \in Verdicts |-> 0]

Init ==
    /\ pc = "idle"
    /\ step = 0 /\ retry = 0 /\ kind = "none" /\ proposed = "none"
    /\ dispatched = FALSE /\ scrollSpent = FALSE
    /\ tracker = ZeroCounters /\ prints = 0
    /\ scroll = NoScroll /\ stagnation = "NONE"
    /\ planner = [attempts |-> [c \in Categories |-> 0],
                  strategy |-> [c \in Categories |-> "CONTINUE"]]
    /\ calls = <<>>
    /\ stored = NoRecord /\ runs = 0
    /\ acted = FALSE /\ fruitless = 0 /\ verdicts = [c \in Verdicts |-> 0]

\* The action of a cycle is local to it; every way out of the loop is
\* followed by clearTracker.
Leave(place) == pc' = place /\ proposed' = "none"
End == Leave("over") /\ stored' = NoRecord
Again == Leave("top") /\ UNCHANGED stored
EndIf(p) == IF p THEN End ELSE Again

\* a step that entered state.steps
Record == kind' = proposed

\* runTask, for a task or for the confirmed rest of one.  The runId is made
\* here, so loadTrackerForTask finds a record only of another run, and
\* removes it; initialize would undo the restoration of any other.
Start ==
    /\ ~Running /\ runs < MaxRuns
    /\ runs' = runs + 1
    /\ stored' = IF stored.run # runs' THEN NoRecord ELSE stored
    /\ ResetRun
    /\ pc' = "top"

\* The worker is evicted at an await, or runTask is left by an exception:
\* what it held in memory is lost.
Die ==
    /\ Running \/ pc = "parked"
    /\ pc' = "down"
    /\ ResetRun
    /\ UNCHANGED <<stored, runs>>

\* Everything else that ends a run: the goal is satisfied, the task is
\* cancelled or superseded, a gate blocks for good, the provider is gone.
\* Nothing reads again what the loop held.
Stop ==
    /\ Running
    /\ pc' = "over" /\ stored' = NoRecord
    /\ ResetRun
    /\ UNCHANGED runs

StepsLeft == step < MaxSteps

OutOfSteps ==
    /\ pc = "top" /\ ~StepsLeft
    /\ End
    /\ UNCHANGED <<step, retry, kind, dispatched, scrollSpent, memory, recovery, runs, history>>

\* A cycle perceives the page, accounts for the action of the last recorded
\* step, saves the record, replans on a loop or a stall, drops the scroll
\* strategy for good when its budget is drained, and checks the bounds.  The
\* record is saved before the replanning is counted; the outcome of the
\* recovery that is planned is not looked at.
Observe ==
    /\ pc = "top" /\ StepsLeft
    /\ \E meaningful, looping \in BOOLEAN :
          /\ prints = 0 => meaningful   \* the first one is new
          /\ prints' = IF prints < Window THEN prints + 1 ELSE Window
          /\ looping => prints' > MaxRepeats
          /\ scroll' = ScrollBudget(meaningful)
          /\ stagnation' = Stagnation(meaningful, scroll')
          /\ LET counted == Count(meaningful)
             IN  /\ tracker' = IF looping \/ counted.quiet >= MaxQuiet
                               THEN Replan(counted) ELSE counted
                 /\ IF BoundReached(tracker')
                    THEN End
                    ELSE /\ Leave("propose")
                         /\ stored' = [run |-> runs, counters |-> counted]
          /\ fruitless' = IF acted /\ ~meaningful THEN fruitless + 1 ELSE fruitless
    /\ IF stagnation' # "NONE" /\ ~scrollSpent
       THEN scrollSpent' = TRUE /\ Plan(stagnation')
       ELSE UNCHANGED <<scrollSpent, planner>>
    /\ acted' = FALSE
    /\ UNCHANGED <<step, retry, kind, dispatched, calls, runs, verdicts>>

CountTurn == step' = step + 1

\* The turn of the provider.  A terminal proposal that nothing supports leaves
\* no step.
Unsupported ==
    /\ pc = "propose"
    /\ Again
    /\ CountTurn
    /\ UNCHANGED <<retry, kind, dispatched, scrollSpent, memory, recovery, runs, history>>

\* An answer about another page is worth one new perception.
StaleAnswer ==
    /\ pc = "propose"
    /\ EndIf(Exhausted("STALE_PERCEPTION"))
    /\ Plan("STALE_PERCEPTION")
    /\ CountTurn
    /\ UNCHANGED <<retry, kind, dispatched, scrollSpent, memory, calls, runs, history>>

\* A scroll is recorded but not dispatched once that strategy is spent.
Propose ==
    /\ pc = "propose"
    /\ \E action \in Actions :
          IF action \in Scrolls /\ scrollSpent
          THEN kind' = action /\ Again
          ELSE pc' = "gates" /\ proposed' = action /\ UNCHANGED <<kind, stored>>
    /\ CountTurn
    /\ UNCHANGED <<retry, dispatched, scrollSpent, memory, recovery, runs, history>>

\* Grounding, M5, the critic, the privacy policy and the safety review refuse
\* alike; no recovery any of them plans is looked at.
Refuse ==
    /\ pc = "gates"
    /\ Record
    /\ retry' = retry + 1
    /\ EndIf(retry' > MaxRetries)
    /\ UNCHANGED <<step, dispatched, scrollSpent, memory, recovery, runs, history>>

\* A confirmation is asked for: the loop is left, and with it the record.
Park ==
    /\ pc = "gates"
    /\ Record
    /\ Leave("parked") /\ stored' = NoRecord
    /\ UNCHANGED <<step, retry, dispatched, scrollSpent, memory, recovery, runs, history>>

\* The page is no longer the one the action was planned on.
NotFresh ==
    /\ pc = "gates"
    /\ Record
    /\ EndIf(Exhausted("STALE_PERCEPTION"))
    /\ Plan("STALE_PERCEPTION")
    /\ UNCHANGED <<step, retry, dispatched, scrollSpent, memory, calls, runs, history>>

\* executeAction; an open commit proven not to have happened gives the retries back
Dispatch ==
    /\ pc = "gates"
    /\ pc' = "act"
    /\ retry' \in {retry, 0}
    /\ dispatched' = TRUE
    /\ acted' = TRUE
    /\ UNCHANGED <<step, kind, proposed, scrollSpent, memory, recovery, stored, runs,
                   fruitless, verdicts>>

ExecutionFails ==
    /\ pc = "act"
    /\ Record
    /\ retry' = retry + 1
    /\ EndIf(retry' > MaxRetries)
    /\ UNCHANGED <<step, dispatched, scrollSpent, memory, recovery, runs, history>>

\* The state before or after the action could not be read.
EffectUnread ==
    /\ pc = "act"
    /\ Record
    /\ retry' = retry + 1
    /\ EndIf(Exhausted("EFFECT_UNVERIFIABLE"))
    /\ Plan("EFFECT_UNVERIFIABLE")
    /\ verdicts' = [verdicts EXCEPT !["EFFECT_UNVERIFIABLE"] = @ + 1]
    /\ UNCHANGED <<step, dispatched, scrollSpent, memory, calls, runs,
                   acted, fruitless>>

\* No effect, but the destination holds anyway: no step is recorded.
AlreadyThere ==
    /\ pc = "act"
    /\ Again
    /\ UNCHANGED <<step, retry, kind, dispatched, scrollSpent, memory, recovery, runs, history>>

\* The verifier saw no effect, or could not tell.
NoEffect ==
    /\ pc = "act"
    /\ Record
    /\ retry' = retry + 1
    /\ \E code \in {"NO_EFFECT", "EFFECT_UNVERIFIABLE"} :
          LET category == IF code = "NO_EFFECT" /\ stagnation = "OSCILLATION"
                          THEN "OSCILLATION" ELSE code
          IN  /\ verdicts' = [verdicts EXCEPT ![category] = @ + 1]
              /\ Plan(category)
              /\ IF Exhausted(category) \/ retry' > MaxRetries
                 THEN End /\ UNCHANGED calls
                 ELSE \E g \in Subgoals, t \in Targets :
                        LET key == [code |-> code, subgoal |-> g, target |-> t]
                        IN  /\ calls' = Append(calls, [key |-> key, strategy |-> Decide(key)])
                            /\ EndIf(Decide(key) = "ABORT")
    /\ UNCHANGED <<step, dispatched, scrollSpent, memory, runs, acted, fruitless>>

EffectVerified ==
    /\ pc = "act"
    /\ Record
    /\ retry' = 0
    /\ Again
    /\ UNCHANGED <<step, dispatched, scrollSpent, memory, recovery, runs, history>>

Cycle ==
    \/ OutOfSteps \/ Observe
    \/ Unsupported \/ StaleAnswer \/ Propose
    \/ Refuse \/ Park \/ NotFresh \/ Dispatch
    \/ ExecutionFails \/ EffectUnread \/ AlreadyThere \/ NoEffect \/ EffectVerified

Next == Start \/ Stop \/ Die \/ Cycle

Spec == Init /\ [][Next]_vars

-----------------------------------------------------------------------------
\* Every variable keeps its type: no run takes more steps than it may, and the
\* record in storage names a run that was started (agentLoop.ts, maxSteps).
TypeOK ==
    /\ pc \in {"idle", "top", "propose", "gates", "act", "parked", "over", "down"}
    /\ step \in 0 .. MaxSteps /\ retry \in Nat /\ runs \in 0 .. MaxRuns
    /\ kind \in Kinds /\ proposed \in Kinds
    /\ dispatched \in BOOLEAN /\ scrollSpent \in BOOLEAN /\ acted \in BOOLEAN
    /\ tracker \in Counters
    /\ prints \in 0 .. Window
    /\ scroll \in [dir : Scrolls \cup {"none"}, run : Nat, swings : Nat]
    /\ stagnation \in {"NONE", "NO_EFFECT", "OSCILLATION"}
    /\ planner \in [attempts : [Categories -> Nat], strategy : [Categories -> Strategies]]
    /\ calls \in Seq(Decisions)
    /\ stored \in [run : 0 .. MaxRuns, counters : Counters]
    /\ fruitless \in Nat
    /\ verdicts \in [Verdicts -> Nat]

\* The tracker never counts more actions than the loop has steps, although it
\* counts observations: a cycle that records nothing is counted as well, and a
\* repeated action twice (agentLoop.ts countsAsAction).  So a run of ten steps
\* cannot be ended by the budget of twenty-four actions.
ActionsAreSteps == tracker.actions <= step

\* Whatever is learnt in between, no action after which nothing was learnt is
\* forgotten, and a run that has dispatched MaxStall of them dispatches no other
\* (agentLoop.ts, "the pre-existing stall budget terminates the run"): a
\* productive cycle gives the strategy its runway back, never the run its budget.
FruitlessBounded ==
    /\ fruitless <= tracker.total
    /\ pc \in {"propose", "gates", "act"} => fruitless < MaxStall

\* A run goes on only while every kind of failed effect is within the budget
\* of its recoveries, however successes, refusals and the observations that
\* spend the same budgets come between: in particular it does not survive a
\* second effect that could not be read (recoveryEngine.ts, EFFECT_UNVERIFIABLE
\* "EXACTLY ONE re-perception"; agentLoop.ts 'must never mean "do it again"').
BudgetsEndRun ==
    Running => \A c \in Verdicts : verdicts[c] <= Budget[c]

\* None of RecoveryEngine's budgets ever ends a run: before one is reached the
\* planner has ended it.  The two are separate classes with separate budgets
\* (recoveryEngine.ts); that the second never speaks for its own rests on the stall
\* budget, which leaves no room for an oscillation once the scrolls are spent.  It
\* aborts only a failure it must not look at, one of whose ids looks like a
\* personal value.
EngineAbortsOnlyRaw ==
    \A i \in DOMAIN calls : calls[i].strategy = "ABORT" => RawShaped(calls[i].key)

(* Why they hold.                                                          *)

\* An action that is counted by the next observation has a step of its own.
StepInv ==
    /\ ActionsAreSteps
    /\ pc \in {"gates", "act"} \/ (pc = "top" /\ dispatched) => tracker.actions < step
    /\ pc = "propose" => step < MaxSteps

\* What taught nothing is counted, and the count ends the run.
StallInv ==
    /\ fruitless <= tracker.total /\ tracker.total <= MaxStall
    /\ Running => tracker.total < MaxStall

\* Scrolls are counted as observations that taught nothing, in one of the two
\* ways; once the strategy was spent in one direction, swings come on top.
ScrollInv ==
    /\ scroll.run <= tracker.total
    /\ scroll.run >= 2 => scroll.swings = 1
    /\ scrollSpent /\ planner.attempts["OSCILLATION"] = 0 =>
          tracker.total >= MaxQuiet /\ tracker.total + 1 >= MaxQuiet + scroll.swings
    /\ pc \in {"propose", "gates", "act"} /\ stagnation = "OSCILLATION" =>
          planner.attempts["OSCILLATION"] >= 1

\* The engine is asked about three failures at most, since an oscillation is
\* never one of them: two that are seen again, the third replanned.
RecoveryInv ==
    /\ Running => \A c \in Verdicts : /\ verdicts[c] <= Budget[c]
                                      /\ verdicts[c] <= planner.attempts[c]
    /\ Running => Len(calls) <= verdicts["NO_EFFECT"] + verdicts["EFFECT_UNVERIFIABLE"]
    /\ Running => \A i \in DOMAIN calls : i <= 2 => calls[i].strategy = "REPERCEIVE"
    /\ EngineAbortsOnlyRaw

HorizonInv == StepInv /\ StallInv /\ ScrollInv /\ RecoveryInv

(* What comments and tests say, and the code does not do.                  *)

\* "A revived worker rebuilt the tracker from zero, so a task that had already
\* consumed 20 of 24 actions silently received 24 more"
\* (longHorizonPersistence.ts): a run started where a record was left behind
\* goes on from its counters.
RestartRemembers ==
    [][pc = "down" /\ pc' = "top" /\ stored # NoRecord =>
        tracker'.actions >= stored.counters.actions]_vars
=============================================================================
