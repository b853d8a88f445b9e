---------------------------- MODULE MCDecisions ----------------------------
(* What a run decides, side by side: which page and which steps the task   *)
(* asks for (TaskDecomposer), what it remembers (AgentMemory), whether an  *)
(* action may be done (GateChain), what doing it came to (Execution),      *)
(* whether the goal is reached (GoalVerdict).  A behaviour is of one of    *)
(* them, the others stand still.                                           *)
EXTENDS MCGateChain, MCExecution, MCGoalVerdict, TaskDecomposer, AgentMemory

\* the texts: up to three words of all, four of some, five of those that
\* decide which page is meant
Deciding5 == {"open", "already", "the", "catalog", "search", "on", "http"}
Deciding4 == Deciding5 \cup {"opened", "page", "results", "shoes"}
AllWords ==
    Deciding4 \cup {"navigate", "to", "http-bad", "http-shop", "sign", "in", "buy", "form",
                    "payment", "exploit"}

MCTexts ==
    UNION {[1 .. n -> AllWords] : n \in 0 .. 3}
    \cup [1 .. 4 -> Deciding4] \cup [1 .. 5 -> Deciding5]

VARIABLE part  \* the decision this behaviour is about

GateRests == GateInit /\ gTask = {"search"}
ExecutionRests == ExecutionInit /\ xDoc = CHOOSE d \in Docs : d.dialog
GoalRests == GoalInit /\ goal = Goal({}) /\ plan = <<>>
TaskRests == DecomposerInit /\ dSaid = <<>> /\ dFrom = "other"

DecisionsInit ==
    /\ MemoryInit
    /\ \/ part = "task" /\ GateRests /\ ExecutionRests /\ GoalRests /\ DecomposerInit
       \/ part = "memory" /\ GateRests /\ ExecutionRests /\ GoalRests /\ TaskRests
       \/ part = "gates" /\ GateInit /\ ExecutionRests /\ GoalRests /\ TaskRests
       \/ part = "execution" /\ GateRests /\ ExecutionInit /\ GoalRests /\ TaskRests
       \/ part = "goal" /\ GateRests /\ ExecutionRests /\ GoalInit /\ TaskRests

deciding == <<gateVars, executionVars, goalVars>>
beside == <<decomposerVars, memoryVars, part>>

TaskSteps ==
    part = "task" /\ DecomposerNext /\ UNCHANGED <<deciding, memoryVars, part>>
MemorySteps ==
    part = "memory" /\ MemoryNext /\ UNCHANGED <<deciding, decomposerVars, part>>
GateSteps ==
    part = "gates" /\ GateNext /\ UNCHANGED <<executionVars, goalVars, beside>>
ExecutionSteps ==
    part = "execution" /\ ExecutionNext /\ UNCHANGED <<gateVars, goalVars, beside>>
GoalSteps ==
    part = "goal" /\ GoalNext /\ UNCHANGED <<gateVars, executionVars, beside>>

DecisionsNext == TaskSteps \/ MemorySteps \/ GateSteps \/ ExecutionSteps \/ GoalSteps
DecisionsSpec == DecisionsInit /\ [][DecisionsNext]_<<deciding, beside>>
=============================================================================
