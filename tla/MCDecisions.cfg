SPECIFICATION DecisionsSpec
CONSTANTS
    GateTasks <- MCGateTasks
    GatePages <- MCGatePages
    GateActions <- MCGateActions
    MaxRetries = 1
    MaxCycles = 4
    Docs <- MCDocs
    MaxActions = 2
    MaxPolls = 1
    MaxChanges = 1
    Tasks <- MCTasks
    Contexts <- MCContexts
    Requests <- MCRequests
    MaxLooks = 2
    None = None
    TaskTexts <- MCTexts
    Sites = {"here", "there"}
    MaxKept = 1
    MaxRecords = 2
    MemoryRuns = 2
CHECK_DEADLOCK FALSE
INVARIANTS LeavesJudged EffectWasMeasured EffectIsItsOwn SuccessWasRead OnlyWhenAsked DeclaredIsPlanned
PROPERTIES AbsenceProvesNothing FailuresAreRecalled
