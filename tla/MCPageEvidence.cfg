SPECIFICATION Spec
CONSTANTS
    Sites = {"A", "B"}
    Persistent = {"A"}
    Keys = {"k", "o"}
    Subject = {"k"}
    Claims = {"a", "b", "raw", "shaped"}
    Raw = {"raw"}
    Shaped = {"shaped"}
    Displays <- MCDisplays
    MaxFacts = 3
    MaxRecords = 3
    NeedsEvidence = TRUE
    Builds = {TRUE, FALSE}
    MaxSteps = 2
    MaxMoves = 1
    None = None
CHECK_DEADLOCK FALSE
INVARIANTS InformedSuccess
PROPERTIES StaleStaysStale AnswerStands
