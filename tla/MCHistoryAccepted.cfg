SPECIFICATION WireSpec
CONSTANTS
    Completions <- MCCompletions
    Declarations <- MCDeclarations
    Urls = {"a", "b"}
    MaxSteps = 2
    None = None
CHECK_DEADLOCK FALSE
INVARIANTS HistoryAccepted
