SPECIFICATION OutputSpec
CONSTANTS
    Stages <- MCStages
    LoopEnds <- MCLoopEnds
    Wordings = {"a"}
    MaxSaid = 2
    MaxStages = 1
    MaxInFlight = 2
    MaxOpened = 1
    MaxReloads = 1
    None = None
CHECK_DEADLOCK FALSE
INVARIANT ScreenedOnly
