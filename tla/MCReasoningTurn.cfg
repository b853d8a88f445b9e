SPECIFICATION Spec
CONSTANTS
    None = None
    Classes = {"INFORMATION", "INTERACTIVE"}
    MaxTurns = 2
    ProviderRetries = 2
    AttemptTime = 3
    MaxHonoured = 2
    Hints = {1, 5}
    PostTime = 2
    SleepTime = 1
    LimitRetries <- MCLimitRetries
    Formats <- MCFormats
    HasFallback = TRUE
CHECK_DEADLOCK FALSE
INVARIANTS RetryOnlyWhatMayChange SilenceBounded
PROPERTIES TurnSettles
