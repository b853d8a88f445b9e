SPECIFICATION BoundarySpec
CONSTANTS
    Errands <- MCErrands
    Portals <- MCPortals
    TabsAtStart <- MCTabs
    Browsed <- MCBrowsed
    MaxStarts = 2
    MaxBrowsed = 1
    MaxLooked = 2
    TurnTasks <- MCTurnTasks
    SeenPages <- MCSeenPages
    MaxCandidates = 3
    MaxTurnsKept = 1
    MaxMessages = 2
    MaxReadings = 2
    Pages <- MCPages
    Readers = {"r1"}
    OtherTab = "user"
    Scale = 2
    Height = 8
    Drawn = 20
    MaxOffered = 3
    MaxMoves = 2
    Completions <- MCCompletions
    Declarations <- MCDeclarations
    Urls = {"a", "b"}
    MaxSteps = 2
    Stages <- MCStages
    LoopEnds <- MCLoopEnds
    Wordings = {"a"}
    MaxSaid = 2
    MaxStages = 1
    MaxInFlight = 2
    MaxOpened = 1
    MaxReloads = 1
    None = None
CHECK_DEADLOCK FALSE
INVARIANTS NeverHijacks OneStrangePage ConversationIsLatest SensitiveKept ScannedWhole ToldTruthfully
PROPERTIES TouchesAsLatest NeverGuessed NeverWorksAgain
