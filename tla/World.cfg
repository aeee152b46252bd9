SPECIFICATION EcsSpec
CONSTANTS
    MaxId = 3
    MaxVersion = 2
    Values <- TwoValues
    HotSize = 2
    MaxPending = 1
    MaxCommands = 2
    MaxDeferred = 2
    MaxBuffers = 2
    None = None
    Nothing = Nothing
    Plans <- CarefulPlans
INVARIANTS
    RecordsAgree
    WalkVisitsAll
    ViewExact
    PlaceholdersExact
PROPERTY
    KeepsPromise
CHECK_DEADLOCK FALSE
