SPECIFICATION EcsSpec
CONSTANTS
    MaxId = 3
    MaxVersion = 2
    Values <- TwoValues
    HotSize = 1
    MaxPending = 1
    MaxCommands = 2
    MaxDeferred = 2
    MaxBuffers = 2
    None = None
    Nothing = Nothing
    Plans <- LoosePlans
PROPERTY
    NoRevival
CHECK_DEADLOCK FALSE
