CONSTANTS
    None = None
    Setups <- AllSetups
    PageSize = 2
    CatalogLimit = 2
    MaxPages = 3
    maxConcurrentSources = 2
    SuspiciousPercent = 50
    MaxWalk = 3
    MaxMoves = 1
    MaxFaults = 1
SPECIFICATION Spec
CHECK_DEADLOCK FALSE
INVARIANTS
    TypeOK
    WholeWhenCached
    OneVoicePerStore
    OfferedOnce
    OneFunctionPerKey
PROPERTIES
    AnswerComes
