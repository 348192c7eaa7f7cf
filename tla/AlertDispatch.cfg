SPECIFICATION Spec
CONSTANTS
    a1 = a1
    cpu = cpu
    disk = disk
    p1 = p1
    p2 = p2
    Agents <- OneAgent
    Types <- OneType
    AnyRule = any
    Producers <- TwoProducers
    Channels <- OneTwo
    Hung <- None
    QueueSize = 1
    PendingCap = 1
    MaxRetry = 2
    Cooldowns <- Two
    Durations <- Two
    HistoryEnabled = TRUE
    MaxTime = 3
    MaxEvents = 3
    MaxFaults = 2
    MaxRestarts = 1
INVARIANTS
    TypeOK
    CooldownRespected
    EachEventOnce
    SilencesSurvive
PROPERTIES
    SuppressionJustified
SYMMETRY Symmetric
