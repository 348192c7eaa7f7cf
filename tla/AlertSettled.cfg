SPECIFICATION FairSpec
CONSTANTS
    a1 = a1
    cpu = cpu
    disk = disk
    p1 = p1
    p2 = p2
    Agents <- OneAgent
    Types <- OneType
    AnyRule = any
    Producers <- TwoProducers
    Channels <- OneTwo
    Hung <- One
    QueueSize = 1
    PendingCap = 1
    MaxRetry = 2
    Cooldowns <- Two
    Durations <- None
    HistoryEnabled = TRUE
    MaxTime = 2
    MaxEvents = 3
    MaxFaults = 1
    MaxRestarts = 1
PROPERTIES
    EventuallySettled
