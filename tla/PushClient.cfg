SPECIFICATION FairSpec
CONSTANTS
    QueueSize = 2
    SpoolMax = 2
    MaxRetries = 2
    SpoolEnabled = TRUE
    Poison <- SomePoison
    MaxSnaps = 6
    MaxFaults = 1
    MaxHalts = 1
INVARIANTS
    TypeOK
    PipelineOrdered
    Accounted
PROPERTIES
    OutboxSpec
    EventuallyDelivered
