SPECIFICATION FairSpec
CONSTANTS
    QueueSize = 1
    SpoolMax = 2
    MaxRetries = 1
    SpoolEnabled = TRUE
    Poison <- OldestPoison
    MaxSnaps = 4
    MaxFaults = 0
    MaxHalts = 0
PROPERTIES
    OverflowDelivered
