SPECIFICATION FairSpec
CONSTANTS
    Cap = 1
    MaxConns = 2
    MaxWire = 1
    MaxPush = 2
    MaxMoves = 1
    MaxFaults = 1
INVARIANTS
    TypeOK
    NoSendOnClosed
    NoneHeldBack
PROPERTIES
    EventuallyFresh
CHECK_DEADLOCK FALSE
