SPECIFICATION FairSpec
CONSTANTS
    Agents = {a, b}
    Local = Local
    Ranges = {"24h", "7d"}
    Width <- MCWidth
    Limit = 2
    Reading <- MCReading
    MaxSamples = 3
    MaxUnderWay = 2
    MaxMoves = 3
    MaxFaults = 1
INVARIANTS
    TypeOK
    SamplesOwn
    InFrame
    
PROPERTIES
    EventuallyCurrent
CHECK_DEADLOCK FALSE
