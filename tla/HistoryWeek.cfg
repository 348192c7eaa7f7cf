SPECIFICATION Spec
CONSTANTS
    Agents = {a, b}
    Local = Local
    Ranges = {"24h", "7d"}
    Width <- MCWidth
    Limit = 2
    Reading <- MCWhole
    MaxSamples = 3
    MaxUnderWay = 2
    MaxMoves = 3
    MaxFaults = 1
INVARIANTS
    RangesRender
CHECK_DEADLOCK FALSE
