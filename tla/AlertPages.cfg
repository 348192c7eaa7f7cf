SPECIFICATION FairSpec
CONSTANTS
    a = a
    b = b
    x = x
    y = y
    Agents = {a, b}
    NoAgent = NoAgent
    Alerts = {x, y}
    Of <- MCOf
    Rule <- MCRule
    Fields = {"cpuPercent"}
    None = None
    MaxReloads = 2
    MaxPolls = 1
    MaxPosts = 2
    MaxPuts = 2
    MaxMoves = 3
    MaxOthers = 1
    MaxFaults = 1
INVARIANTS
    TypeOK
    AckShownStored
    FormCurrent
    DiskFollows
PROPERTIES
    EventuallyShown
CHECK_DEADLOCK FALSE
