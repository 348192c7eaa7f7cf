SPECIFICATION FairSpec
CONSTANTS
    Agents = {a, b}
    NoAgent = NoAgent
    AgentPages = {"overview", "diagnostics"}
    MaxUnderWay <- MCUnderWay
    None = None
    MaxPush = 1
    MaxClicks = 3
    MaxChanges = 1
    MaxFaults = 1
INVARIANTS
    HubTypeOK
    OfflineShownInHistory
PROPERTIES
    EventuallyOwn
CHECK_DEADLOCK FALSE
