SPECIFICATION Spec
CONSTANTS
    Agents = {a, b}
    Handlers = {h1, h2}
    RingCap = 1
    Load <- MCLoad
    SpikeMin = 4
    Interval = 1
    StaleAfter = 1
    OfflineAfter = 2
    Retention = 1
    MaxTime = 3
    MaxIngest = 3
    MaxFaults = 2
SYMMETRY Symmetry
INVARIANTS
    TypeOK
    NeverShownFresher
    StaleJustified
    AckedStored
CHECK_DEADLOCK FALSE
