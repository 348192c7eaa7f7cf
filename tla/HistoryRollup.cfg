SPECIFICATION Spec
CONSTANTS
    Agents = {a}
    Hour = 2
    Day = 2
    Lookback <- MCLookback
    Retention = 4
    MaxPass = 1
    MaxTime = 9
    MaxAge = 4
    MaxSamples = 2
    MaxFaults = 2
INVARIANTS
    TypeOK
    CountedBeforeDeleted
    DailyMatchesHourly
PROPERTIES
    EventuallyCaughtUp
CHECK_DEADLOCK FALSE
