\* two positions in one pool, a day of three ticks
SPECIFICATION LiveSpec
CONSTANTS
    Positions = {p, q}
    Tracked = {p}
    Intervals = {1, 2}
    DailyMax = 2
    Day = 3
    MaxEvents = 1
    TriggerCount = 2
    TriggerWindowMultiple = 1
    QuietWindowMultiple = 1
    MaxAge = 4
    MaxWait = 3
CHECK_DEADLOCK FALSE
INVARIANT TypeOK
INVARIANT PoolCapHolds
PROPERTY SpacedApart
PROPERTY WaitEnds
