\* one move, lost replies and a foreign transaction, receipt waits answered
SPECIFICATION FairSpec
CONSTANTS
    Calls = 1
    RetryMax = 1
    GasLevels = {2}
    MaxLost = 1
    MaxForeign = 1
    MaxCrash = 0
    Stale = TRUE
    Mute = FALSE
    Unrecognised = FALSE
CHECK_DEADLOCK FALSE
PROPERTY EveryCallEnds
