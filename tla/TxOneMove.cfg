\* one move, every fault of the network but a foreign transaction
SPECIFICATION Spec
CONSTANTS
    Calls = 1
    RetryMax = 1
    GasLevels = {2, 4}
    MaxLost = 2
    MaxForeign = 0
    MaxCrash = 0
    Stale = TRUE
    Mute = TRUE
    Unrecognised = TRUE
CHECK_DEADLOCK FALSE
INVARIANT TypeOK
INVARIANT ConfirmedMeansMoved
INVARIANT CancelledIsFinal
