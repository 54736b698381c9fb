\* two moves, every reply arrives
SPECIFICATION Spec
CONSTANTS
    Calls = 2
    RetryMax = 1
    GasLevels = {2, 4}
    MaxLost = 0
    MaxForeign = 0
    MaxCrash = 1
    Stale = FALSE
    Mute = TRUE
    Unrecognised = FALSE
CHECK_DEADLOCK FALSE
INVARIANT OneNoncePerMove
INVARIANT NoNonceGap
PROPERTY KeepsPromise
