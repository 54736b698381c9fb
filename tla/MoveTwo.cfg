\* two positions contend for the lock while the app stops, with cleanups
SPECIFICATION Spec
CONSTANTS
    Positions = {p1, p2}
    Closed = {}
    DryRuns = {FALSE}
    AutoCompound = FALSE
    Cleanups = TRUE
    Failures = {}
    StopEarly = FALSE
    MaxRequests = 2
    p1 = p1
    p2 = p2
INVARIANT LockAccounted
INVARIANT ExitIsClear
INVARIANT WaitsOnlyForMoves
INVARIANT RequestHoldsScans
CHECK_DEADLOCK FALSE
SYMMETRY AnyOrder
