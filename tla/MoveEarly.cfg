\* Stop Managing reaches a position that is starting
SPECIFICATION Spec
CONSTANTS
    Positions = {p1}
    Closed = {}
    DryRuns = {FALSE}
    AutoCompound = FALSE
    Cleanups = FALSE
    Failures = {"failed"}
    StopEarly = TRUE
    MaxRequests = 1
    p1 = p1
PROPERTY NoMoveUnmanaged
CHECK_DEADLOCK FALSE
