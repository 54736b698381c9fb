\* one position under fairness, first closed, in a dry run or not, with
\* every outcome of a move and early stops
SPECIFICATION LiveSpec
CONSTANTS
    Positions = {p1}
    Closed = {p1}
    DryRuns = {TRUE, FALSE}
    AutoCompound = TRUE
    Cleanups = FALSE
    Failures = {"failed", "aborted", "volatile"}
    StopEarly = TRUE
    MaxRequests = 3
    p1 = p1
INVARIANT TypeOK
INVARIANT NoMoveWhileScanRuns
INVARIANT LoopAlive
PROPERTY RequestIsMade
PROPERTY HeldStopExits
CHECK_DEADLOCK FALSE
