\* four blocks, two moves, two of the reloads, crashes, withdrawals and failures
SPECIFICATION Spec
CONSTANTS
    MaxBlock = 4
    MaxMoves = 2
    MaxEvents = 2
CHECK_DEADLOCK FALSE
INVARIANT TypeOK
INVARIANT CountedOnce
INVARIANT CoveredCounted
PROPERTY NeverLost
