\* two chunks, two attempts of each quote, one send that goes out unnoticed
SPECIFICATION Spec
CONSTANTS
    Chunks = 2
    MaxAttempts = 2
    MaxLost = 1
CHECK_DEADLOCK FALSE
INVARIANT TypeOK
INVARIANT NoDoubleSwap
INVARIANT AnswerIsTrue
INVARIANT GasCounted
