\* three moves, one outside event, an endpoint that may be behind
SPECIFICATION Spec
CONSTANTS
    Behind = TRUE
    Held = {1}
    MaxIterations = 1
    SwapGas = 1
    MaxCoins = 2
    MaxMoves = 3
    MaxEvents = 1
CHECK_DEADLOCK FALSE
INVARIANT TypeOK
INVARIANT GasBooked
INVARIANT FeesNeverOver
INVARIANT FeesExact
INVARIANT CoinsToldApart
