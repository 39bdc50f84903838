SPECIFICATION ProviderSpec
CONSTANTS
    Calls = {a, b}
    MaxBatch = 2
    MaxIterations = 3
    RetryLimit = 2
    MaxAttempts = 3
    MaxCap = 1
    MaxTurns = 2
    Smoke = TRUE
INVARIANT TypeOK
 
 
INVARIANT GatesHold
 
PROPERTY TurnsEnd
CHECK_DEADLOCK FALSE
