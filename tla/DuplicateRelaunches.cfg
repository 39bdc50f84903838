SPECIFICATION Spec
CONSTANTS
    Calls = {a, b}
    MaxBatch = 2
    MaxIterations = 2
    MaxSubs = 3
    MaxCrashes = 0
    Faults = {"resend"}
SYMMETRY Symmetry
INVARIANT LaunchedOnce
CHECK_DEADLOCK FALSE
