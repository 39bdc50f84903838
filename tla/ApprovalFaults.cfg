SPECIFICATION Spec
CONSTANTS
    Calls = {a, b}
    MaxBatch = 2
    MaxIterations = 2
    MaxSubs = 3
    MaxCrashes = 1
    Faults = {"abandon", "resend", "interrupt", "storefail"}
SYMMETRY Symmetry
INVARIANT TypeOK
INVARIANT AloneLaunchedOnce
PROPERTY OnlyApprovedStarts
CHECK_DEADLOCK FALSE
