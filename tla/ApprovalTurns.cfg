SPECIFICATION FairSpec
CONSTANTS
    Calls = {a, b}
    MaxBatch = 2
    MaxIterations = 2
    MaxSubs = 4
    MaxCrashes = 1
    Faults = {"interrupt"}
 
INVARIANT EveryOperationAnswers
INVARIANT UndecidedStaysPending
PROPERTY DecisionsAreTaken
CHECK_DEADLOCK FALSE
