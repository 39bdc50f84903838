SPECIFICATION ServicesSpec
CONSTANTS
    Spaces = {s1, s2}
    NoSpace = NoSpace
    MaxTools = 1
    MaxCrashes = 1
    MaxEvents = 3
    MaxTurns = 2
    MaxDrops = 1
    Untouched = 2
    MaxMessages = 9
    MaxSent = 2
    Edits = TRUE
    Chats = {h1, h2}
    Posts = {p1, p2}
    NoChat = NoChat
    Cap = 1
    MaxPosts = 3
    MaxDays = 1
    MaxNotes = 5
    MaxOpted = 2
    RetryDelays = 3
    JobCalls = {j1, j2}
    NoJob = NoJob
    MaxJobs = 3
    Uploaders = {u1, u2}
    Attempts = 3
    MaxProgress = 2
    MaxSaves = 3
    MaxTyped = 2
    MaxAsks = 2
    MaxPresses = 2
INVARIANT ServicesTypeOK
INVARIANT HeldIsUp
PROPERTY NeverReplaced
INVARIANT OrphansAreExplained
PROPERTY ServicesAnswer
INVARIANT ChatStreamComplete
INVARIANT DropsAreExplained
 
INVARIANT CallsAreAnswered
 
INVARIANT HistoryInOrder
INVARIANT ChargedOnce
 
INVARIANT LossesAreLate
INVARIANT RunningJobsAreExplained
INVARIANT UploadedIsInDataset
INVARIANT PromptMeansIdle
CHECK_DEADLOCK FALSE
