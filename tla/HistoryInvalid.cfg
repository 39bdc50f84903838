SPECIFICATION ContextSpec
CONSTANTS
    Untouched = 2
    MaxMessages = 10
    MaxSent = 2
    Edits = FALSE
INVARIANT HistoryIsValid
CHECK_DEADLOCK FALSE
