SPECIFICATION ContextSpec
CONSTANTS
    Untouched = 2
    MaxMessages = 10
    MaxSent = 2
    Edits = TRUE
PROPERTY EditSparesEarlier
CHECK_DEADLOCK FALSE
