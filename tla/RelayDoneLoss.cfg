SPECIFICATION Spec
CONSTANTS
    Limit = 2
    MaxSend = 2
    Early = 0
    Spurious = FALSE
    Low = "CLI"
INVARIANT
    DoneIsDrained
CHECK_DEADLOCK FALSE
