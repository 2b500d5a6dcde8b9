SPECIFICATION Spec
CONSTANTS
    MaxAddr = 1
    Pipelined = FALSE
    Spurious = FALSE
    Low = "CLI"
INVARIANT
    RelaysOnlyForUsers
CHECK_DEADLOCK FALSE
