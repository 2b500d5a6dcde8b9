SPECIFICATION Spec
CONSTANTS
    Block = {b1, b2}
    MaxRefused = 0
INVARIANT UnlinkedBeforeFreed
CHECK_DEADLOCK FALSE
