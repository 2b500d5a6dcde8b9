SPECIFICATION Spec
CONSTANTS
    Limit = 4
    Byte = {0, 1}
INVARIANT TypeOK
PROPERTY IsQueue
