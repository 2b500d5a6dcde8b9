SPECIFICATION Spec
CONSTANTS
    Lists <- MCLists
    ErrorCodes = {52, 55}
    MaxCommands = 2
INVARIANTS
    TypeOK
    InStep
PROPERTIES
    CommandEnds
CHECK_DEADLOCK FALSE
