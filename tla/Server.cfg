SPECIFICATION Spec
CONSTANTS
    Conn = {c1, c2}
    MaxFd = 4
    Listeners = 2
    FdLimit = 4
    MaxAccept = 4
    Free = Free
    Listener = Listener
SYMMETRY Symmetry
INVARIANTS
    TypeOK
    ItemsMatchFiles
    DescriptorsAreHeld
    NoneCountedAfterClose
CHECK_DEADLOCK FALSE
