SPECIFICATION Spec
CONSTANTS
    Conn = {c1}
    MaxFd = 3
    Listeners = 1
    FdLimit = 4
    MaxAccept = 1
    Free = Free
    Listener = Listener
SYMMETRY Symmetry
INVARIANT ListenersStay
CHECK_DEADLOCK FALSE
