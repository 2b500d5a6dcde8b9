SPECIFICATION FairLoopSpec
CONSTANTS
    Thread = {t1, t2}
    Selector = Selector
    Free = Free
    FD_SETSIZE = 1024
    INITIAL_N = 1023
    Fd <- MCFd
    Listeners = {0}
INVARIANTS
    LoopTypeOK
    JobsAreGuarded
    NoLostWakeup
    InsideTable
    SelectSeesEverything
PROPERTIES
    PresentedOnce
    ResolutionIsHandled
CHECK_DEADLOCK TRUE
