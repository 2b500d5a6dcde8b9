SPECIFICATION FairSpec
CONSTANTS
    MaxAddr = 2
    Pipelined = TRUE
    Spurious = TRUE
    Low = "CLI"
INVARIANTS
    TypeOK
    HandlerForEveryInterest
    SomebodyWillCall
    ThreadHasTheConnection
    NothingLeaks
PROPERTIES
    FollowsProtocol
    RequestIsAnswered
CHECK_DEADLOCK FALSE
