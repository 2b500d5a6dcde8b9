SPECIFICATION FairSpec
CONSTANTS
    Limit = 2
    MaxAhead = 2
    OtherCommands <- MCOtherCommands
    MAX_USERS = 2
    Name = {"ana", "leo"}
    Password = {"p1", "p2"}
INVARIANTS
    TypeOK
    HandlerForEveryInterest
    UsersOK
    AuthAgrees
PROPERTIES
    FollowsService
    AskedIsAnswered
CHECK_DEADLOCK FALSE
