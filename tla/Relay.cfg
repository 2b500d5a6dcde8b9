SPECIFICATION FairSpec
CONSTANTS
    Limit = 3
    MaxSend = 2
    Early = 1
    Spurious = TRUE
    Low = "CLI"
INVARIANTS
    TypeOK
    PausedReadersResume
    NeverOrphaned
    BytesConserved
    HalfCloseAfterDrain
PROPERTIES
    
    ClosesWhenBothEnd
CHECK_DEADLOCK FALSE
