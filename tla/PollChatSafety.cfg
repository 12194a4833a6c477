SPECIFICATION FairSpec
CONSTANTS
    NULL = NULL
    USER_LIMIT = 2
    MaxBacklog = 1
    MaxData = 1
INVARIANTS
    PollfdsAreTheConnections
    NobodySkipped
PROPERTIES
    ClosesOnlyTheEnded
    EndedIsClosed
CHECK_DEADLOCK FALSE
