SPECIFICATION FairSpec
CONSTANTS
    MaxFd = 2
    MaxBacklog = 1
    MaxData = 1
    Workers = {w1, w2}
    Capacity = 1
    MaxDrift = 1
    Reuse = FALSE
INVARIANTS
    TypeOK
    OneOwner
    ObjectIsCurrent
PROPERTIES
    ForgetsOnlyWhenFull
    QueuedIsTaken
    EndedIsClosed
CHECK_DEADLOCK FALSE
