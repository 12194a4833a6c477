SPECIFICATION LoopSpec
CONSTANTS
    MaxFd = 3
    MaxBacklog = 2
    MaxData = 1
    Threads = {t1, t2}
    OneShotFd = {1, 2}
    UniformFd = {1}
    MaxSignals = 3
    PipeCap = 2
INVARIANTS
    EventsAreCurrent
    NothingUnseen
    OneReader
PROPERTIES
    ClosesOnlyTheEnded
    EndedIsClosed
    EndedGetsClosed
    TermStops
CHECK_DEADLOCK FALSE
