SPECIFICATION Spec
CONSTANTS
    Timer = {t1, t2}
    NULL = NULL
    MaxNow = 4
    Delay = {3}
    Fd = {f1}
    MaxData = 0
    MaxTerm = 0
PROPERTIES
    IdleIsClosed
CHECK_DEADLOCK FALSE
