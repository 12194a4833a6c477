SPECIFICATION Spec
CONSTANTS
    MaxFd = 1
    MaxBacklog = 1
    MaxData = 1
    Workers = {w1, w2}
    Capacity = 1
    MaxDrift = 0
    Reuse = TRUE
INVARIANTS
    OneThread
CHECK_DEADLOCK FALSE
