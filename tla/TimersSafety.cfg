SPECIFICATION ProgramSpec
CONSTANTS
    Timer = {t1, t2, t3, t4}
    NULL = NULL
    MaxNow = 2
    Delay = {1, 3}
    HeapDelay = {0, 1}
    Capacities = {1, 4}
    N = 3
    SI = 1
    Timeout = {0, 3, 5}
    MaxTurn = 6
    Fd = {f1, f2}
    MaxData = 1
    MaxTerm = 1
    LastNow = 1
    Addresses = 3
SYMMETRY Symmetry
INVARIANTS
    ListWellFormed
    HeapHoldsEach
    HeapOrdered
    WheelHoldsEach
    RotationAddsUp
    TypeOK
    OneTimerEach
    EventsAreCurrent
PROPERTIES
    ListImplementsService
    HeapImplementsService
    WheelImplementsService
CHECK_DEADLOCK FALSE
