SPECIFICATION FairSpec
CONSTANTS
    Workers = {w1, w2}
    Producers = {p1, p2}
    Requests = {r1, r2}
    Null = Null
    NoRequest = NoRequest
    NoThread = NoThread
    m_max_requests = 1
    MaxInterrupts = 1
INVARIANTS
    TypeOK
    NoLostRequest
    NoSpuriousWakeup
    PopsWhatItRead
PROPERTIES
    ImplementsTaskPool
    AcceptedIsServed
CHECK_DEADLOCK FALSE
