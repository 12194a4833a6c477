SPECIFICATION Spec
CONSTANTS
    Workers = {w1}
    Producers = {p1}
    Requests = {r1}
    Null = Null
    NoRequest = NoRequest
    NoThread = NoThread
    m_max_requests = 1
    MaxInterrupts = 0
INVARIANTS
    WithinMaximum
CHECK_DEADLOCK FALSE
