SPECIFICATION Spec
CONSTANTS
    Pids = {p1, p2, p3}
    NoPid = NoPid
    listenfd = listenfd
    sig_pipefd = sig_pipefd
    USER_LIMIT = 2
    MaxData = 0
    MaxTerm = 1
    PipeCap = 1
    SigPipeCap = 2
    EpollMayFail = FALSE
SYMMETRY Symmetry
INVARIANTS
    TypeOK
    DirectoryConsistent
    NoChildForgotten
PROPERTIES
    KillsOnlyOwnChildren
CHECK_DEADLOCK FALSE
