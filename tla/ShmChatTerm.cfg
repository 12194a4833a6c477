SPECIFICATION FairSpec
CONSTANTS
    Pids = {p1}
    NoPid = NoPid
    listenfd = listenfd
    sig_pipefd = sig_pipefd
    USER_LIMIT = 1
    MaxData = 0
    MaxTerm = 1
    PipeCap = 1
    SigPipeCap = 3
    EpollMayFail = FALSE
PROPERTIES
    TermEndsServer
CHECK_DEADLOCK FALSE
