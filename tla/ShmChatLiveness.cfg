SPECIFICATION FairSpec
CONSTANTS
    Pids = {p1, p2}
    NoPid = NoPid
    listenfd = listenfd
    sig_pipefd = sig_pipefd
    USER_LIMIT = 2
    MaxData = 1
    MaxTerm = 0
    PipeCap = 1
    SigPipeCap = 3
    EpollMayFail = TRUE
PROPERTIES
    ExitedIsReaped
    FirstDataIsReceived
CHECK_DEADLOCK FALSE
