SPECIFICATION FairSpec
CONSTANTS
    Conns = {a, b}
    Fds = {3, 4}
    MaxSent = 2
    None = None
INVARIANTS TypeOK NoSocketLeak OwnConnection ExitClean
PROPERTIES StopReturns PendingAccepted
CHECK_DEADLOCK FALSE
