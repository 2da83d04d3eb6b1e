SPECIFICATION CFairSpec
CONSTANTS
    Clients = {c1, c2, c3}
    Trusted = {c1, c2}
    Fds = {4, 5}
    MaxSent = 3
    NoOne = NoOne
    Pids = {1, 2, 3}
    NoPid = 0
INVARIANTS CTypeOK WaitersHaveChildren OneServer
PROPERTIES WaitReturns StopHitsServer
CHECK_DEADLOCK FALSE
