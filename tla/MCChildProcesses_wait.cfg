SPECIFICATION CSpec
CONSTANTS
    Clients = {c1, c2}
    Trusted = {c1, c2}
    Fds = {4, 5}
    MaxSent = 3
    NoOne = NoOne
    Pids = {1, 2, 3}
    NoPid = 0
INVARIANTS WaitsForOwnChild
CHECK_DEADLOCK FALSE
