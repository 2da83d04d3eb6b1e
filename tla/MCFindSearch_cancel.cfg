SPECIFICATION FSpec
CONSTANTS
    Clients = {c1, c2}
    Trusted = {c1, c2}
    Fds = {4, 5}
    MaxSent = 3
    MaxEntries = 1
    NoOne = NoOne
PROPERTIES CutSearchStops
CHECK_DEADLOCK FALSE
