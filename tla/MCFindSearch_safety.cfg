SPECIFICATION FFairSpec
CONSTANTS
    Clients = {c1, c2, c3}
    Trusted = {c1, c2}
    Fds = {4, 5}
    MaxSent = 3
    MaxEntries = 1
    NoOne = NoOne
INVARIANTS FTypeOK CancelIsFinal
PROPERTIES SearchSlotFreed NoDescriptorLeak
CHECK_DEADLOCK FALSE
