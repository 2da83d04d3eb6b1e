SPECIFICATION FairSpec
CONSTANTS
    Requests <- MCAllRequests
    MaxList = 1
    Cap = 2
    MaxRequests = 2
INVARIANTS InStep Drained
PROPERTIES LooksLocal Answered
CHECK_DEADLOCK FALSE
