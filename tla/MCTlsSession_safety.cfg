SPECIFICATION TFairSpec
CONSTANTS
    Capacity = 3
    ReadSizes = {0, 2}
    WriteSizes = {1}
    MaxBytes = 9
    Reader = Reader
    Writer = Writer
    Roles = {"server", "xreclient", "https"}
    MaxItems = 4
    PeerEnds = {"fin", "rst"}
    PeerItems <- MCAllItems
INVARIANTS TlsTypeOK NothingSkipped CleanEndIsComplete ServerContained
PROPERTIES CleanupTerminates
CHECK_DEADLOCK FALSE
