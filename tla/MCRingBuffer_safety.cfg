SPECIFICATION FairSpec
CONSTANTS
    Capacity = 4
    ReadSizes = {0, 1, 3}
    WriteSizes = {0, 1, 3}
    MaxBytes = 7
    Reader = Reader
    Writer = Writer
INVARIANTS TypeOK Fifo NothingLost WaitJustified EofFinal
PROPERTIES ImplementsChannel CloseWakesWaiter
CHECK_DEADLOCK FALSE
