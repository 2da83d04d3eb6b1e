SPECIFICATION Spec
CONSTANTS
    Capacity = 3
    ReadSizes = {1, 2}
    WriteSizes = {1, 2}
    MaxBytes = 4
    Reader = Reader
    Writer = Writer
INVARIANTS NoAmbiguity
CHECK_DEADLOCK FALSE
