SPECIFICATION FairSpec
CONSTANTS
    Modes = {"file", "memory", "upload"}
    MaxHops = 3
    MaxBody = 2
    Chunk = 2
    RingCap = 2
    NoLength = NoLength
INVARIANTS TypeOK OwnAnswer EndMeansComplete
PROPERTIES VerdictIsLast RequestEnds
CHECK_DEADLOCK FALSE
