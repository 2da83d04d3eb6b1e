SPECIFICATION FairSpec
CONSTANTS
    d = d
    f = f
    l = l
    Nodes <- MCNodes
    Links = {l}
    Dirs = {d}
    Kids <- MCKids
    LinkSize = 1
    Selections <- MCSelections
    Modes = {"upload", "fds", "download"}
    MaxSize = 2
    NetCap = 2
    MaxDisturb = 1
    NoNode = NoNode
    Gone = Gone
    Locked = Locked
    Absent = Absent
    Foreign = Foreign
    Folder = Folder
INVARIANTS InStep EofMeansStored EndMeansMirror OuterProgress
PROPERTIES NothingOverwritten TransferEnds
CHECK_DEADLOCK FALSE
