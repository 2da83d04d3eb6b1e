SPECIFICATION FairSpec
CONSTANTS
    Bases <- MCBases
    InitialFs <- MCInitialFs
    CopyList <- MCCopyList
    NewNames <- MCNewNames
    MaxAnswers = 3
    Faults = TRUE
INVARIANTS NothingForgotten
PROPERTIES NothingOverwrittenUnasked ConversationEnds
CHECK_DEADLOCK FALSE
