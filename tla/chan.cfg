SPECIFICATION FairSpec
CONSTANTS
    BufferSize = 2
    MaxRecords = 9
    Keep = 0
    Feeds <- OneDamage
CHECK_DEADLOCK FALSE
INVARIANTS
    PointersStable
    InOrder
    CleanCloseIsComplete
PROPERTY ReaderReachesEnd
