SPECIFICATION FairSpec
CONSTANTS
    Workers = {w1, w2}
    BufferSize = 1
    Batch = 2
    Pad = 1
    MaxBlocks = 8
    Plans <- Plans28
CHECK_DEADLOCK FALSE
INVARIANTS
    ObjectsStable
    InOrder
    
PROPERTIES
    ReaderReachesEnd
    AllGoroutinesEnd
