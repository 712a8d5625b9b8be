SPECIFICATION Spec
CONSTANTS
    Workers = {w1}
    BufferSize = 1
    Batch = 2
    Pad = 0
    MaxBlocks = 1
    Plans <- ShortPlans
CHECK_DEADLOCK FALSE
INVARIANT HandedOutIsDecoded
