SPECIFICATION FairSpec
CONSTANTS
    Workers = {w1, w2}
    Batch = 3
    MaxElements = 13
    Inputs <- AllInputs
    Capacities = {0, 2, 13}
CHECK_DEADLOCK FALSE
INVARIANTS
    OkIsComplete
    ErrorsHaveCause
    WritesApart
    BuffersReturned
PROPERTIES
    NoLateWrites
    CallReturns
