SPECIFICATION FairSpec
CONSTANTS
    A = A
    B = B
    S = S
    Goroutines = {g1, g2}
    Types = {A, B, S}
    Shapes <- AllShapes
    MaxCalls = 3
    MaxRegistries = 12
CHECK_DEADLOCK FALSE
INVARIANTS
    BuiltWhenReturned
    IdleMeansBuilt
    ErrorsPropagate
PROPERTIES
    ReturnedIsConstant
    CallsReturn
