SPECIFICATION Spec
CONSTANTS
    Batch = 4
    MaxTokens = 5
    MaxElements = 11
    Inputs <- AllInputs
    Capacities = {0, 2, 11}
CHECK_DEADLOCK FALSE
INVARIANTS
    WritesInSlice
    StrictIsExact
    CleanIsStrict
    HealthyKept
