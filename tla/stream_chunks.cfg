SPECIFICATION FairSpec
CONSTANTS
    Inputs <- ChunkInputs
    Modes = {TRUE, FALSE}
    Apis = {"Decode", "NextRaw"}
    Kernel = "avx2"
    Capacities = {2}
    MaxCount = 2
    MaxHiccups = 1
INVARIANTS
    BufferWindow
    CleanEOF
    OneEnd
    StrayCommasReported
PROPERTIES
    ImplementsFeed
    CallsReturn
