SPECIFICATION FairSpec
CONSTANTS
    Inputs <- BlockInputs
    Modes = {FALSE}
    Apis = {"NextRawBlock", "Next"}
    Kernel = "scalar"
    Capacities = {2, 8}
    MaxCount = 2
    MaxHiccups = 0
PROPERTIES
    ImplementsFeed
    CallsReturn
