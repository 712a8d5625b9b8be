SPECIFICATION Spec
CONSTANTS
    Strings = {"x", "o", "n", "t", "u", "s", "empty"}
    EmptyString = "empty"
    Ints = {"0", "1"}
    Zero = "0"
    WideInts = {"999"}
    Fractions = {"1.5"}
    Cuts = {"1."}
    IntPart <- AllIntParts
    Registries <- AllRegistries
    Roots <- AllRoots
    Firsts <- FirstTrees
    Trees <- AllTrees
    Damaged <- OneFault
CHECK_DEADLOCK FALSE
INVARIANTS
    DecodesExactly
    AcceptsOnlyJson
    CutKeepsFields
    RoundTrips
