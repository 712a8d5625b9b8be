SPECIFICATION Spec
CONSTANTS
    Keys <- AllKeys
    KeyLen <- Lengths
    Lower <- AllLower
    Packed <- AllPacked
    Word = 2
    ByteRange = 4
    SmallLimit = 2
    WordBits = 5
    MantissaMax = 20
    Kernels = {"avx2", "scalar"}
    Fields <- AllFields
    Hashes <- AllHashes
    Texts <- AllTexts
CHECK_DEADLOCK FALSE
INVARIANTS
    LookupExact
    IntsExact
    
    StringsExact
