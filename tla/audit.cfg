\* Three mediated calls of two agents, two keys, two instants.
SPECIFICATION Spec
CONSTANTS
    Calls = {1, 2, 3}
    Caller <- TwoAgents
    Method <- OneByte
    Host <- OneByte
    Path <- TwoBytes
    Reason <- Explained
    Texts <- SomeTexts
    Keys = {k1, k2}
    NoKey = NoKey
    RawLimits <- SomeLimits
    NoLimit = NoLimit
    NotANumber = NotANumber
    DefaultLimit = 1
    MaxLimit = 1
    Times = {0, 2}
    StoreFails = TRUE
SYMMETRY KeySymmetry
INVARIANTS
    TypeOK
    EvidenceVerifies
    SignatureNamesOneReceipt
    DecisionsAreAuditable
