\* Three handlers race, the window expires under them.
SPECIFICATION Spec
CONSTANTS
    c1 = c1  c2 = c2  c3 = c3
    s1 = s1  s2 = s2  s3 = s3
    a1 = a1
    Calls = {c1, c2, c3}
    Sources = {s1, s2}
    NoSource = NoSource
    Agents = {a1}
    NoAgent = NoAgent
    NotUuid = NotUuid
    Row <- AliasedRow
    Window = 1
    MaxTime = 2
    Faults = {}
SYMMETRY CallSymmetry
INVARIANTS
    TypeOK
    NoCampaignEscapes
    RevocationTimely
PROPERTIES
    FirstRevocationKept
    KeepsToVerdicts
