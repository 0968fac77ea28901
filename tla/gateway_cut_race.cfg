\* A call admitted before the revocation leaves after it.
SPECIFICATION GatewaySpec
CONSTANTS
    c1 = c1  c2 = c2  c3 = c3
    s1 = s1  s2 = s2
    a1 = a1  t1 = t1  t2 = t2
    Calls = {c1, c2, c3}
    Sources = {s1}
    NoSource = NoSource
    Agents = {a1}
    NoAgent = NoAgent
    NotUuid = NotUuid
    Targets = {t1, t2}
    Ambiguous = Ambiguous
    Row <- SingleRow
    Window = 0
    MaxTime = 0
    Faults = {}
SYMMETRY CallSymmetry
PROPERTY
    NothingLeavesAfterCut
