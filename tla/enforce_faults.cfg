\* Every disturbance, and a source that is no uuid.
SPECIFICATION Spec
CONSTANTS
    c1 = c1  c2 = c2  c3 = c3
    s1 = s1  s2 = s2  s3 = s3
    a1 = a1
    Calls = {c1, c2, c3}
    Sources = {s1, s3}
    NoSource = NoSource
    Agents = {a1}
    NoAgent = NoAgent
    NotUuid = NotUuid
    Row <- MalformedRow
    Window = 0
    MaxTime = 0
    Faults = {"store", "hangup", "crash", "triage"}
SYMMETRY CallSymmetry
INVARIANTS
    NoCampaignEscapes
    RevocationGrounded
    CriticalGrounded
    TripRaisesAlert
