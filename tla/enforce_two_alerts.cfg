\* Two handlers race to open an alert.
SPECIFICATION Spec
CONSTANTS
    c1 = c1  c2 = c2  c3 = c3
    s1 = s1  s2 = s2  s3 = s3
    a1 = a1
    Calls = {c1, c2}
    Sources = {s1}
    NoSource = NoSource
    Agents = {a1}
    NoAgent = NoAgent
    NotUuid = NotUuid
    Row <- SingleRow
    Window = 1
    MaxTime = 0
    Faults = {}
INVARIANT
    OneOpenAlertPerSource
