\* Two calls, every failure, a stranger, the allowlist edited; fair handlers.
SPECIFICATION FairGatewaySpec
CONSTANTS
    c1 = c1  c2 = c2  c3 = c3
    s1 = s1  s2 = s2
    a1 = a1  t1 = t1  t2 = t2
    Calls = {c1, c2}
    Sources = {s1, s2}
    NoSource = NoSource
    Agents = {a1}
    NoAgent = NoAgent
    NotUuid = NotUuid
    Targets = {t1}
    Ambiguous = Ambiguous
    Row <- StrangerRow
    Window = 0
    MaxTime = 0
    Faults = {"store", "hangup", "crash", "policy"}
PROPERTIES
    KeepsPromise
    EveryCallDecided
    NextTripCuts
    CampaignIsCut
