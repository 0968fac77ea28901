\* Two observations, two traps, two tool names; statements fail and processes end.
SPECIFICATION SensorSpec
CONSTANTS
    Calls = {c1, c2}
    s1 = s1
    a1 = a1
    Sources = {s1}
    NoSource = NoSource
    Agents = {a1}
    NoAgent = NoAgent
    NotUuid = NotUuid
    Row <- SingleRow
    Window = 0
    MaxTime = 0
    Faults = {"store", "crash"}
    Tools = {n1, n2}
    NoTool = NoTool
    Traps = {h1, h2}
    NoTrap = NoTrap
SYMMETRY SensorSymmetry
INVARIANTS
    SensorTypeOK
    CutsHaveCause
    HitsAreTripsOrErrors
    TripsKeepTheirTrap
PROPERTY
    KeepsToVerdicts
