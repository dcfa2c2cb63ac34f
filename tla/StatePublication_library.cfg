SPECIFICATION Spec
CONSTANTS
    p1 = p1
    p2 = p2
    d1 = d1
    None = None
    Procs = {p1, p2}
    Keys <- MCKeys
    OpOf <- MCOpOf
    OwnersOf <- NarrowOwnersOf
    Owners = {"semantic"}
    Semantic = "semantic"
    Digests = {d1}
    Serialised = FALSE
    AppendFaults = {"lost", "unsynced"}
    MaxEvents = 2
    MaxIds = 4
    MaxRevision = 1
    MaxFaults = 1
    MaxCrashes = 0
SYMMETRY Symmetry
CHECK_DEADLOCK FALSE
INVARIANTS
    FenceIsTail
PROPERTIES
    FreshView
