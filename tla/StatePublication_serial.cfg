SPECIFICATION Spec
CONSTANTS
    p1 = p1
    p2 = p2
    d1 = d1
    None = None
    Procs = {p1, p2}
    Keys <- AllKeysMC
    OpOf <- AllOpOf
    OwnersOf <- WideOwnersOf
    Owners = {"semantic", "pdf"}
    Semantic = "semantic"
    Digests = {d1}
    Serialised = TRUE
    AppendFaults = {"lost", "unsynced", "torn", "unterminated"}
    MaxEvents = 3
    MaxIds = 6
    MaxRevision = 1
    MaxFaults = 1
    MaxCrashes = 1
SYMMETRY Symmetry
CHECK_DEADLOCK FALSE
INVARIANTS
    TypeOK
    EpochsConsecutive
    PointerBacked
    OncePerKey
    ManifestBacked
    HandleIsFenced
    GateCoherent
PROPERTIES
    RollbackProven
    ImplementsGate
