SPECIFICATION Spec
CONSTANTS
    e1 = e1
    e2 = e2
    w1 = w1
    w2 = w2
    None = None
    Entities = {e1, e2}
    Revs = {"r1", "r3"}
    ContentOf <- TwoContents
    Workers = {w1, w2}
    Signatures = {"images"}
    Provenances = {"v1"}
    Covered = {"v1"}
    MaxAttempts = 2
    LeaseTicks = 1
    RetryTicks = 1
    Batch = 2
    MaxGens = 1
    MaxChanges = 1
    MaxFaults = 1
SYMMETRY LeaseSymmetry
CHECK_DEADLOCK FALSE
INVARIANTS
    TypeOK
    HintSound
    NoStranded
    SingleFlight
    VectorOfContent
