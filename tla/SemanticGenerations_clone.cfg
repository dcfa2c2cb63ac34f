SPECIFICATION Spec
CONSTANTS
    e1 = e1
    e2 = e2
    w1 = w1
    None = None
    Entities = {e1, e2}
    Revs = {"r1", "r2", "r3"}
    ContentOf <- MCContentOf
    Workers = {w1}
    Signatures = {"images"}
    Provenances = {"v1"}
    Covered = {"v1"}
    MaxAttempts = 1
    LeaseTicks = 1
    RetryTicks = 0
    Batch = 2
    MaxGens = 2
    MaxChanges = 1
    MaxFaults = 1
SYMMETRY CloneSymmetry
CHECK_DEADLOCK FALSE
PROPERTIES
    PublishedCurrent
    FrozenSnapshot
