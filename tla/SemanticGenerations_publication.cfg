SPECIFICATION Spec
CONSTANTS
    e1 = e1
    s1 = s1
    s2 = s2
    w1 = w1
    None = None
    Entities = {e1}
    Revs = {"r1", "r2", "r3"}
    ContentOf <- MCContentOf
    Workers = {w1}
    Signatures = {s1, s2}
    Provenances = {"v1", "partial"}
    Covered = {"v1"}
    MaxAttempts = 1
    LeaseTicks = 1
    RetryTicks = 0
    Batch = 2
    MaxGens = 3
    MaxChanges = 0
    MaxFaults = 0
SYMMETRY PublicationSymmetry
CHECK_DEADLOCK FALSE
INVARIANTS
    HeadBacked
    OneCandidate
PROPERTIES
    HeadCAS
