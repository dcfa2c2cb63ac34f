SPECIFICATION Spec
CONSTANTS
    None = None
    Jobs = {"j1", "j2", "j3"}
    Demand <- SharedDemand
    NRoutes = 2
    Budget = 2
    RouteBudget <- SharedBudgets
    CpuSlots = 2
    IoSlots = 1
    TempBudget = 1
    Hysteresis = 1
    Samples <- LedgerSamples
    HasTimeout = {TRUE}
    Loop = FALSE
    MaxChanges = 1
CHECK_DEADLOCK FALSE
INVARIANTS
    TypeOK
    LedgerExact
    WithinLimits
