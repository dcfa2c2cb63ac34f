SPECIFICATION ProgressSpec
CONSTANTS
    None = None
    Jobs = {"j1", "j2", "j3"}
    Demand <- UnitDemand
    NRoutes = 2
    Budget = 2
    RouteBudget <- UnitBudgets
    CpuSlots = 2
    IoSlots = 1
    TempBudget = 0
    Hysteresis = 1
    Samples <- ProgressSamples
    HasTimeout = {TRUE, FALSE}
    Loop = TRUE
    MaxChanges = 1
CHECK_DEADLOCK FALSE
PROPERTIES
    Served
    DrainServed
    WaitsEnd
