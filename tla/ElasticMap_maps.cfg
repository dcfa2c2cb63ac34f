SPECIFICATION MapSpec
CONSTANTS
    None = None
    Maps = {1, 2}
    Sizes <- Mixed
    Pure = {1}
    Completion = {2}
    MaxWorkers = 2
    Jobs <- MapJobs
    Demand <- MapDemand
    NRoutes = 2
    Budget = 4
    RouteBudget <- Budgets
    CpuSlots = 2
    IoSlots = 2
    TempBudget = 0
    Hysteresis = 1
    Samples <- Pressures
    HasTimeout = {TRUE}
    Loop = TRUE
    MaxChanges = 1
    MaxFaults = 1
CHECK_DEADLOCK FALSE
INVARIANTS
    DeliversAll
    ResultHeld
    NothingLeft
PROPERTIES
    Completes
