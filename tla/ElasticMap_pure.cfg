SPECIFICATION MapSpec
CONSTANTS
    None = None
    Maps = {1, 2}
    Sizes <- TwoEach
    Pure = {1, 2}
    Completion = {1, 2}
    MaxWorkers = 2
    Jobs <- MapJobs
    Demand <- MapDemand
    NRoutes = 2
    Budget = 4
    RouteBudget <- Budgets
    CpuSlots = 2
    IoSlots = 2
    TempBudget = 0
    Hysteresis = 1
    Samples <- CalmOnly
    HasTimeout = {FALSE}
    Loop = TRUE
    MaxChanges = 0
    MaxFaults = 0
CHECK_DEADLOCK FALSE
PROPERTIES
    Completes
