CONSTANTS
    Items = {1, 2, 3}
    Quantities = {1, 2}
    Changes = {1}
    LastDay = 1
    Horizon = 4
    Master <- MCMaster
    Policy <- MCPolicy
    Demand <- MCDemand
    Purchases = {"po"}
    WorkOrders = {"wo"}
    WorkCenters <- MCWorkCenters
    Machines <- MCMachines
    Workers <- MCWorkers
    Days = 3
    PerDay = 4
    Shift <- MCShift
    SetupTime <- MCSetupTime
    Shops <- MCShops
    Products = {1, 2}
    Family <- MCFamily
    Scenarios = {"base"}
    Forecasts = {1, 2}
    Mixes = {1, 2}
    MonthDays = 4
    Week = 3
    Bucket = 3
    Amounts = {0, 1, 2, 5, 9}
    Shares <- MCShares
    MaxRuns = 2
SPECIFICATION MCSpec
CHECK_DEADLOCK FALSE
INVARIANTS LevelsFollowBOM PlanMeetsRequirements DeliveriesCountedOnce ScheduleFeasible EntriesTraceToSource
