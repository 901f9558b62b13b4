SPECIFICATION RecoverySpec
CONSTANTS
    OrderIds = {o1, o2, o3}
    Traders = {t1}
    Prices = {1, 2}
    MaxQty = 2
    PoolCapacity = 3
    Policies = {"NONE"}
    PriorityMax = 4
    SubTick = 1
    FreshIds = TRUE
    MaxRecords = 4
    MaxCrashes = 2
    Torn = torn
SYMMETRY Symmetry
INVARIANTS ReplayAccepts RecoveredBook RestingUnique
CHECK_DEADLOCK FALSE
