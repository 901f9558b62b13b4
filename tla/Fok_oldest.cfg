SPECIFICATION Spec
CONSTANTS
    OrderIds = {o1, o2, o3}
    Traders = {t1, t2}
    Prices = {1, 2}
    MaxQty = 2
    PoolCapacity = 3
    Policies = {"CANCEL_OLDEST"}
    PriorityMax = 3
    SubTick = 1
    FreshIds = TRUE
SYMMETRY Symmetry
INVARIANTS FOKAlwaysAtomic
CHECK_DEADLOCK FALSE
