SPECIFICATION Spec
CONSTANTS
    OrderIds = {o1, o2, o3}
    Traders = {t1}
    Prices = {1, 2}
    MaxQty = 3
    PoolCapacity = 3
    Policies = {"NONE"}
    PriorityMax = 4
    SubTick = 1
    FreshIds = TRUE
SYMMETRY Symmetry
INVARIANTS TypeOK BookUncrossed FilledMatchesTrades RestingUnique SweepOrdered
PROPERTIES QueuesAreFIFO
CHECK_DEADLOCK FALSE
