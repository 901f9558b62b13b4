SPECIFICATION Spec
CONSTANTS
    OrderIds = {o1, o2, o3}
    Traders = {t1, t2}
    Prices = {1, 2}
    MaxQty = 2
    PoolCapacity = 2
    Policies = {"NONE", "CANCEL_NEWEST", "CANCEL_OLDEST", "CANCEL_BOTH"}
    PriorityMax = 3
    SubTick = 1
    FreshIds = FALSE
SYMMETRY Symmetry
INVARIANTS NoSelfTrade FOKAtomic AcceptedRests MatchingEnds
