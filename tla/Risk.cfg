SPECIFICATION Spec
CONSTANTS
    OrderIds = {o1, o2, o3}
    Traders = {t1, t2}
    MaxQty = 2
    IntMax = 4
    Limits = {1, 2}
    MaxRefusals = 1
INVARIANTS TracksBook RestoreReproduces
PROPERTIES ExposureBounded RefusedAgainstPosition
SYMMETRY Symmetry
CHECK_DEADLOCK FALSE
