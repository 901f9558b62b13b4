SPECIFICATION Spec
CONSTANTS
    Orders = {a}
    Blank = blank
    Capacity = 2
    Controllers = {c1}
    PolicySet = {"REJECT", "BLOCK", "DROP"}
    Numbered = FALSE
    MaxAccepted = 3
    MaxDropped = 1
INVARIANTS DrainedWhenStopped
