SPECIFICATION FairSpec
CONSTANTS
    Orders = {1, 2, 3, 4, 5}
    Blank = 0
    Capacity = 4
    Controllers = {c1, c2}
    PolicySet = {"REJECT", "BLOCK", "DROP"}
    Numbered = TRUE
    MaxAccepted = 5
    MaxDropped = 1
INVARIANTS NothingLost NeverTerminates NoSlotRace
PROPERTIES RingIsFifo DrainOnStop StopReturns SubmitReturns
