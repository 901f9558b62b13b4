SPECIFICATION Spec
CONSTANTS
    MaxRecords = 4
    Records = {1, 2, 3, 4}
    Unset = unset
    Capacity = 2
    Modulus = 4
    Start = 2
    Flushers = {f1, f2}
    Syncers = {f2}
    SyncPolicies = {"MANUAL", "PER_RECORD", "PER_N_RECORDS"}
    SyncCounts = {0, 2}
    PolicyUntil = 1
    Torn = torn
INVARIANTS NoJournalSlotRace FlushHonest LossBounded CloseDrains
PROPERTIES SyncHonest JournalIsLog FlushReturns CloseReturns
CHECK_DEADLOCK FALSE
