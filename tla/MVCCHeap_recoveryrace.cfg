\* One TxSlot per segment, one crash: a worker racing backgroundRecovery.
CONSTANTS
    t1 = t1
    t2 = t2
    r1 = r1
    r2 = r2
    Threads <- MCThreads
    Rows <- MCRows
    RangeOf <- MCRangeOf
    MaxSlots = 1
    MaxUndo = 2
    MaxCrashes = 1
    MIN_TX_CSN = 1
    ForceWriteBackCSN = TRUE
SPECIFICATION Spec
PROPERTY RecoveryLeavesLiveSlots
