\* Two threads, two segments on one directory, TxSlot arrays of two slots, full at two.
SPECIFICATION Spec
CONSTANTS
    t1 = t1
    t2 = t2
    NoThread = NoThread
    Threads <- MCThreads
    NSeg = 2
    DirCount = 1
    Threshold = 2
    UNDO_TX_SLOTS = 2
    SLOT_OFFSET = 2
    MIN_TX_CSN = 1
    MaxCSN = 4
SYMMETRY MCSymmetry
INVARIANTS
    TypeOK
    HistoryRetained
    LiveSlotIntact
