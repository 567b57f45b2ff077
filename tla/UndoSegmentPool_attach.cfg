\* One thread, two segments on one directory, rings of two slots; the
\* reclaimer and the attach spin are weakly fair.
SPECIFICATION FairSpec
CONSTANTS
    t1 = t1
    t2 = t2
    NoThread = NoThread
    Threads <- MCThread1
    NSeg = 2
    DirCount = 1
    Threshold = 2
    UNDO_TX_SLOTS = 2
    SLOT_OFFSET = 2
    MIN_TX_CSN = 1
    MaxCSN = 3
PROPERTY
    AttachEventually
