\* Three threads, two segments of two entries, a block for every
\* call (MaxBlocks = MaxOps), three GetEntry calls; one table
\* whose map threads look up, drop and look up again (the registry steps
\* run; no property here is about them).
CONSTANTS
    t1 = t1
    t2 = t2
    t3 = t3
    Threads <- MCThreads
    NSegs = 2
    SegLen = 2
    MaxBlocks = 3
    MaxOps = 3
    SegHeads = {h1}
    MaxMaps = 2
    h1 = h1
SYMMETRY MCSymmetry
SPECIFICATION Spec
INVARIANTS
    TypeOK
    ReturnedEntryLive
    EntriesMatchRows
