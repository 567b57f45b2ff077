\* HeapUpdate2 alone, on rows 0 and 1 of two tables, with a one-word
\* FlushCache: does the flush it issues on a FlushCache miss make a
\* committed update durable?
CONSTANTS
    tA = tA
    tB = tB
    Tables <- MCTables
    Rows <- MCRowsFrom0
    Loaded <- MCLoadedFrom0
    Ops = {"update2"}
    MaxTx = 2
    MaxCrashes = 1
    ForceWriteBack = TRUE
    NGroups = 1
    NWays = 1
    MaxCount = 1
SYMMETRY MCSymmetry
SPECIFICATION Spec
INVARIANT
    CommittedImageDurable
