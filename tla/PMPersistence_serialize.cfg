CONSTANTS
    tA = tA
    tB = tB
    Tables <- MCTables
    Rows <- MCRows
    Loaded <- MCLoaded
    Ops = {"update"}
    MaxTx = 2
    MaxCrashes = 1
    ForceWriteBack = TRUE
    NGroups = 1
    NWays = 1
    MaxCount = 1
SYMMETRY MCSymmetry
SPECIFICATION Spec
INVARIANT
    CommittedImageDurable
