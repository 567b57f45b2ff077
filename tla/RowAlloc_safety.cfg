\* Two threads, two directories with two extents each of two rows
\* (10 div (2 + 2), two units of slack), four
\* inserts and one crash: a restart re-issues ranges over used rows. No
\* symmetry: the run checks a liveness property.
CONSTANTS
    t1 = t1
    t2 = t2
    Threads <- MCThreads
    DirCount = 2
    BitsPerDir = 2
    ExtentSize = 10
    NVMTupleHeadSize = 2
    TupleLen = 2
    MaxInserts = 4
    MaxCrashes = 1

SPECIFICATION FairSpec
INVARIANTS
    TypeOK
    ExclusiveRow
    UpperBoundCovers
PROPERTIES
    InsertTerminates
