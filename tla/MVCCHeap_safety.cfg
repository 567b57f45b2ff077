\* Two threads, no crash, ForceWriteBackCSN cleared as the benchmark drivers
\* do: the MVCC write path, commit and abort.
CONSTANTS
    t1 = t1
    t2 = t2
    r1 = r1
    r2 = r2
    Threads <- MCThreads
    Rows <- MCRows
    RangeOf <- MCRangeOf
    MaxSlots = 2
    MaxUndo = 2
    MaxCrashes = 0
    MIN_TX_CSN = 1
    ForceWriteBackCSN = FALSE
SPECIFICATION WorkerSpec
INVARIANT TypeOK
INVARIANT ReadCommittedOnly
INVARIANT SnapshotRead
INVARIANT FirstUpdaterWins
INVARIANT CommittedDurable
