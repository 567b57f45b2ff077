\* Four record segments, no crash; m_segmentAddr reserved to 2N-2 entries.
SPECIFICATION RunSpec
CONSTANTS
    N = 5
    Capacity = 8
    MaxObj = 8
    MaxCrashes = 0
INVARIANTS
    TypeOK
    LiveDataIntact
    NoPunchAbort
    LiveSegmentsMapped
