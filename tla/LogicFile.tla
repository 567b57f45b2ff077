----------------------------- MODULE LogicFile -----------------------------
(***************************************************************************)
(* The segmented PM file behind an undo segment: segment files in a        *)
(* directory, the m_segmentAddr table of their mappings, and the undo      *)
(* record area that writes, reads and punches them, across crashes.        *)
(*                                                                         *)
(*   LogicFile::LogicFile, extend, punch, mount, mMapFile, reMMapFile      *)
(*        src/include/table_space/nvm_logic_file.h,                        *)
(*        src/src/table_space/nvm_logic_file.cpp                           *)
(*   UndoSegment::recycleUndoPages   src/src/undo/nvm_undo_segment.cpp     *)
(*                                                                         *)
(* The undo record area (appendUndoRecord, the record offsets and their    *)
(* wrap) is not under src/; it is modelled from spec.md section 4.5:       *)
(* records fill segments 1..N-1 in ring order, segment 0 holding the       *)
(* header and the TxSlots.                                                 *)
(*                                                                         *)
(* A file is a directory entry naming a physical object; a mapping keeps   *)
(* the object it was made from, whatever is renamed over its name later.   *)
(* The content of an object is the id of the logical segment last written  *)
(* into it, or Zero for a freshly created file.                            *)
(***************************************************************************)
EXTENDS Integers, FiniteSets

CONSTANTS
    N,            \* segments of the undo ring (ids 0..N-1, 0 is the header)
    Capacity,     \* maxSegmentCount: the reserved size of m_segmentAddr
    MaxObj,       \* bound on the segment files ever created
    MaxCrashes    \* process crashes in one behaviour

ASSUME N \in Nat /\ N >= 3 /\ Capacity \in Nat /\ Capacity >= N
ASSUME MaxObj \in Nat \ {0} /\ MaxCrashes \in Nat

FileIds == 0..Capacity-1
RecSegs == 1..N-1
Objs    == 1..MaxObj
NoObj   == 0
Zero    == 0

VARIABLES
    up,           \* the process is running
    addr,         \* m_segmentAddr: [0..size-1 -> Objs \cup {NoObj}]
    fileObj,      \* the directory: [FileIds -> Objs \cup {NoObj}]
    data,         \* [Objs -> RecSegs \cup {Zero}]: content of each object
    nextObj,      \* next object a file creation takes
    written,      \* segments holding live undo records
    rec,          \* segment of the oldest live record (the minSlotId slot)
    cur,          \* segment of the current undo offset
    head,         \* segment of segHead->m_recycledBegin
    crashes,
    aborted       \* a CHECK of reMMapFile has failed

vars == <<up, addr, fileObj, data, nextObj, written, rec, cur, head,
          crashes, aborted>>

-----------------------------------------------------------------------------
(* m_segmentAddr                                                           *)

Size == Cardinality(DOMAIN addr)

\* The mapping of segment i, NoObj when absent or beyond the table.
MappedObj(i) == IF i < Size THEN addr[i] ELSE NoObj

\* m_segmentAddr.resize(i + 1) when it is shorter, then [i] = o.
SetAddr(a, i, o) ==
    [j \in 0..(IF i < Cardinality(DOMAIN a) THEN Cardinality(DOMAIN a) - 1 ELSE i) |->
        IF j = i THEN o
        ELSE IF j < Cardinality(DOMAIN a) THEN a[j] ELSE NoObj]

\* mutant: the store into m_segmentAddr sits inside the resize branch, so a
\* slot below the size (nulled by a punch) is never filled again
MMapCreateInResize(i) ==
    IF MappedObj(i) # NoObj
    THEN UNCHANGED <<addr, fileObj, nextObj>>
    ELSE IF fileObj[i] # NoObj
    THEN /\ addr' = IF i >= Size THEN SetAddr(addr, i, fileObj[i]) ELSE addr
         /\ UNCHANGED <<fileObj, nextObj>>
    ELSE /\ nextObj <= MaxObj
         /\ addr' = IF i >= Size THEN SetAddr(addr, i, nextObj) ELSE addr
         /\ fileObj' = [fileObj EXCEPT ![i] = nextObj]
         /\ nextObj' = nextObj + 1

\* mMapFile(i, true), the body of extend: nothing when mapped; otherwise
\* map the file, creating it (a fresh object, still Zero) when it does not
\* exist.
MMapCreate(i) ==
    IF MappedObj(i) # NoObj
    THEN UNCHANGED <<addr, fileObj, nextObj>>
    ELSE IF fileObj[i] # NoObj
    THEN /\ addr' = SetAddr(addr, i, fileObj[i])
         /\ UNCHANGED <<fileObj, nextObj>>
    ELSE /\ nextObj <= MaxObj
         /\ addr' = SetAddr(addr, i, nextObj)
         /\ fileObj' = [fileObj EXCEPT ![i] = nextObj]
         /\ nextObj' = nextObj + 1

\* The object segment i is mapped to once MMapCreate(i) has run.
ObjAfterMMap(i) ==
    IF MappedObj(i) # NoObj THEN MappedObj(i)
    ELSE IF fileObj[i] # NoObj THEN fileObj[i]
    ELSE nextObj

\* reMMapFile(i) on a state record [addr, file, aborted]: move the mapping
\* of segment i to the trailing index size and rename the file to that
\* index; a failed CHECK (table full, rename failed) aborts the process.
ReMMap(st, i) ==
    LET n == Cardinality(DOMAIN st.addr) IN
    IF i >= n \/ st.addr[i] = NoObj THEN st
    ELSE IF n >= Capacity \/ st.file[i] = NoObj
    THEN [st EXCEPT !.aborted = TRUE]
    ELSE [addr    |-> [j \in 0..n |-> IF j = n THEN st.addr[i]
                                      ELSE IF j = i THEN NoObj
                                      ELSE st.addr[j]],
          file    |-> [st.file EXCEPT ![n] = st.file[i], ![i] = NoObj],
          aborted |-> FALSE]

\* punch that also remaps segment e (i <= endSegmentId).
RECURSIVE PunchFromInclusive(_, _, _)
PunchFromInclusive(st, i, e) ==
    IF i > e \/ st.aborted THEN st
    ELSE PunchFromInclusive(ReMMap(st, i), i + 1, e)

\* punch(s, e): reMMapFile(i) for s <= i < e, stopping at an abort.
RECURSIVE PunchFrom(_, _, _)
PunchFrom(st, i, e) ==
    IF i >= e \/ st.aborted THEN st ELSE PunchFrom(ReMMap(st, i), i + 1, e)

-----------------------------------------------------------------------------
(* The undo record ring                                                    *)

\* A wrap of the record offset that lands on the header segment.
RingNextToHeader(i) == IF i = N - 1 THEN 0 ELSE i + 1

\* The record offset wraps modulo the ring, past the header segment 0.
RingNext(i) == IF i = N - 1 THEN 1 ELSE i + 1

\* Segments from a (included) to b (excluded) in ring order.
RECURSIVE RingRange(_, _)
RingRange(a, b) == IF a = b THEN {} ELSE {a} \cup RingRange(RingNext(a), b)

\* The content reached through segment i: its mapping when mapped, else the
\* file mMapFile would map, else a zero file mMapFile would create.
Reach(i) ==
    IF MappedObj(i) # NoObj THEN data[MappedObj(i)]
    ELSE IF fileObj[i] # NoObj THEN data[fileObj[i]]
    ELSE Zero

-----------------------------------------------------------------------------
\* A fresh undo segment: the constructor has created and mapped file 0.
Init ==
    /\ up = TRUE
    /\ addr = [j \in {0} |-> 1]
    /\ fileObj = [i \in FileIds |-> IF i = 0 THEN 1 ELSE NoObj]
    /\ data = [o \in Objs |-> Zero]
    /\ nextObj = 2
    /\ written = {}
    /\ rec = 1 /\ cur = 1 /\ head = 0
    /\ crashes = 0
    /\ aborted = FALSE

-----------------------------------------------------------------------------
(* Actions                                                                 *)

\* appendUndoRecord -> seekAndWrite: extend the segment of the current
\* offset, then write the record into its mapping.
AppendRecord ==
    /\ up
    /\ MMapCreate(cur)
    /\ data' = [data EXCEPT ![ObjAfterMMap(cur)] = cur]
    /\ written' = written \cup {cur}
    /\ rec' = IF written = {} THEN cur ELSE rec
    /\ UNCHANGED <<up, cur, head, crashes, aborted>>

\* The undo offset crosses into the next segment of the ring, which must
\* hold no live record (spec 4.5.5: the segment is full before that).
AdvanceSegment ==
    /\ up /\ cur \in written /\ RingNext(cur) \notin written
    /\ cur' = RingNext(cur)
    /\ UNCHANGED <<up, addr, fileObj, data, nextObj, written, rec, head,
                   crashes, aborted>>

\* seekAndRead of a live record (a version-chain walk or a rollback):
\* extend maps its segment lazily.
ReadSegment(i) ==
    /\ up /\ i \in written
    /\ MMapCreate(i)
    /\ UNCHANGED <<up, data, written, rec, cur, head, crashes, aborted>>

\* recycleUndoPages that punches without advancing m_recycledBegin.
RecycleUndoPagesNoBegin(e) ==
    LET start == IF head = 0 THEN 1 ELSE head
        st    == PunchFrom([addr |-> addr, file |-> fileObj, aborted |-> FALSE],
                           start, e)
    IN
    /\ up /\ e \in written
    /\ written' = written \ RingRange(rec, e)
    /\ rec' = e
    /\ IF start < e
       THEN /\ fileObj' = st.file
            /\ aborted' = st.aborted
            /\ up' = ~st.aborted
            /\ addr' = IF st.aborted THEN [j \in {} |-> NoObj] ELSE st.addr
       ELSE UNCHANGED <<fileObj, aborted, up, addr>>
    /\ UNCHANGED <<head, data, nextObj, cur, crashes>>

\* recycleTxSlot -> recycleUndoPages: the recycled TxSlots' records end in
\* segment e.  startSegmentId comes from m_recycledBegin (0 becomes 1);
\* only when it is below e is m_recycledBegin advanced and [start, e)
\* punched.
RecycleUndoPages(e) ==
    LET start == IF head = 0 THEN 1 ELSE head
        st    == PunchFrom([addr |-> addr, file |-> fileObj, aborted |-> FALSE],
                           start, e)
    IN
    /\ up /\ e \in written
    /\ written' = written \ RingRange(rec, e)
    /\ rec' = e
    /\ IF start < e
       THEN /\ head' = e
            /\ fileObj' = st.file
            /\ aborted' = st.aborted
            /\ up' = ~st.aborted
            /\ addr' = IF st.aborted THEN [j \in {} |-> NoObj] ELSE st.addr
       ELSE UNCHANGED <<head, fileObj, aborted, up, addr>>
    /\ UNCHANGED <<data, nextObj, cur, crashes>>

\* The process crashes: the mappings (DRAM) are lost, files and their
\* contents (PM) stay.
Crash ==
    /\ up /\ crashes < MaxCrashes
    /\ up' = FALSE
    /\ addr' = [j \in {} |-> NoObj]
    /\ crashes' = crashes + 1
    /\ UNCHANGED <<fileObj, data, nextObj, written, rec, cur, head, aborted>>

\* The first segment id above 0 with no file: where mount() stops.
MountEnd ==
    IF \E i \in 1..Capacity-1 : fileObj[i] = NoObj
    THEN CHOOSE i \in 1..Capacity-1 :
            fileObj[i] = NoObj /\ \A j \in 1..i-1 : fileObj[j] # NoObj
    ELSE Capacity

\* Restart: the constructor maps segment 0; mount() maps 1, 2, ... and stops
\* at the first segment whose file does not exist.
Restart ==
    /\ ~up
    /\ up' = TRUE
    /\ addr' = [j \in 0..MountEnd-1 |-> fileObj[j]]
    /\ UNCHANGED <<fileObj, data, nextObj, written, rec, cur, head, crashes,
                   aborted>>

\* The undo segment at work: records appended, read and recycled.
RunNext ==
    \/ AppendRecord \/ AdvanceSegment
    \/ \E i \in RecSegs : ReadSegment(i) \/ RecycleUndoPages(i)

Next == RunNext \/ Crash \/ Restart

Spec == Init /\ [][Next]_vars

\* One run of the process, without crashes.
RunSpec == Init /\ [][RunNext]_vars

-----------------------------------------------------------------------------
(* Properties                                                              *)

TypeOK ==
    /\ up \in BOOLEAN /\ aborted \in BOOLEAN
    /\ DOMAIN addr \subseteq FileIds
    /\ \E n \in 0..Capacity : DOMAIN addr = 0..n-1
    /\ \A j \in DOMAIN addr : addr[j] \in Objs \cup {NoObj}
    /\ fileObj \in [FileIds -> Objs \cup {NoObj}]
    /\ data \in [Objs -> RecSegs \cup {Zero}]
    /\ nextObj \in 1..MaxObj+1
    /\ written \subseteq RecSegs
    /\ rec \in RecSegs /\ cur \in RecSegs /\ head \in 0..N-1
    /\ crashes \in 0..MaxCrashes

\* Every segment holding live undo records reaches, through its mapping or
\* through the file mMapFile would map, the records written to it: punch
\* never frees a segment with live records (recycleUndoPages computes its
\* range from m_recycledBegin and the last recycled slot), and renaming a
\* punched file to the trailing index never overwrites a live one.
LiveDataIntact ==
    \A i \in written : Reach(i) = i

\* No CHECK of reMMapFile fails: the trailing indexes punch renames to never
\* run out (m_segmentAddr is reserved to maxSegmentCount).
NoPunchAbort == ~aborted

\* Every segment holding live undo records is mapped in m_segmentAddr.  So,
\* without a crash, another thread's seekAndRead of those records (a
\* version-chain walk) takes mMapFile's early return and never resizes or
\* stores into the vector that the owner's extend and the reclaimer's
\* punch write without a lock; the slots a punch nulls are refilled when
\* the ring wraps onto them.
LiveSegmentsMapped ==
    \A i \in written : MappedObj(i) # NoObj
====
