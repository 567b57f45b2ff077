------------------------------ MODULE MVCCHeap ------------------------------
(***************************************************************************)
(* The MVCC write path of the PM row store, with commit, abort, crash and  *)
(* restart recovery.                                                       *)
(*                                                                         *)
(*   HeapInsert / HeapRead / HeapUpdate / HeapUpdate2 / HeapDelete         *)
(*                                        src/src/nvm_access.cpp           *)
(*   getNextEmptyRow                      src/include/heap/nvm_rowid_map.h *)
(*   FetchPreVersion                      src/src/heap/nvm_tuple.cpp       *)
(*   getMaxCSNForRollback, backgroundRecovery, UndoSegmentMount,           *)
(*   CheckRecoverUndoWatermark            src/src/undo/nvm_undo_segment.cpp*)
(*                                                                         *)
(* Transaction Begin/Commit/Abort, PrepareUndo, VersionIsVisible,          *)
(* SatisfiedUpdate and UndoRecordRollBack are not under src/; they are     *)
(* modelled from spec.md sections 4.5, 4.6 and 4.8.                       *)
(*                                                                         *)
(* Every worker thread owns one undo segment (the segment pool is          *)
(* modelled in UndoSegmentPool), so undo segments are named by threads.   *)
(* PM stores are taken to be durable when issued; flush discipline is     *)
(* modelled separately.                                                    *)
(***************************************************************************)
EXTENDS Integers, Sequences, FiniteSets, SequencesExt, TLC

CONSTANTS
    Threads,      \* worker threads; thread t owns undo segment t
    Rows,         \* row ids of one table
    RangeOf,      \* [Threads -> Seq(Rows)]: the row range VecStore gives t
    MaxSlots,     \* TxSlots a segment can hand out (ring bound)
    MaxUndo,      \* undo records one transaction may append
    MaxCrashes,   \* process crashes in one behaviour
    MIN_TX_CSN,   \* first CSN of a fresh database
    ForceWriteBackCSN  \* g_forceWriteBackCSN (the YCSB and TPC-C drivers clear it)

ASSUME MaxSlots \in Nat \ {0} /\ MaxUndo \in Nat \ {0}
ASSUME MaxCrashes \in Nat /\ MIN_TX_CSN \in Nat /\ ForceWriteBackCSN \in BOOLEAN
ASSUME RangeOf \in [Threads -> Seq(Rows)]

VARIABLES
    \* persistent memory
    tuple,        \* [Rows -> tuple header + payload]
    txSlots,      \* [Threads -> Seq(TxSlot)]: the TxSlot ring of each segment
    segHdr,       \* [Threads -> [recoveryStart, recoveryEnd, minSnapshot]]
    \* DRAM
    up,           \* process running
    globalCSN,    \* last CSN handed out (process-wide atomic)
    tx,           \* per-thread transaction context
    cursor,       \* per-thread position in its row range (TLTableCache)
    pending,      \* segments the background recovery thread still has to do
    bg,           \* the recovery thread's loop: segment, slot i, slot rolled back
    \* history, never read by the system
    hist,         \* [Rows -> Seq of committed writes]
    epoch,        \* number of restarts so far
    crashes

pmVars    == <<tuple, txSlots, segHdr>>
dramVars  == <<up, globalCSN, tx, cursor, pending, bg>>
ghostVars == <<hist, epoch, crashes>>
vars      == <<pmVars, dramVars, ghostVars>>

-----------------------------------------------------------------------------
(* Data.  The 64-bit txInfo field is a CSN when its MSB is 1 and a TxSlot   *)
(* pointer (segment, slot) otherwise; the tag records the MSB.  A zeroed    *)
(* header (a row never written) is "zero".  A payload is abstracted to the  *)
(* transaction that wrote it; "no row" and "deleted" are pairs of the    *)
(* same shape so that every read result compares with every other.       *)

SlotIds   == 0 .. MaxSlots - 1
TxIds     == Threads \X SlotIds
NoSlot    == -1
NoData    == <<"nodata", NoSlot>>
NoVal     == <<"none", NoSlot>>      \* HeapRead: NO_VISIBLE_VERSION / not used
DeletedVal == <<"deleted", NoSlot>>  \* HeapRead: ROW_DELETED
InvalidUndoRecPtr == [seg |-> "none", slot |-> 0, idx |-> 0]

CSN(c)    == [kind |-> "csn", csn |-> c]
TSP(s, i) == [kind |-> "tsp", seg |-> s, slot |-> i]
ZeroInfo  == [kind |-> "zero"]

\* every CSN a behaviour can hand out
CSNs      == 0 .. MIN_TX_CSN + MaxSlots * Cardinality(Threads)
TxInfos   == {CSN(c) : c \in CSNs} \cup {TSP(s, i) : s \in Threads, i \in SlotIds}
             \cup {ZeroInfo}
UndoPtrs  == [seg : Threads, slot : SlotIds, idx : 1 .. MaxUndo]
             \cup {InvalidUndoRecPtr}
Tuples    == [txInfo : TxInfos, prev : UndoPtrs, isUsed : BOOLEAN,
              isDeleted : BOOLEAN, data : TxIds \cup {NoData}]
UndoRecs  == [type : {"insert", "update", "delete"}, row : Rows,
              old : Tuples]   \* an insert undo carries no image: EmptyTuple
TxSlots   == [status : {"IN_PROGRESS", "COMMITTED", "ROLL_BACKED"},
              csn : Nat, undo : Seq(UndoRecs), epoch : Nat]
TxStates  == {"idle", "active", "waitAbort", "committing", "aborting"}
Writes    == {"none", "live", "dead"}
ReadVals  == TxIds \cup {NoVal, DeletedVal}

EmptyTuple == [txInfo |-> ZeroInfo, prev |-> InvalidUndoRecPtr,
               isUsed |-> FALSE, isDeleted |-> FALSE, data |-> NoData]
IdleTx     == [st |-> "idle", snap |-> 0, slot |-> NoSlot, ws |-> {},
               csn |-> 0, undoPos |-> 0, wrote |-> [r \in Rows |-> "none"]]

SlotAt(s, i) == txSlots[s][i + 1]
UndoAt(p)    == SlotAt(p.seg, p.slot).undo[p.idx]
MyId(t)      == <<t, tx[t].slot>>

-----------------------------------------------------------------------------
(* Transaction manager (spec 4.6).                                          *)

\* Transaction::VersionIsVisible: the visibility of a header's txInfo to t.
VersionIsVisible(t, info) ==
    CASE info.kind = "csn" ->
            IF info.csn <= tx[t].snap THEN "OK" ELSE "INVISIBLE"
      [] info.kind = "tsp" /\ tx[t].slot # NoSlot
                           /\ <<info.seg, info.slot>> = MyId(t) -> "SELF_UPDATED"
      [] info.kind = "tsp" ->
            LET sl == SlotAt(info.seg, info.slot) IN
            CASE sl.status = "COMMITTED" ->
                    IF sl.csn <= tx[t].snap THEN "OK" ELSE "INVISIBLE"
              [] sl.status = "IN_PROGRESS" -> "BEING_MODIFIED"
              [] OTHER -> "ABORTED"
      [] OTHER -> "ABORTED"

\* Transaction::SatisfiedUpdate: as visibility, a writer's own version is OK.
SatisfiedUpdate(t, info) ==
    LET v == VersionIsVisible(t, info) IN IF v = "SELF_UPDATED" THEN "OK" ELSE v

\* RAMTuple::FetchPreVersion: an update undo restores the old header and the
\* changed columns, an insert/delete undo the whole old image.
FetchPreVersion(ver) == UndoAt(ver.prev).old

\* Mutant of ReadChain: a version being modified is returned as visible.
RECURSIVE ReadChainAcceptBeingModified(_, _)
ReadChainAcceptBeingModified(t, ver) ==
    LET v == VersionIsVisible(t, ver.txInfo) IN
    IF v \in {"OK", "SELF_UPDATED", "BEING_MODIFIED"}
    THEN IF ver.isDeleted THEN DeletedVal ELSE ver.data
    ELSE IF ver.prev = InvalidUndoRecPtr THEN NoVal
    ELSE ReadChainAcceptBeingModified(t, FetchPreVersion(ver))

\* Mutant of ReadChain: an INVISIBLE version ends the walk (no older version).
RECURSIVE ReadChainStopAtInvisible(_, _)
ReadChainStopAtInvisible(t, ver) ==
    LET v == VersionIsVisible(t, ver.txInfo) IN
    IF v \in {"OK", "SELF_UPDATED"}
    THEN IF ver.isDeleted THEN DeletedVal ELSE ver.data
    ELSE IF ver.prev = InvalidUndoRecPtr \/ v = "INVISIBLE" THEN NoVal
    ELSE ReadChainStopAtInvisible(t, FetchPreVersion(ver))

\* The visibility loop of HeapRead, walking m_prev until a version is visible.
RECURSIVE ReadChain(_, _)
ReadChain(t, ver) ==
    LET v == VersionIsVisible(t, ver.txInfo) IN
    IF v \in {"OK", "SELF_UPDATED"}
    THEN IF ver.isDeleted THEN DeletedVal ELSE ver.data
    ELSE IF ver.prev = InvalidUndoRecPtr THEN NoVal
    ELSE ReadChain(t, FetchPreVersion(ver))

\* UndoRecordRollBack for one record: an insert is undone by clearing isUsed,
\* an update or delete by copying the captured old image back.
ApplyUndo(rec, tup) ==
    IF rec.type = "insert"
    THEN [tup EXCEPT ![rec.row].isUsed = FALSE]
    ELSE [tup EXCEPT ![rec.row] = rec.old]

\* UndoRecordRollBack for a whole TxSlot: the records in reverse order.
RollBackSlot(sl, tup) == FoldRight(ApplyUndo, sl.undo, tup)

\* Transaction::PrepareUndo: the first write of a transaction takes the next
\* TxSlot of the thread's segment (allocateTxSlot).
CanPrepare(t) == tx[t].slot # NoSlot \/ Len(txSlots[t]) < MaxSlots
SlotIdAfterPrepare(t) ==
    IF tx[t].slot = NoSlot THEN Len(txSlots[t]) ELSE tx[t].slot
SlotsAfterPrepare(t) ==
    IF tx[t].slot = NoSlot
    THEN [txSlots EXCEPT ![t] = Append(@, [status |-> "IN_PROGRESS", csn |-> 0,
                                           undo |-> <<>>, epoch |-> epoch])]
    ELSE txSlots

\* Append an undo record to t's slot; returns <<new txSlots, UndoRecPtr>>.
AppendUndo(t, rec) ==
    LET sl == SlotsAfterPrepare(t)
        i  == SlotIdAfterPrepare(t)
    IN  <<[sl EXCEPT ![t][i + 1].undo = Append(@, rec)],
          [seg |-> t, slot |-> i, idx |-> Len(sl[t][i + 1].undo) + 1]>>

\* Mutant of CanAppend: the undo capacity check is off by one.
CanAppendOffByOne(t) ==
    /\ CanPrepare(t)
    /\ tx[t].slot # NoSlot => Len(SlotAt(t, tx[t].slot).undo) <= MaxUndo

CanAppend(t) ==
    /\ CanPrepare(t)
    /\ tx[t].slot # NoSlot => Len(SlotAt(t, tx[t].slot).undo) < MaxUndo

Running(t) == up /\ tx[t].st = "active"

-----------------------------------------------------------------------------
(* Recovery helpers (nvm_undo_segment.cpp).                                 *)

\* UndoSegment::isEmpty: no TxSlot between nextRecycleSlot and nextFreeSlot.
IsEmpty(s)   == Len(txSlots[s]) = 0
SlotEnd(s)   == Len(txSlots[s]) - 1
SlotBegin(s) == IF SlotEnd(s) > 0 THEN SlotEnd(s) - 1 ELSE 0

\* UndoSegment::getMaxCSNForRollback: the largest CSN among the last two
\* allocated TxSlots, and the recovery range it records in the header.
MaxCSNForRollback(s) ==
    IF IsEmpty(s) THEN segHdr[s].minSnapshot
    ELSE Max({0} \cup {SlotAt(s, i).csn :
                 i \in {j \in SlotBegin(s) .. SlotEnd(s) :
                          SlotAt(s, j).status = "COMMITTED"}})
HdrAfterMount(s) ==
    IF IsEmpty(s) THEN segHdr[s]
    ELSE [segHdr[s] EXCEPT
            !.recoveryStart = IF @ = 0 THEN SlotBegin(s) + 1 ELSE @,
            !.recoveryEnd   = SlotEnd(s)]

\* The recovery thread between two segments.
NoSeg  == "none"
BgIdle == [seg |-> NoSeg, i |-> 0, rolled |-> FALSE]

\* Whether getTxSlot(i) of s is a slot left IN_PROGRESS (a slot past
\* nextFreeSlot is zeroed and never IN_PROGRESS).
NeedsRollBack(s, i) == i < Len(txSlots[s]) /\ SlotAt(s, i).status = "IN_PROGRESS"

-----------------------------------------------------------------------------
Init ==
    /\ tuple     = [r \in Rows |-> EmptyTuple]
    /\ txSlots   = [s \in Threads |-> <<>>]
    /\ segHdr    = [s \in Threads |-> [recoveryStart |-> 0, recoveryEnd |-> 0,
                                       minSnapshot |-> 0]]
    /\ up        = TRUE
    /\ globalCSN = MIN_TX_CSN
    /\ tx        = [t \in Threads |-> IdleTx]
    /\ cursor    = [t \in Threads |-> 0]
    /\ pending   = {}
    /\ bg        = BgIdle
    /\ hist      = [r \in Rows |-> <<>>]
    /\ epoch     = 0
    /\ crashes   = 0

\* Transaction::Begin: the snapshot is the current global CSN.
Begin(t) ==
    /\ up /\ tx[t].st = "idle"
    /\ tx' = [tx EXCEPT ![t] = [IdleTx EXCEPT !.st = "active", !.snap = globalCSN]]
    /\ UNCHANGED <<pmVars, up, globalCSN, cursor, pending, bg, hist, epoch, crashes>>

\* HeapInsert: PrepareUndo, getNextEmptyRow (skip used rows of the range,
\* stamp txInfo), PrepareInsertUndo, InitHead + Serialize, and PushWriteSet
\* only when ForceWriteBackCSN holds: otherwise Commit leaves the header's
\* TxSlot pointer in place.  No entry lock: the range is exclusive to t.
HeapInsert(t) ==
    LET rg   == RangeOf[t]
        free == {k \in cursor[t] + 1 .. Len(rg) : ~tuple[rg[k]].isUsed}
    IN
    /\ Running(t) /\ CanAppend(t) /\ free # {}
    /\ LET k  == Min(free)
           r  == rg[k]
           i  == SlotIdAfterPrepare(t)
           ap == AppendUndo(t, [type |-> "insert", row |-> r, old |-> EmptyTuple])
       IN /\ cursor'  = [cursor EXCEPT ![t] = k]
          /\ txSlots' = ap[1]
          /\ tuple'   = [tuple EXCEPT ![r] = [txInfo |-> TSP(t, i),
                             prev |-> InvalidUndoRecPtr, isUsed |-> TRUE,
                             isDeleted |-> FALSE, data |-> <<t, i>>]]
          /\ tx' = [tx EXCEPT ![t].slot = i,
                              ![t].ws = IF ForceWriteBackCSN THEN @ \cup {r} ELSE @,
                              ![t].wrote[r] = "live"]
    /\ UNCHANGED <<segHdr, up, globalCSN, pending, bg, ghostVars>>

\* HeapRead: copy the tuple under the entry lock, then walk the versions.  It
\* changes no state the model keeps (addReadRef bumps a statistics counter);
\* what it returns to the caller is ReadResult(t, r), which the properties
\* check in every state for every thread and row.
ReadResult(t, r) ==
    IF tuple[r].isUsed THEN ReadChain(t, tuple[r]) ELSE NoVal

HeapRead(t, r) ==
    /\ Running(t)
    /\ UNCHANGED vars

\* Mutant of Rejected: only an invisible version is a conflict.
RejectedOnlyInvisible(t, r) ==
    \/ SatisfiedUpdate(t, tuple[r].txInfo) = "INVISIBLE"
    \/ tuple[r].isDeleted

\* The early exit shared by HeapUpdate, HeapUpdate2 and HeapDelete: the
\* current version is invisible, being modified, or a visible delete.
\* PrepareUndo has already taken a TxSlot.
Rejected(t, r) ==
    \/ SatisfiedUpdate(t, tuple[r].txInfo) \in {"INVISIBLE", "BEING_MODIFIED"}
    \/ tuple[r].isDeleted
WaitAbort(t) ==
    /\ txSlots' = SlotsAfterPrepare(t)
    /\ tx' = [tx EXCEPT ![t].st = "waitAbort", ![t].slot = SlotIdAfterPrepare(t)]
    /\ UNCHANGED <<tuple, segHdr, up, globalCSN, cursor, pending, bg, ghostVars>>

\* Mutant of WriteVersion: the new header is not linked to its undo record.
WriteVersionNoPrev(t, r, type, deleted) ==
    LET i  == SlotIdAfterPrepare(t)
        ap == AppendUndo(t, [type |-> type, row |-> r, old |-> tuple[r]])
    IN /\ txSlots' = ap[1]
       /\ tuple' = [tuple EXCEPT ![r].txInfo = TSP(t, i),
                                 ![r].isDeleted = deleted,
                                 ![r].data = IF deleted THEN @ ELSE <<t, i>>]
       /\ tx' = [tx EXCEPT ![t].slot = i, ![t].ws = @ \cup {r},
                           ![t].wrote[r] = IF deleted THEN "dead" ELSE "live"]
       /\ UNCHANGED <<segHdr, up, globalCSN, cursor, pending, bg, ghostVars>>

\* The body shared by the update paths and the delete path: log the old
\* image, then install txInfo = TSP and prev = the new undo record.
WriteVersion(t, r, type, deleted) ==
    LET i  == SlotIdAfterPrepare(t)
        ap == AppendUndo(t, [type |-> type, row |-> r, old |-> tuple[r]])
    IN /\ txSlots' = ap[1]
       /\ tuple' = [tuple EXCEPT ![r].txInfo = TSP(t, i), ![r].prev = ap[2],
                                 ![r].isDeleted = deleted,
                                 ![r].data = IF deleted THEN @ ELSE <<t, i>>]
       /\ tx' = [tx EXCEPT ![t].slot = i, ![t].ws = @ \cup {r},
                           ![t].wrote[r] = IF deleted THEN "dead" ELSE "live"]
       /\ UNCHANGED <<segHdr, up, globalCSN, cursor, pending, bg, ghostVars>>

\* HeapUpdate (read-modify-write: the whole tuple is serialized).
HeapUpdate(t, r) ==
    /\ Running(t) /\ tuple[r].isUsed /\ CanPrepare(t)
    /\ \/ Rejected(t, r) /\ WaitAbort(t)
       \/ ~Rejected(t, r) /\ CanAppend(t) /\ WriteVersion(t, r, "update", FALSE)

\* HeapUpdate2 (direct update: only the changed columns are copied).
HeapUpdate2(t, r) ==
    /\ Running(t) /\ tuple[r].isUsed /\ CanPrepare(t)
    /\ \/ Rejected(t, r) /\ WaitAbort(t)
       \/ ~Rejected(t, r) /\ CanAppend(t) /\ WriteVersion(t, r, "update", FALSE)

\* HeapDelete: log the full old image, set isDeleted, flush the header.
HeapDelete(t, r) ==
    /\ Running(t) /\ tuple[r].isUsed /\ CanPrepare(t)
    /\ \/ Rejected(t, r) /\ WaitAbort(t)
       \/ ~Rejected(t, r) /\ CanAppend(t) /\ WriteVersion(t, r, "delete", TRUE)

\* Transaction::Commit of a transaction that never wrote: no TxSlot, no CSN.
CommitReadOnly(t) ==
    /\ Running(t) /\ tx[t].slot = NoSlot
    /\ tx' = [tx EXCEPT ![t] = IdleTx]
    /\ UNCHANGED <<pmVars, up, globalCSN, cursor, pending, bg, ghostVars>>

\* Transaction::Commit, step 1: obtain the next CSN from the global counter.
CommitBegin(t) ==
    /\ Running(t) /\ tx[t].slot # NoSlot
    /\ globalCSN' = globalCSN + 1
    /\ tx' = [tx EXCEPT ![t].st = "committing", ![t].csn = globalCSN + 1]
    /\ UNCHANGED <<pmVars, up, cursor, pending, bg, ghostVars>>

\* Transaction::Commit, step 2: replace the txInfo of one write-set entry by
\* the CSN (one aligned 8-byte store, flushed).
CommitWriteBack(t, r) ==
    /\ up /\ tx[t].st = "committing" /\ r \in tx[t].ws
    /\ tuple' = [tuple EXCEPT ![r].txInfo = CSN(tx[t].csn)]
    /\ tx' = [tx EXCEPT ![t].ws = @ \ {r}]
    /\ UNCHANGED <<txSlots, segHdr, up, globalCSN, cursor, pending, bg, ghostVars>>

\* Transaction::Commit, step 3: csn and COMMITTED into the TxSlot, flushed.
CommitFinish(t) ==
    /\ up /\ tx[t].st = "committing" /\ tx[t].ws = {}
    /\ txSlots' = [txSlots EXCEPT ![t][tx[t].slot + 1].status = "COMMITTED",
                                  ![t][tx[t].slot + 1].csn = tx[t].csn]
    /\ hist' = [r \in Rows |->
                  IF tx[t].wrote[r] = "none" THEN hist[r]
                  ELSE Append(hist[r], [csn |-> tx[t].csn, snap |-> tx[t].snap,
                                        val |-> IF tx[t].wrote[r] = "dead"
                                                THEN DeletedVal ELSE MyId(t)])]
    /\ tx' = [tx EXCEPT ![t] = IdleTx]
    /\ UNCHANGED <<tuple, segHdr, up, globalCSN, cursor, pending, bg,
                   epoch, crashes>>

\* Transaction::Abort (also after WAIT_ABORT): a transaction without a TxSlot
\* just ends; otherwise its undo records are applied newest first.
AbortBegin(t) ==
    /\ up /\ tx[t].st \in {"active", "waitAbort"}
    /\ tx' = [tx EXCEPT ![t] =
                IF tx[t].slot = NoSlot THEN IdleTx
                ELSE [@ EXCEPT !.st = "aborting",
                               !.undoPos = Len(SlotAt(t, tx[t].slot).undo)]]
    /\ UNCHANGED <<pmVars, up, globalCSN, cursor, pending, bg, ghostVars>>

AbortStep(t) ==
    /\ up /\ tx[t].st = "aborting" /\ tx[t].undoPos > 0
    /\ tuple' = ApplyUndo(SlotAt(t, tx[t].slot).undo[tx[t].undoPos], tuple)
    /\ tx' = [tx EXCEPT ![t].undoPos = @ - 1]
    /\ UNCHANGED <<txSlots, segHdr, up, globalCSN, cursor, pending, bg, ghostVars>>

\* markAborted: status ROLL_BACKED once every record is undone.
AbortFinish(t) ==
    /\ up /\ tx[t].st = "aborting" /\ tx[t].undoPos = 0
    /\ txSlots' = [txSlots EXCEPT ![t][tx[t].slot + 1].status = "ROLL_BACKED"]
    /\ tx' = [tx EXCEPT ![t] = IdleTx]
    /\ UNCHANGED <<tuple, segHdr, up, globalCSN, cursor, pending, bg, ghostVars>>

\* A process crash: DRAM is lost, PM is kept.
Crash ==
    /\ up /\ crashes < MaxCrashes
    /\ up' = FALSE
    /\ tx' = [t \in Threads |-> IdleTx]
    /\ pending' = {}
    /\ bg' = BgIdle
    /\ crashes' = crashes + 1
    /\ UNCHANGED <<pmVars, globalCSN, cursor, hist, epoch>>

\* BootStrap -> UndoSegmentMount: mount every segment, CheckRecoverUndoWatermark
\* (getMaxCSNForRollback of each), setRecoveredCSN, start UndoBGRecovery.
\* The watermark bump (GetAndIncreaseWatermark) is commented out at line 250.
Restart ==
    /\ ~up
    /\ segHdr' = [s \in Threads |-> HdrAfterMount(s)]
    /\ globalCSN' = Max({MIN_TX_CSN} \cup {MaxCSNForRollback(s) : s \in Threads})
    /\ pending' = Threads
    /\ up' = TRUE
    /\ cursor' = [t \in Threads |-> 0]
    /\ epoch' = epoch + 1
    /\ UNCHANGED <<tuple, txSlots, tx, bg, hist, crashes>>

\* UndoBGRecovery calls backgroundRecovery on the next segment: the loop
\* starts at the recoveryStart stored in the segment header.  The thread
\* walks the segments in index order; the model takes them in any order.
RecoverSegment(s) ==
    /\ up /\ bg.seg = NoSeg /\ s \in pending
    /\ bg' = [seg |-> s, i |-> segHdr[s].recoveryStart, rolled |-> FALSE]
    /\ pending' = pending \ {s}
    /\ UNCHANGED <<pmVars, up, globalCSN, tx, cursor, ghostVars>>

\* One turn of the loop, i <= recoveryEnd: an IN_PROGRESS slot is rolled back
\* (UndoRecordRollBack, its records newest first); any other slot is passed.
RecoverSlot ==
    LET s == bg.seg IN
    /\ up /\ s # NoSeg /\ ~bg.rolled /\ bg.i <= segHdr[s].recoveryEnd
    /\ \/ /\ NeedsRollBack(s, bg.i)
          /\ tuple' = RollBackSlot(SlotAt(s, bg.i), tuple)
          /\ bg' = [bg EXCEPT !.rolled = TRUE]
       \/ /\ ~NeedsRollBack(s, bg.i)
          /\ bg' = [bg EXCEPT !.i = @ + 1]
          /\ UNCHANGED tuple
    /\ UNCHANGED <<txSlots, segHdr, up, globalCSN, tx, cursor, pending, ghostVars>>

\* The store txSlot->status = ROLL_BACKED after the rollback, a separate
\* store that a crash can precede.
RecoverMark ==
    LET s == bg.seg IN
    /\ up /\ bg.rolled
    /\ txSlots' = [txSlots EXCEPT ![s][bg.i + 1].status = "ROLL_BACKED"]
    /\ bg' = [bg EXCEPT !.i = @ + 1, !.rolled = FALSE]
    /\ UNCHANGED <<tuple, segHdr, up, globalCSN, tx, cursor, pending, ghostVars>>

\* The loop is done: m_recoveryStart = 0.
RecoverSegmentEnd ==
    LET s == bg.seg IN
    /\ up /\ s # NoSeg /\ ~bg.rolled /\ bg.i > segHdr[s].recoveryEnd
    /\ segHdr' = [segHdr EXCEPT ![s].recoveryStart = 0]
    /\ bg' = BgIdle
    /\ UNCHANGED <<tuple, txSlots, up, globalCSN, tx, cursor, pending, ghostVars>>

\* The steps of the worker threads while the process runs.
WorkerNext ==
    \E t \in Threads :
        \/ Begin(t) \/ HeapInsert(t) \/ CommitReadOnly(t) \/ CommitBegin(t)
        \/ CommitFinish(t) \/ AbortBegin(t) \/ AbortStep(t) \/ AbortFinish(t)
        \/ \E r \in Rows :
              \/ HeapRead(t, r) \/ HeapUpdate(t, r) \/ HeapUpdate2(t, r)
              \/ HeapDelete(t, r) \/ CommitWriteBack(t, r)

\* Workers, crashes, restarts and the background recovery thread.
Next ==
    \/ WorkerNext
    \/ Crash
    \/ Restart
    \/ \E s \in Threads : RecoverSegment(s)
    \/ RecoverSlot \/ RecoverMark \/ RecoverSegmentEnd

Spec == Init /\ [][Next]_vars

\* A process that never crashes: the workers alone.
WorkerSpec == Init /\ [][WorkerNext]_vars

-----------------------------------------------------------------------------
(* Properties.                                                              *)

TypeOK ==
    /\ tuple \in [Rows -> Tuples]
    /\ txSlots \in [Threads -> Seq(TxSlots)]
    /\ \A s \in Threads : Len(txSlots[s]) <= MaxSlots
    /\ segHdr \in [Threads -> [recoveryStart : Nat, recoveryEnd : Nat,
                               minSnapshot : Nat]]
    /\ up \in BOOLEAN /\ globalCSN \in Nat /\ pending \subseteq Threads
    /\ bg \in [seg : Threads \cup {NoSeg}, i : Nat, rolled : BOOLEAN]
    /\ tx \in [Threads -> [st : TxStates, snap : Nat, slot : SlotIds \cup {NoSlot},
                           ws : SUBSET Rows, csn : Nat, undoPos : 0 .. MaxUndo,
                           wrote : [Rows -> Writes]]]
    /\ cursor \in [Threads -> Nat]

\* The process runs and the recovery thread has walked every segment.
RecoveryDone == up /\ pending = {} /\ bg.seg = NoSeg

\* The writes of row r that have a CSN: those of finished commits, and those
\* of transactions inside Commit, which took their CSN at CommitBegin.
WriteVal(t, r) == IF tx[t].wrote[r] = "dead" THEN DeletedVal ELSE MyId(t)
CSNWrites(r) ==
    ToSet(hist[r]) \cup
    {[csn |-> tx[t].csn, snap |-> tx[t].snap, val |-> WriteVal(t, r)] :
        t \in {u \in Threads : tx[u].st = "committing" /\ tx[u].wrote[r] # "none"}}

\* The value the writes with a CSN give row r at snapshot s: that of the one
\* with the largest CSN not above s.
LatestAt(r, s) ==
    LET ws == {w \in CSNWrites(r) : w.csn <= s} IN
    IF ws = {} THEN NoVal
    ELSE (CHOOSE w \in ws : \A v \in ws : v.csn <= w.csn).val

\* Whether the writer w of a version has a CSN not above s: its TxSlot is
\* COMMITTED with such a CSN, or it is inside Commit with one.
CommittedBy(w, s) ==
    \/ SlotAt(w[1], w[2]).status = "COMMITTED" /\ SlotAt(w[1], w[2]).csn <= s
    \/ tx[w[1]].st = "committing" /\ tx[w[1]].slot = w[2] /\ tx[w[1]].csn <= s

\* HeapRead never returns a payload written by another transaction unless that
\* transaction has taken a CSN within the reader's snapshot (no dirty read,
\* including through the version chain walked by FetchPreVersion).
ReadCommittedOnly ==
    \A t \in Threads :
        \A r \in Rows :
            Running(t) /\ tx[t].wrote[r] = "none" /\ ReadResult(t, r) \in TxIds
            => CommittedBy(ReadResult(t, r), tx[t].snap)

\* Snapshot reads: whenever no transaction is inside Commit, HeapRead gives a
\* thread the value that the committed write with the largest CSN not above
\* its snapshot gave the row (or no row), for every row it has not written
\* itself.  The header may hold a CSN or, for an insert committed without
\* ForceWriteBackCSN, a pointer to a COMMITTED TxSlot; older versions come
\* from the undo records FetchPreVersion walks, whatever order the commits
\* and aborts of the other thread ran in.
SnapshotRead ==
    (\A u \in Threads : tx[u].st # "committing")
    => \A t \in Threads : \A r \in Rows :
          Running(t) /\ tx[t].wrote[r] = "none"
          => ReadResult(t, r) = LatestAt(r, tx[t].snap)

\* Two committed writers of the same row never overlap: the one with the
\* later CSN took its snapshot at or after the other's CSN, whatever order
\* their CommitFinish steps ran in (HeapUpdate/HeapDelete conflict detection
\* through VersionIsVisible and SatisfiedUpdate).
FirstUpdaterWins ==
    \A r \in Rows : \A j, k \in DOMAIN hist[r] :
        hist[r][j].csn < hist[r][k].csn => hist[r][j].csn <= hist[r][k].snap

IsCommittedInfo(info) ==
    \/ info.kind = "csn"
    \/ info.kind = "tsp" /\ SlotAt(info.seg, info.slot).status = "COMMITTED"

RECURSIVE CommittedVersion(_)
CommittedVersion(ver) ==
    IF IsCommittedInfo(ver.txInfo)
    THEN IF ver.isDeleted THEN DeletedVal ELSE ver.data
    ELSE IF ver.prev = InvalidUndoRecPtr THEN NoVal
    ELSE CommittedVersion(FetchPreVersion(ver))

DurableValue(r) == IF tuple[r].isUsed THEN CommittedVersion(tuple[r]) ELSE NoVal

\* Whenever no commit is in flight and recovery is done, the newest committed
\* version on PM of every row is the committed write of that row with the
\* largest CSN, whatever order the CommitFinish steps ran in: no
\* committed write is lost, no rolled-back one survives.
CommittedDurable ==
    (RecoveryDone /\ \A t \in Threads : tx[t].st # "committing")
    => \A r \in Rows : DurableValue(r) = LatestAt(r, Max(CSNs))

\* Once background recovery has finished, no TxSlot allocated before the last
\* restart is still IN_PROGRESS (spec 8, scenario 4).
RecoveryComplete ==
    RecoveryDone
    => \A s \in Threads : \A i \in DOMAIN txSlots[s] :
          txSlots[s][i].epoch < epoch => txSlots[s][i].status # "IN_PROGRESS"

\* backgroundRecovery rolls back only transactions cut off by the crash: it
\* never changes the status of a TxSlot allocated by a worker after the
\* restart, although CheckRecoverUndoWatermark hands the segments back to the
\* workers (g_undoSegmentAllocated = 0) before the recovery thread runs.
RecoveryLeavesLiveSlots ==
    [][RecoverMark =>
         \A s \in Threads : \A i \in DOMAIN txSlots[s] :
            txSlots[s][i].epoch = epoch
            => txSlots'[s][i].status = txSlots[s][i].status]_vars

\* The transaction that wrote a version: the owner of the undo record its
\* prev points to, or, for an insert, the writer recorded in its payload.
WriterOf(ver) ==
    IF ver.prev = InvalidUndoRecPtr THEN ver.data ELSE <<ver.prev.seg, ver.prev.slot>>
CommittedWriter(ver) ==
    LET w == WriterOf(ver) IN
    w \in TxIds /\ w[2] < Len(txSlots[w[1]]) /\ SlotAt(w[1], w[2]).status = "COMMITTED"

\* A rollback by the recovery thread never overwrites a version that another
\* transaction wrote and committed: restoring an undo image changes only rows
\* whose newest version the rolled-back TxSlot wrote, or versions whose
\* writer is itself uncommitted and due for rollback.  It breaks when a slot
\* was rolled back (by Abort or by recovery) and the crash came before its
\* ROLL_BACKED store, so that the next mount rolls it back again over writes
\* committed in between; and when the crash cut off a commit whose row a
\* later writer had overwritten, so that the two rollbacks undo each other.
RecoveryRollsBackOwnRows ==
    [][RecoverSlot /\ bg'.rolled =>
         \A r \in Rows :
            tuple'[r] # tuple[r] /\ CommittedWriter(tuple[r])
            => WriterOf(tuple[r]) = <<bg.seg, bg.i>>]_vars

\* While the process runs, the CSN counter is at or above the CSN of every
\* transaction that ever committed, so after CheckRecoverUndoWatermark and
\* setRecoveredCSN a new snapshot still sees all data committed before the
\* restart (spec 4.8 step 3 and 8, scenario 5).
CSNAboveDurable ==
    up => \A r \in Rows : \A w \in ToSet(hist[r]) : w.csn <= globalCSN
=============================================================================
