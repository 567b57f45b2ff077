-------------------------- MODULE UndoSegmentPool --------------------------
(***************************************************************************)
(* The pool of undo segments: threads attaching to and detaching from a    *)
(* segment, the TxSlot ring of every segment, and the background thread   *)
(* that recycles the TxSlots of full, free segments.                       *)
(*                                                                         *)
(*   InitLocalUndoSegment, DestroyLocalUndoSegment,                        *)
(*   SwitchUndoSegmentIfFull, UndoRecycle, recycleTxSlot                   *)
(*                                      src/src/undo/nvm_undo_segment.cpp  *)
(*   getDirPathIdByIndex                src/include/common/nvm_cfg.h       *)
(*                                                                         *)
(* isFull, isTxSlotRecyclable, allocateTxSlot, the global minimum snapshot *)
(* and transaction Begin/Commit/Abort are not under src/; they are         *)
(* modelled from spec.md sections 4.5, 4.6 and 4.7.                       *)
(*                                                                         *)
(* The TxSlots of a segment are the fixed array of UNDO_TX_SLOTS entries  *)
(* that slot ids index modulo UNDO_TX_SLOTS.  Absolute slot ids are only   *)
(* used modulo UNDO_TX_SLOTS and in differences, so a segment keeps        *)
(* m_nextRecycleSlot modulo the array size and m_nextFreeSlot as its       *)
(* distance from m_nextRecycleSlot.  The undo record area and              *)
(* recycleUndoPages are not modelled here (see LogicFile); m_minSlotId,    *)
(* which only readers of undo records and isFull's second clause read, is  *)
(* left out with them.                                                     *)
(***************************************************************************)
EXTENDS Integers, Sequences, FiniteSets, FiniteSetsExt

CONSTANTS
    Threads,      \* worker threads
    NSeg,         \* NVMDB_UNDO_SEGMENT_NUM
    DirCount,     \* g_dir_config->size(): NUMA directories
    Threshold,    \* live TxSlots at which a segment is full
    UNDO_TX_SLOTS, \* size of the TxSlot array of a segment
    SLOT_OFFSET,  \* distance to m_nextFreeSlot at which minSnapshot is saved
    MIN_TX_CSN,   \* first CSN
    MaxCSN,       \* bound on the global CSN (commits stop there)
    NoThread      \* model value: g_undoSegmentLock is free

ASSUME NSeg \in Nat \ {0} /\ DirCount \in 1..NSeg
ASSUME Threshold \in Nat \ {0} /\ SLOT_OFFSET \in Nat
ASSUME UNDO_TX_SLOTS \in Nat /\ Threshold <= UNDO_TX_SLOTS
ASSUME MIN_TX_CSN \in Nat /\ MaxCSN \in Nat /\ MIN_TX_CSN <= MaxCSN
ASSUME NoThread \notin Threads

Segs     == 0..NSeg-1
NoSeg    == -1
NoSnap   == -1
NoNode   == -1
Tick     == NSeg    \* loop index past the last segment: back to the sleep
Offs     == 0..UNDO_TX_SLOTS-1

VARIABLES
    \* undo segments (PM) and the DRAM allocation vector
    slots,        \* [Segs -> [Offs -> TxSlot]]: the TxSlot array of each segment
    nrs,          \* [Segs -> Offs]: m_nextRecycleSlot % UNDO_TX_SLOTS
    used,         \* [Segs -> Nat]: m_nextFreeSlot - m_nextRecycleSlot
    minSnapshot,  \* [Segs -> CSN]: segHead->m_minSnapshot
    allocated,    \* [Segs -> {0,1,2}]: g_undoSegmentAllocated
    \* attach protocol
    lock,         \* owner of g_undoSegmentLock, or NoThread
    clockSweep,   \* clock_sweep % NSeg
    counter,      \* g_counter % DirCount
    \* worker threads
    pc,           \* "lock" (entering InitLocalUndoSegment), "sweep", "idle", "tx"
    seg,          \* t_undo_segment_index, NoSeg when t_undo_segment is null
    node,         \* t_numaNodeId, NoNode before the first attach
    snap,         \* snapshot of the running transaction, or NoSnap
    hasSlot,      \* the running transaction owns the last TxSlot of seg
    globalCSN,
    \* reclaimer thread
    rpc,          \* index i of the segment loop, Tick between passes
    previousCSN,
    rstep,        \* the step of recycleTxSlot(rpc) the reclaimer is at
    rbegin,       \* its begin_slot % UNDO_TX_SLOTS
    rk,           \* next_slot - begin_slot: the slots it recycles
    \* history: the (segment, csn) of every committed TxSlot
    committed

vars == <<slots, nrs, used, minSnapshot, allocated, lock, clockSweep, counter,
          pc, seg, node, snap, hasSlot, globalCSN, rpc, previousCSN, rstep,
          rbegin, rk, committed>>

ring == <<slots, nrs, used>>
recycler == <<rpc, previousCSN, rstep, rbegin, rk>>

TxSlots == [status : {"EMPTY", "IN_PROGRESS", "COMMITTED", "ROLL_BACKED"},
            csn : 0..MaxCSN]

\* A zeroed TxSlot (memset 0): status EMPTY, csn 0.
EmptySlot == [status |-> "EMPTY", csn |-> 0]

-----------------------------------------------------------------------------
(* Segment predicates                                                      *)

\* getDirPathIdByIndex: segment i lives in directory i % DirCount.
DirOf(i) == i % DirCount

\* isFull (spec 4.5.5), first clause: nextFreeSlot - nextRecycleSlot >= threshold.
IsFull(s) == used[s] >= Threshold

\* getTxSlot(id): the entry of slot id in the array.
Off(s, i) == (nrs[s] + i) % UNDO_TX_SLOTS

\* The slot m_nextFreeSlot - 1: the one allocateTxSlot handed out last.
LastOff(s) == Off(s, used[s] - 1)

\* isTxSlotRecyclable (spec 4.5.6).
Recyclable(e, min) ==
    \/ e.status \in {"ROLL_BACKED", "EMPTY"}
    \/ e.status = "COMMITTED" /\ e.csn <= min

\* getAndUpdateGlobalMinCSN (spec 4.7.2): the minimum of the active
\* snapshots and the global CSN.
GlobalMinCSN ==
    Min({snap[t] : t \in {u \in Threads : snap[u] # NoSnap}} \cup {globalCSN})

\* The walk of recycleTxSlot: the number of leading recyclable slots.
RecyclablePrefix(s, min) ==
    Max({k \in 0..used[s] :
            \A i \in 0..k-1 : Recyclable(slots[s][Off(s, i)], min)})

\* The memset_s of the recycled slots [b, b + k) modulo the array: one
\* range when begin_offset < end_offset, else the tail of the array and
\* its head.
ZeroedOffs(b, k) ==
    LET e == (b + k) % UNDO_TX_SLOTS IN
    IF b < e THEN b..e-1 ELSE (b..UNDO_TX_SLOTS-1) \cup (0..e-1)

\* DestroyLocalUndoSegment: drop t_undo_segment and free the segment,
\* without taking g_undoSegmentLock.
Destroy(t) ==
    IF seg[t] # NoSeg
    THEN /\ allocated' = [allocated EXCEPT ![seg[t]] = 0]
         /\ seg' = [seg EXCEPT ![t] = NoSeg]
    ELSE UNCHANGED <<allocated, seg>>

-----------------------------------------------------------------------------
Init ==
    /\ slots = [s \in Segs |-> [o \in Offs |-> EmptySlot]]
    /\ nrs = [s \in Segs |-> 0]
    /\ used = [s \in Segs |-> 0]
    /\ minSnapshot = [s \in Segs |-> MIN_TX_CSN]
    /\ allocated = [s \in Segs |-> 0]
    /\ lock = NoThread
    /\ clockSweep = 0
    /\ counter = 0
    /\ pc = [t \in Threads |-> "lock"]
    /\ seg = [t \in Threads |-> NoSeg]
    /\ node = [t \in Threads |-> NoNode]
    /\ snap = [t \in Threads |-> NoSnap]
    /\ hasSlot = [t \in Threads |-> FALSE]
    /\ globalCSN = MIN_TX_CSN
    /\ rpc = Tick
    /\ previousCSN = MIN_TX_CSN
    /\ rstep = "visit" /\ rbegin = 0 /\ rk = 0
    /\ committed = {}

-----------------------------------------------------------------------------
(* Worker threads                                                          *)

\* InitLocalUndoSegment, lines 276-290: take g_undoSegmentLock; on the
\* thread's first attach pick its NUMA node round robin.
LockUndoSegment(t) ==
    /\ pc[t] = "lock" /\ lock = NoThread
    /\ lock' = t
    /\ IF node[t] = NoNode
       THEN /\ node' = [node EXCEPT ![t] = counter]
            /\ counter' = (counter + 1) % DirCount
       ELSE UNCHANGED <<node, counter>>
    /\ pc' = [pc EXCEPT ![t] = "sweep"]
    /\ UNCHANGED <<ring, minSnapshot, allocated, clockSweep, seg, snap,
                   hasSlot, globalCSN, recycler, committed>>

\* InitLocalUndoSegment, lines 292-311: one turn of the clock sweep.  A
\* segment that is free, on the thread's node and not full is taken, the
\* lock released and the caller resumed; otherwise the sweep goes on.
SweepStep(t) ==
    LET i == (clockSweep + 1) % NSeg IN
    /\ pc[t] = "sweep"
    /\ clockSweep' = i
    /\ IF allocated[i] = 0 /\ DirOf(i) = node[t] /\ ~IsFull(i)
       THEN /\ allocated' = [allocated EXCEPT ![i] = 1]
            /\ seg' = [seg EXCEPT ![t] = i]
            /\ lock' = NoThread
            /\ pc' = [pc EXCEPT ![t] = IF snap[t] = NoSnap THEN "idle" ELSE "tx"]
       ELSE UNCHANGED <<allocated, seg, lock, pc>>
    /\ UNCHANGED <<ring, minSnapshot, counter, node, snap, hasSlot, globalCSN,
                   recycler, committed>>

\* Transaction::Begin: the snapshot is the global CSN.
Begin(t) ==
    /\ pc[t] = "idle"
    /\ pc' = [pc EXCEPT ![t] = "tx"]
    /\ snap' = [snap EXCEPT ![t] = globalCSN]
    /\ UNCHANGED <<ring, minSnapshot, allocated, lock, clockSweep, counter,
                   seg, node, hasSlot, globalCSN, recycler, committed>>

\* allocateTxSlot (spec 4.5.1): slot m_nextFreeSlot becomes IN_PROGRESS and
\* m_nextFreeSlot advances.
AllocateTxSlot(s) ==
    /\ slots' = [slots EXCEPT ![s][Off(s, used[s])] =
                    [status |-> "IN_PROGRESS", csn |-> 0]]
    /\ used' = [used EXCEPT ![s] = @ + 1]
    /\ UNCHANGED nrs

\* PrepareUndo whose SwitchUndoSegmentIfFull never switches.
PrepareUndoNoSwitch(t) ==
    /\ pc[t] = "tx" /\ ~hasSlot[t]
    /\ AllocateTxSlot(seg[t])
    /\ hasSlot' = [hasSlot EXCEPT ![t] = TRUE]
    /\ UNCHANGED <<allocated, seg, pc, minSnapshot, lock, clockSweep, counter,
                   node, snap, globalCSN, recycler, committed>>

\* PrepareUndo on the first write: SwitchUndoSegmentIfFull, then
\* allocateTxSlot.  A full segment is detached and the thread re-enters
\* InitLocalUndoSegment; otherwise a new IN_PROGRESS TxSlot is appended.
PrepareUndo(t) ==
    /\ pc[t] = "tx" /\ ~hasSlot[t]
    /\ IF IsFull(seg[t])
       THEN /\ Destroy(t)
            /\ pc' = [pc EXCEPT ![t] = "lock"]
            /\ UNCHANGED <<ring, hasSlot>>
       ELSE /\ AllocateTxSlot(seg[t])
            /\ hasSlot' = [hasSlot EXCEPT ![t] = TRUE]
            /\ UNCHANGED <<allocated, seg, pc>>
    /\ UNCHANGED <<minSnapshot, lock, clockSweep, counter, node, snap,
                   globalCSN, recycler, committed>>

\* The TxSlot of t's transaction is the last one of its segment.
MarkLast(t, status, csn) ==
    /\ slots' = [slots EXCEPT ![seg[t]][LastOff(seg[t])] =
                    [status |-> status, csn |-> csn]]
    /\ UNCHANGED <<nrs, used>>

\* Transaction::Commit: a writer takes the next CSN and marks its TxSlot
\* COMMITTED; a read-only transaction just ends.
Commit(t) ==
    /\ pc[t] = "tx"
    /\ IF hasSlot[t]
       THEN /\ globalCSN < MaxCSN
            /\ globalCSN' = globalCSN + 1
            /\ MarkLast(t, "COMMITTED", globalCSN + 1)
            /\ committed' = committed \cup {<<seg[t], globalCSN + 1>>}
       ELSE UNCHANGED <<globalCSN, ring, committed>>
    /\ pc' = [pc EXCEPT ![t] = "idle"]
    /\ snap' = [snap EXCEPT ![t] = NoSnap]
    /\ hasSlot' = [hasSlot EXCEPT ![t] = FALSE]
    /\ UNCHANGED <<minSnapshot, allocated, lock, clockSweep, counter, seg,
                   node, recycler>>

\* Transaction::Abort after rollback: the TxSlot becomes ROLL_BACKED.
Abort(t) ==
    /\ pc[t] = "tx" /\ hasSlot[t]
    /\ MarkLast(t, "ROLL_BACKED", 0)
    /\ pc' = [pc EXCEPT ![t] = "idle"]
    /\ snap' = [snap EXCEPT ![t] = NoSnap]
    /\ hasSlot' = [hasSlot EXCEPT ![t] = FALSE]
    /\ UNCHANGED <<minSnapshot, allocated, lock, clockSweep, counter, seg,
                   node, globalCSN, recycler, committed>>

\* The thread exits (DestroyThreadLocalVariables -> DestroyLocalUndoSegment)
\* and a new thread takes its place (InitThreadLocalVariables), with fresh
\* thread-local state.
ThreadRestart(t) ==
    /\ pc[t] = "idle"
    /\ Destroy(t)
    /\ pc' = [pc EXCEPT ![t] = "lock"]
    /\ node' = [node EXCEPT ![t] = NoNode]
    /\ UNCHANGED <<ring, minSnapshot, lock, clockSweep, counter, snap,
                   hasSlot, globalCSN, recycler, committed>>

-----------------------------------------------------------------------------
(* Reclaimer thread: UndoRecycle                                           *)

\* Lines 153-158: compute the minimum snapshot; start a pass over the
\* segments only when it differs from the previous one.
RecyclerTick ==
    /\ rpc = Tick
    /\ LET nowCSN == GlobalMinCSN IN
       IF nowCSN = previousCSN
       THEN UNCHANGED <<rpc, previousCSN>>
       ELSE /\ previousCSN' = nowCSN
            /\ rpc' = 0
    /\ UNCHANGED <<ring, minSnapshot, allocated, lock, clockSweep, counter,
                   pc, seg, node, snap, hasSlot, globalCSN, rstep, rbegin, rk,
                   committed>>

workers == <<allocated, lock, clockSweep, counter, pc, seg, node, snap,
             hasSlot, globalCSN, committed>>

NextSeg == IF rpc + 1 = NSeg THEN Tick ELSE rpc + 1

\* recycleTxSlot with m_nextRecycleSlot published before the slots are zeroed.
RecycleStepsPublishFirst == <<"publish", "zero">>

\* Lines 113-127 after the fence: zero the recycled slots, then publish
\* m_nextRecycleSlot ("RE-ORDER NOT ALLOWED HERE").
RecycleSteps == <<"zero", "publish">>

\* The step of recycleTxSlot after st; "visit" when the call has returned.
StepAfter(st) ==
    LET i == IF st = "visit" THEN 0
             ELSE CHOOSE j \in 1..Len(RecycleSteps) : RecycleSteps[j] = st
    IN IF i = Len(RecycleSteps) THEN "visit" ELSE RecycleSteps[i + 1]

\* The reclaimer finishes step st: on to the next step, or, when the call
\* has returned, to the next segment of the pass.
Finish(st) ==
    /\ rstep' = StepAfter(st)
    /\ rpc' = IF StepAfter(st) = "visit" THEN NextSeg ELSE rpc

\* Lines 160-173, and recycleTxSlot up to the fence (lines 88-108): segment
\* i is recycled when it is full and neither in use nor uninitialised; the
\* walk counts the recyclable slots from m_nextRecycleSlot, saves
\* minSnapshot when it ends within SLOT_OFFSET of m_nextFreeSlot, and
\* m_minSlotId is published.  The zeroing and the publication of
\* m_nextRecycleSlot follow as steps of their own.
VisitSeg(min) ==
    /\ rpc \in Segs /\ rstep = "visit"
    /\ LET k == IF IsFull(rpc) /\ allocated[rpc] \notin {1, 2}
                THEN RecyclablePrefix(rpc, min) ELSE 0
       IN IF k = 0
          THEN /\ rpc' = NextSeg
               /\ UNCHANGED <<minSnapshot, rstep, rbegin, rk>>
          ELSE /\ minSnapshot' = IF k + SLOT_OFFSET >= used[rpc]
                                 THEN [minSnapshot EXCEPT ![rpc] = min]
                                 ELSE minSnapshot
               /\ rbegin' = nrs[rpc] /\ rk' = k
               /\ Finish("visit")
    /\ UNCHANGED <<ring, previousCSN>> /\ UNCHANGED workers

\* RecyclerVisit that recycles up to the global CSN instead of nowCSN.
RecyclerVisitGlobalCSN == VisitSeg(globalCSN)

\* Recycling with the minimum the pass started with.
RecyclerVisit == VisitSeg(previousCSN)

\* Lines 114-125: memset_s of the recycled slots, wrapping at the end of
\* the array.
RecyclerZero ==
    /\ rpc \in Segs /\ rstep = "zero"
    /\ slots' = [slots EXCEPT ![rpc] =
                    [o \in Offs |-> IF o \in ZeroedOffs(rbegin, rk)
                                    THEN EmptySlot ELSE @[o]]]
    /\ Finish("zero")
    /\ UNCHANGED <<nrs, used, minSnapshot, previousCSN, rbegin, rk>>
    /\ UNCHANGED workers

\* Line 127: m_nextRecycleSlot.store(next_slot, release); the pass moves on.
RecyclerPublish ==
    /\ rpc \in Segs /\ rstep = "publish"
    /\ nrs' = [nrs EXCEPT ![rpc] = (rbegin + rk) % UNDO_TX_SLOTS]
    /\ used' = [used EXCEPT ![rpc] = @ - rk]
    /\ Finish("publish")
    /\ UNCHANGED <<slots, minSnapshot, previousCSN, rbegin, rk>>
    /\ UNCHANGED workers

Worker(t) ==
    \/ LockUndoSegment(t) \/ SweepStep(t) \/ Begin(t) \/ PrepareUndo(t)
    \/ Commit(t) \/ Abort(t) \/ ThreadRestart(t)

Reclaimer == RecyclerTick \/ RecyclerVisit \/ RecyclerZero \/ RecyclerPublish

Next == (\E t \in Threads : Worker(t)) \/ Reclaimer

\* The reclaimer loops forever and a spinning thread keeps spinning: both
\* are weakly fair.  Transactions need not make progress.
Fairness ==
    /\ WF_vars(Reclaimer)
    /\ \A t \in Threads : WF_vars(LockUndoSegment(t)) /\ WF_vars(SweepStep(t))

Spec == Init /\ [][Next]_vars

FairSpec == Spec /\ Fairness

-----------------------------------------------------------------------------
(* Properties                                                              *)

TypeOK ==
    /\ slots \in [Segs -> [Offs -> TxSlots]]
    /\ nrs \in [Segs -> Offs] /\ used \in [Segs -> 0..Threshold]
    /\ minSnapshot \in [Segs -> 0..MaxCSN]
    /\ allocated \in [Segs -> {0, 1, 2}]
    /\ lock \in Threads \cup {NoThread}
    /\ clockSweep \in Segs /\ counter \in 0..DirCount-1
    /\ pc \in [Threads -> {"lock", "sweep", "idle", "tx"}]
    /\ seg \in [Threads -> Segs \cup {NoSeg}]
    /\ node \in [Threads -> 0..DirCount-1 \cup {NoNode}]
    /\ snap \in [Threads -> 0..MaxCSN \cup {NoSnap}]
    /\ hasSlot \in [Threads -> BOOLEAN]
    /\ globalCSN \in MIN_TX_CSN..MaxCSN
    /\ rpc \in 0..Tick
    /\ previousCSN \in 0..MaxCSN
    /\ rstep \in {"visit", "zero", "publish"}
    /\ rbegin \in Offs /\ rk \in 0..Threshold
    /\ committed \subseteq Segs \times (MIN_TX_CSN..MaxCSN)

\* recycleTxSlot never frees the TxSlot of a committed transaction that an
\* active snapshot cannot see yet (its undo records hold the versions that
\* snapshot reads), although the reclaimer uses a minimum computed before
\* its pass and threads begin and commit during the pass.
HistoryRetained ==
    \A c \in committed, t \in Threads :
        snap[t] # NoSnap /\ c[2] > snap[t] =>
            \E i \in 0..used[c[1]]-1 : slots[c[1]][Off(c[1], i)].csn = c[2]

\* The TxSlot of a running transaction stays IN_PROGRESS until the
\* transaction commits or aborts, although recycleTxSlot zeroes slots by
\* their offset in the array and a thread may attach to the segment and
\* allocate a slot as soon as m_nextRecycleSlot is published.
LiveSlotIntact ==
    \A t \in Threads :
        hasSlot[t] => slots[seg[t]][LastOff(seg[t])].status = "IN_PROGRESS"

\* A thread that enters InitLocalUndoSegment eventually owns a segment
\* (spec 4.9: with no free segment it blocks briefly and retries).
AttachEventually ==
    \A t \in Threads : pc[t] = "lock" ~> pc[t] \in {"idle", "tx"}

====
