--------------------------- MODULE PMPersistence ---------------------------
(***************************************************************************)
(* The flush discipline of the heap write path (src/nvm_access.cpp).  A    *)
(* tuple in PM is two cache lines, its header and its data; every line has *)
(* the value loads see (vol, the CPU cache) and the value PM holds (dur).  *)
(* A line value is the id of the transaction whose store wrote it (0: the  *)
(* table as loaded).  A store changes vol only; a flush, or a write-back   *)
(* the hardware may do at any time, copies vol to dur; a crash keeps dur.  *)
(*                                                                         *)
(* loadDRAMCache returns the PM address itself and flushToNVM and          *)
(* flushHeaderToNVM are empty (include/heap/nvm_rowid_map.h:27-60), so the *)
(* handlers store straight into PM lines; the only flush on the path is    *)
(* the one copyUpdatedColumnsToNVM issues when FlushCache misses.  One     *)
(* worker thread runs its transactions one after another: FlushCache is    *)
(* thread_local, and concurrency between workers is MVCCHeap's subject.    *)
(* Commit, Abort and recovery are not under src/ and follow spec 4.6-4.8:  *)
(* undo records are flushed when appended, Commit writes back and flushes  *)
(* the header line of each written tuple before marking the TxSlot, Abort  *)
(* and recovery copy the undo image back and flush it.                     *)
(***************************************************************************)
EXTENDS Naturals, FiniteSets

CONSTANTS
    Tables,      \* tables, as model values
    Rows,        \* row ids; the same ids exist in every table
    Loaded,      \* row ids in use (committed, durable) when the model starts
    Ops,         \* the heap write functions a run lets the worker call
    MaxTx,       \* transactions the worker runs
    MaxCrashes,  \* crashes
    ForceWriteBack,            \* g_forceWriteBackCSN (true unless a driver clears it)
    NGroups, NWays, MaxCount   \* FlushCache geometry, see FlushCache.tla

ASSUME /\ Loaded \subseteq Rows
       /\ Ops \subseteq {"insert", "update", "update2", "delete"}
       /\ ForceWriteBack \in BOOLEAN

VARIABLES
    vol,        \* [Tuples -> Image]: the lines as loads see them
    dur,        \* [Tuples -> Image]: the lines PM holds
    cimage,     \* [Tuples -> Image]: the last committed image of each tuple
    txn,        \* id of the worker's current (or last) transaction
    active,     \* a transaction is in progress
    undo,       \* tuples the active transaction has a (flushed) undo record for
    wset,       \* tuples the active transaction pushed to its write-set
    committed,  \* ids of committed transactions
    crashes,
    fcSlots, fcCounter, fcHit, fcKey   \* the worker's FlushCache::g_rowIdCache

vars == <<vol, dur, cimage, txn, active, undo, wset, committed, crashes,
          fcSlots, fcCounter, fcHit, fcKey>>

Tuples == Tables \X Rows
Versions == 0 .. MaxTx
States == {"free", "live", "dead"}   \* isUsed / isDeleted of the header
\* A tuple's two lines: the header (m_txInfo, m_prev, isUsed, isDeleted),
\* and the body.  Each holds the transaction that last stored into it.
Image == [head : [ver : Versions, st : States], data : Versions]
RowIdOf(tp) == tp[2]

FC == INSTANCE FlushCache
        WITH Keys <- Rows, slots <- fcSlots, counter <- fcCounter, hit <- fcHit, key <- fcKey

\* The active transaction stores into the header (state st) of tuple tp,
\* and into its body when body holds.
Store(img, tp, st, body) ==
    [img EXCEPT ![tp] = [head |-> [ver |-> txn, st |-> st],
                         data |-> IF body THEN txn ELSE @.data]]

StateOf(tp) == vol[tp].head.st

\* FlushCache::flush(nvmAddr, rowLen): clflushopt of every line of the body.
Flush(img, tp, v) == [img EXCEPT ![tp].data = v[tp].data]

\* Guard shared by the write functions: CheckTxStatus, then (under the entry
\* lock) the row state the function requires.  One write per tuple and
\* transaction keeps each undo image the committed one.
CanWrite(tp, st) == active /\ StateOf(tp) = st /\ tp \notin undo

Init ==
    /\ vol = [tp \in Tuples |->
                [head |-> [ver |-> 0,
                           st |-> IF tp[2] \in Loaded THEN "live" ELSE "free"],
                 data |-> 0]]
    /\ dur = vol
    /\ cimage = vol
    /\ txn = 0
    /\ active = FALSE
    /\ undo = {}
    /\ wset = {}
    /\ committed = {0}
    /\ crashes = 0
    /\ FC!Init

Begin ==
    /\ ~active /\ txn < MaxTx
    /\ txn' = txn + 1 /\ active' = TRUE /\ undo' = {} /\ wset' = {}
    /\ UNCHANGED <<vol, dur, cimage, committed, crashes, fcSlots, fcCounter, fcHit, fcKey>>

\* HeapInsert: PrepareInsertUndo, then InitHead and Serialize store the
\* header (isUsed) and the body straight into PM, with no flush; the tuple
\* joins the write-set only when ForceWriteBackCSN holds.
HeapInsert(tp) ==
    /\ "insert" \in Ops /\ CanWrite(tp, "free")
    /\ undo' = undo \cup {tp}
    /\ vol' = Store(vol, tp, "live", TRUE)
    /\ wset' = IF ForceWriteBack THEN wset \cup {tp} ELSE wset
    /\ UNCHANGED <<dur, cimage, txn, active, committed, crashes,
                   fcSlots, fcCounter, fcHit, fcKey>>

\* HeapUpdate: PrepareUpdateUndo, InitHead and Serialize into PM; the
\* flushToNVM that follows is empty.
HeapUpdate(tp) ==
    /\ "update" \in Ops /\ CanWrite(tp, "live")
    /\ undo' = undo \cup {tp}
    /\ vol' = Store(vol, tp, "live", TRUE)
    /\ wset' = wset \cup {tp}
    /\ UNCHANGED <<dur, cimage, txn, active, committed, crashes,
                   fcSlots, fcCounter, fcHit, fcKey>>

\* HeapUpdate2: PrepareUpdateUndo, m_txInfo and m_prev stored in the PM
\* header, copyUpdatedColumnsToNVM stores the changed columns and flushes the
\* body only when FlushCache::access(rowId) misses; flushToNVM is empty.
HeapUpdate2(tp) ==
    LET fc == FC!AccessResult(fcSlots, fcCounter, RowIdOf(tp))
        v == Store(vol, tp, "live", TRUE)
    IN  /\ "update2" \in Ops /\ CanWrite(tp, "live")
        /\ undo' = undo \cup {tp}
        /\ vol' = v
        /\ dur' = IF fc.hit THEN dur ELSE Flush(dur, tp, v)
        /\ fcSlots' = fc.slots /\ fcCounter' = fc.counter /\ fcHit' = fc.hit
        /\ fcKey' = RowIdOf(tp)
        /\ wset' = wset \cup {tp}
        /\ UNCHANGED <<cimage, txn, active, committed, crashes>>

\* HeapDelete: PrepareDeleteUndo, then isDeleted, m_txInfo and m_prev stored
\* in the PM header; flushHeaderToNVM is empty.
HeapDelete(tp) ==
    /\ "delete" \in Ops /\ CanWrite(tp, "live")
    /\ undo' = undo \cup {tp}
    /\ vol' = Store(vol, tp, "dead", FALSE)
    /\ wset' = wset \cup {tp}
    /\ UNCHANGED <<dur, cimage, txn, active, committed, crashes,
                   fcSlots, fcCounter, fcHit, fcKey>>

\* Commit (spec 4.6): write the CSN back into the header of every tuple of
\* the write-set and flush that header line, then mark the TxSlot COMMITTED
\* (flushed).  What the transaction stored is now the committed image.
Commit ==
    /\ active
    /\ dur' = [tp \in Tuples |->
                 IF tp \in wset THEN [dur[tp] EXCEPT !.head = vol[tp].head]
                 ELSE dur[tp]]
    /\ cimage' = [tp \in Tuples |-> IF tp \in undo THEN vol[tp] ELSE cimage[tp]]
    /\ committed' = committed \cup {txn}
    /\ active' = FALSE /\ undo' = {} /\ wset' = {}
    /\ UNCHANGED <<vol, txn, crashes, fcSlots, fcCounter, fcHit, fcKey>>

\* The undo images of the active transaction copied back over img.
RolledBack(img) ==
    [tp \in Tuples |-> IF tp \in undo THEN cimage[tp] ELSE img[tp]]

\* Abort (spec 4.6): roll the undo records back, flushing the restored bytes.
Abort ==
    /\ active
    /\ vol' = RolledBack(vol)
    /\ dur' = RolledBack(dur)
    /\ active' = FALSE /\ undo' = {} /\ wset' = {}
    /\ UNCHANGED <<cimage, txn, committed, crashes, fcSlots, fcCounter, fcHit, fcKey>>

\* The hardware writes a dirty line of tuple tp back to PM.
WriteBackHead(tp) ==
    /\ vol[tp].head # dur[tp].head
    /\ dur' = [dur EXCEPT ![tp].head = vol[tp].head]
    /\ UNCHANGED <<vol, cimage, txn, active, undo, wset, committed, crashes,
                   fcSlots, fcCounter, fcHit, fcKey>>
WriteBackData(tp) ==
    /\ vol[tp].data # dur[tp].data
    /\ dur' = [dur EXCEPT ![tp].data = vol[tp].data]
    /\ UNCHANGED <<vol, cimage, txn, active, undo, wset, committed, crashes,
                   fcSlots, fcCounter, fcHit, fcKey>>

\* Power failure and restart: the CPU cache and the thread's FlushCache are
\* lost, and recovery rolls the in-progress transaction back from its
\* flushed undo records (spec 4.8).
Crash ==
    /\ crashes < MaxCrashes
    /\ vol' = RolledBack(dur)
    /\ dur' = RolledBack(dur)
    /\ active' = FALSE /\ undo' = {} /\ wset' = {}
    /\ crashes' = crashes + 1
    /\ fcSlots' = FC!EmptySlots /\ fcCounter' = 0 /\ fcHit' = FALSE
    /\ UNCHANGED <<cimage, txn, committed, fcKey>>

\* The worker has run all its transactions and PM holds what it will hold.
Quiescent ==
    /\ ~active /\ txn = MaxTx /\ vol = dur
    /\ UNCHANGED vars

Next ==
    \/ Begin
    \/ \E tp \in Tuples :
          \/ HeapInsert(tp) \/ HeapUpdate(tp) \/ HeapUpdate2(tp) \/ HeapDelete(tp)
          \/ WriteBackHead(tp) \/ WriteBackData(tp)
    \/ Commit \/ Abort \/ Crash
    \/ Quiescent

Spec == Init /\ [][Next]_vars

(***************************************************************************)
(* Properties.                                                             *)
(***************************************************************************)

TypeOK ==
    /\ vol \in [Tuples -> Image]
    /\ dur \in [Tuples -> Image]
    /\ cimage \in [Tuples -> Image]
    /\ txn \in Versions
    /\ active \in BOOLEAN
    /\ undo \subseteq Tuples /\ wset \subseteq undo
    /\ committed \subseteq Versions
    /\ crashes \in 0 .. MaxCrashes
    /\ fcSlots \in [FC!Groups -> [FC!Ways -> FC!Word]]
    /\ fcCounter \in 0 .. NWays /\ fcHit \in BOOLEAN /\ fcKey \in Rows

\* Commit durability (spec 4.8 "COMMITTED slots are already durable" and
\* spec 6 "every PM mutation is followed by cache-line flush(es) and a store
\* fence"): once the worker's transaction has committed, PM holds the
\* header and body it committed for every tuple, so a crash loses nothing.
CommittedImageDurable ==
    \A tp \in Tuples : ~(active /\ tp \in undo) => dur[tp] = cimage[tp]

=============================================================================
