------------------------------ MODULE RowAlloc ------------------------------
(***************************************************************************)
(* Row allocation for inserts into one table, across a crash and the      *)
(* asynchronous recovery that follows it.                                  *)
(*                                                                         *)
(*   getNextEmptyRow                    src/include/heap/nvm_rowid_map.h   *)
(*   getNVMTupleByRowId, UpdateMaxPageId, tryAllocNewPage, getUpperRowId   *)
(*                                      src/include/heap/nvm_rowid_mgr.h   *)
(*   tryNextRowid, tryNextSegment       src/src/heap/nvm_vecstore.cpp      *)
(*   HeapInsert                         src/src/nvm_access.cpp             *)
(*   UndoSegmentMount, UndoBGRecovery   src/src/undo/nvm_undo_segment.cpp  *)
(*                                                                         *)
(* GlobalBitMap::SyncAcquire, the thread-local range, commit and the      *)
(* rollback of an insert undo record are not under src/; they are         *)
(* modelled from spec.md sections 4.3, 4.7 and 4.8.  The thread-local     *)
(* rowid cache is left out: nothing under src/ or in the spec says who    *)
(* fills it, so tryNextRowid's first branch is never taken here.          *)
(*                                                                         *)
(* PM keeps the tuple headers' isUsed flags, the leaf extent map, maxPageId *)
(* and the insert undo records of running transactions; a crash loses the *)
(* bitmaps, the ranges, m_isInsertInit and every thread's progress.       *)
(***************************************************************************)
EXTENDS Integers, FiniteSets

CONSTANTS
    Threads,      \* worker threads inserting into the table
    DirCount,     \* g_dir_config->size(): NUMA directories
    BitsPerDir,   \* pagesPerDir: bits of each directory's GlobalBitMap
    ExtentSize,   \* GetExtentSize(HEAP_EXTENT_SIZE), scaled down
    NVMTupleHeadSize, \* sizeof(NVMTuple), in the same unit
    TupleLen,     \* the table's row length (the tupleLen of the constructor)
    MaxInserts,   \* bound on the HeapInsert calls of the whole run
    MaxCrashes    \* bound on crashes

ASSUME DirCount \in Nat \ {0} /\ BitsPerDir \in Nat \ {0}
ASSUME {ExtentSize, NVMTupleHeadSize, TupleLen} \subseteq Nat \ {0}

\* RowIDMgr::RowIDMgr: m_tupleLen = NVMTupleHeadSize + tupleLen, and an
\* extent holds ExtentSize \div m_tupleLen tuples; the remainder is unused.
TPE == ExtentSize \div (NVMTupleHeadSize + TupleLen)

ASSUME TPE \in Nat \ {0}
ASSUME MaxInserts \in Nat /\ MaxCrashes \in Nat

Dirs   == 0..DirCount-1
Bits   == 0..BitsPerDir-1
NExt   == DirCount * BitsPerDir
Exts   == 0..NExt-1
Rows   == 0..NExt*TPE-1
NoRow  == -1
Holding == {"undo", "write", "commit"}   \* the row is reserved by the thread

VARIABLES
    \* PM
    used,         \* [Rows -> BOOLEAN]: tuple header m_isUsed
    valid,        \* [Exts -> BOOLEAN]: NVMPageIdIsValid(extentIds[e])
    maxPage,      \* the atomic maxPageId in the segment head
    undo,         \* rows named by the insert undo of a running transaction
    recovering,   \* rows whose insert undo UndoBGRecovery still rolls back
    \* DRAM
    taken,        \* [Dirs -> SUBSET Bits]: bits acquired from each GlobalBitMap
    range,        \* [Threads -> [next, end]]: the thread's m_range
    insertInit,   \* [Threads -> BOOLEAN]: m_isInsertInit
    dir,          \* [Threads -> Dirs]: NumaBinding localGroupId_
    pc,           \* "idle", "next", "page", "alloc", "check", Holding, "fatal"
    row,          \* [Threads -> Rows \cup {NoRow}]
    \* bounds and history
    inserts, crashes

vars == <<used, valid, maxPage, undo, recovering, taken, range, insertInit,
          dir, pc, row, inserts, crashes>>

ExtentOf(r) == r \div TPE

\* mutant: the directory stride is dropped from the global bit
GlobalBitNoStride(d, b) == d + b

\* globalBit = dirSeq + spaceCount * localBit (tryNextSegment)
GlobalBit(d, b) == d + DirCount * b

\* the range tryNextSegment installs for a newly acquired bit
RangeOf(g) == [next |-> g * TPE, end |-> (g + 1) * TPE]

\* tryNextSegment: SyncAcquire a bit of the thread's directory and install
\* its range; the bitmap running out is fatal.
TryNextSegment(t) ==
    \/ \E b \in Bits \ taken[dir[t]] :
          /\ taken' = [taken EXCEPT ![dir[t]] = @ \cup {b}]
          /\ range' = [range EXCEPT ![t] = RangeOf(GlobalBit(dir[t], b))]
          /\ pc' = [pc EXCEPT ![t] = "next"]
    \/ /\ taken[dir[t]] = Bits
       /\ pc' = [pc EXCEPT ![t] = "fatal"]
       /\ UNCHANGED <<taken, range>>

\* mutant: a plain store instead of the CAS loop
UpdateMaxPageIdStore(e) == maxPage' = e

\* UpdateMaxPageId: the CAS loop raises maxPageId to pageId, never lowers it
UpdateMaxPageId(e) == maxPage' = IF maxPage < e THEN e ELSE maxPage

\* the first invalid slot e, e + DirCount, ... (tryAllocNewPage's loop)
FreeSlots(e) == {x \in Exts : x >= e /\ (x - e) % DirCount = 0 /\ ~valid[x]}
FirstFree(e) == CHOOSE x \in FreeSlots(e) : \A y \in FreeSlots(e) : x <= y

Init ==
    /\ used = [r \in Rows |-> FALSE]
    /\ valid = [e \in Exts |-> FALSE]
    /\ maxPage = 0
    /\ undo = {} /\ recovering = {}
    /\ taken = [d \in Dirs |-> {}]
    /\ range = [t \in Threads |-> [next |-> 0, end |-> 0]]
    /\ insertInit = [t \in Threads |-> FALSE]
    /\ dir \in [Threads -> Dirs]
    /\ pc = [t \in Threads |-> "idle"]
    /\ row = [t \in Threads |-> NoRow]
    /\ inserts = 0 /\ crashes = 0

\* HeapInsert: tx->PrepareUndo(), then getNextEmptyRow
Begin(t) ==
    /\ pc[t] = "idle" /\ inserts < MaxInserts
    /\ pc' = [pc EXCEPT ![t] = "next"]
    /\ inserts' = inserts + 1
    /\ UNCHANGED <<used, valid, maxPage, undo, recovering, taken, range,
                   insertInit, dir, row, crashes>>

\* mutant: the range test admits its end
TryNextRowidLE(t) ==
    /\ pc[t] = "next"
    /\ IF range[t].next <= range[t].end
       THEN /\ row' = [row EXCEPT ![t] = range[t].next]
            /\ range' = [range EXCEPT ![t].next = @ + 1]
            /\ pc' = [pc EXCEPT ![t] = "page"]
            /\ UNCHANGED taken
       ELSE TryNextSegment(t) /\ UNCHANGED row
    /\ UNCHANGED <<used, valid, maxPage, undo, recovering, insertInit, dir,
                   inserts, crashes>>

\* mutant: m_range.next() hands out the same row without advancing
TryNextRowidNoAdvance(t) ==
    /\ pc[t] = "next"
    /\ IF range[t].next < range[t].end
       THEN /\ row' = [row EXCEPT ![t] = range[t].next]
            /\ pc' = [pc EXCEPT ![t] = "page"]
            /\ UNCHANGED <<taken, range>>
       ELSE TryNextSegment(t) /\ UNCHANGED row
    /\ UNCHANGED <<used, valid, maxPage, undo, recovering, insertInit, dir,
                   inserts, crashes>>

\* tryNextRowid: the next row of the range, or tryNextSegment and retry
TryNextRowid(t) ==
    /\ pc[t] = "next"
    /\ IF range[t].next < range[t].end
       THEN /\ row' = [row EXCEPT ![t] = range[t].next]
            /\ range' = [range EXCEPT ![t].next = @ + 1]
            /\ pc' = [pc EXCEPT ![t] = "page"]
            /\ UNCHANGED taken
       ELSE TryNextSegment(t) /\ UNCHANGED row
    /\ UNCHANGED <<used, valid, maxPage, undo, recovering, insertInit, dir,
                   inserts, crashes>>

\* getNVMTupleByRowId(rowId, true): an existing leaf extent is used as is;
\* otherwise UpdateMaxPageId, then tryAllocNewPage
GetTuple(t) ==
    /\ pc[t] = "page"
    /\ LET e == ExtentOf(row[t]) IN
       IF valid[e]
       THEN pc' = [pc EXCEPT ![t] = "check"] /\ UNCHANGED maxPage
       ELSE UpdateMaxPageId(e) /\ pc' = [pc EXCEPT ![t] = "alloc"]
    /\ UNCHANGED <<used, valid, undo, recovering, taken, range, insertInit,
                   dir, row, inserts, crashes>>

\* tryAllocNewPage: optimistic return if the slot became valid, else
\* fastAllocNewExtent and, under m_tableSpaceMutex, install the page at the
\* first free slot of the stride
TryAllocNewPage(t) ==
    /\ pc[t] = "alloc"
    /\ LET e == ExtentOf(row[t]) IN
       IF valid[e] THEN UNCHANGED valid
       ELSE FreeSlots(e) # {} /\ valid' = [valid EXCEPT ![FirstFree(e)] = TRUE]
    /\ pc' = [pc EXCEPT ![t] = "check"]
    /\ UNCHANGED <<used, maxPage, undo, recovering, taken, range, insertInit,
                   dir, row, inserts, crashes>>

\* getNextEmptyRow: a used row is skipped, and before the first successful
\* insert of the thread the whole range is abandoned; a free row is taken
CheckRow(t) ==
    /\ pc[t] = "check"
    /\ IF used[row[t]]
       THEN IF insertInit[t] THEN pc' = [pc EXCEPT ![t] = "next"] /\ UNCHANGED <<taken, range>>
                             ELSE TryNextSegment(t)
       ELSE pc' = [pc EXCEPT ![t] = "undo"] /\ UNCHANGED <<taken, range>>
    /\ insertInit' = [insertInit EXCEPT ![t] = @ \/ ~used[row[t]]]
    /\ UNCHANGED <<used, valid, maxPage, undo, recovering, dir, row, inserts,
                   crashes>>

\* PrepareInsertUndo: the insert undo record naming the row reaches PM
PrepareInsertUndo(t) ==
    /\ pc[t] = "undo"
    /\ undo' = undo \cup {row[t]}
    /\ pc' = [pc EXCEPT ![t] = "write"]
    /\ UNCHANGED <<used, valid, maxPage, recovering, taken, range, insertInit,
                   dir, row, inserts, crashes>>

\* InitHead(.., isUsed = true, ..) and Serialize to the PM tuple
WriteTuple(t) ==
    /\ pc[t] = "write"
    /\ used' = [used EXCEPT ![row[t]] = TRUE]
    /\ pc' = [pc EXCEPT ![t] = "commit"]
    /\ UNCHANGED <<valid, maxPage, undo, recovering, taken, range, insertInit,
                   dir, row, inserts, crashes>>

\* the transaction commits: its TxSlot is COMMITTED, the undo is no longer
\* rolled back
CommitInsert(t) ==
    /\ pc[t] = "commit"
    /\ undo' = undo \ {row[t]}
    /\ pc' = [pc EXCEPT ![t] = "idle"]
    /\ row' = [row EXCEPT ![t] = NoRow]
    /\ UNCHANGED <<used, valid, maxPage, recovering, taken, range, insertInit,
                   dir, inserts, crashes>>

\* the transaction aborts: rolling back the insert undo clears isUsed
AbortInsert(t) ==
    /\ pc[t] = "commit"
    /\ used' = [used EXCEPT ![row[t]] = FALSE]
    /\ undo' = undo \ {row[t]}
    /\ pc' = [pc EXCEPT ![t] = "idle"]
    /\ row' = [row EXCEPT ![t] = NoRow]
    /\ UNCHANGED <<valid, maxPage, recovering, taken, range, insertInit, dir,
                   inserts, crashes>>

\* crash and restart: DRAM is lost, the in-progress inserts are left to
\* UndoBGRecovery, which UndoSegmentMount starts and does not wait for;
\* threads are bound to a directory again
CrashRestart ==
    /\ crashes < MaxCrashes
    /\ crashes' = crashes + 1
    /\ recovering' = recovering \cup undo
    /\ undo' = {}
    /\ taken' = [d \in Dirs |-> {}]
    /\ range' = [t \in Threads |-> [next |-> 0, end |-> 0]]
    /\ insertInit' = [t \in Threads |-> FALSE]
    /\ dir' \in [Threads -> Dirs]
    /\ pc' = [t \in Threads |-> "idle"]
    /\ row' = [t \in Threads |-> NoRow]
    /\ UNCHANGED <<used, valid, maxPage, inserts>>

\* backgroundRecovery rolls back one IN_PROGRESS transaction's insert
RecoverInsert ==
    /\ \E r \in recovering :
          /\ used' = [used EXCEPT ![r] = FALSE]
          /\ recovering' = recovering \ {r}
    /\ UNCHANGED <<valid, maxPage, undo, taken, range, insertInit, dir, pc,
                   row, inserts, crashes>>

\* the workload is finite: every insert has been made, or the bitmap ran out
Quiescent ==
    /\ inserts = MaxInserts \/ \E t \in Threads : pc[t] = "fatal"
    /\ \A t \in Threads : pc[t] \in {"idle", "fatal"}
    /\ recovering = {}
    /\ UNCHANGED vars

Worker(t) ==
    \/ Begin(t) \/ TryNextRowid(t) \/ GetTuple(t) \/ TryAllocNewPage(t)
    \/ CheckRow(t) \/ PrepareInsertUndo(t) \/ WriteTuple(t)
    \/ CommitInsert(t) \/ AbortInsert(t)

Next == (\E t \in Threads : Worker(t)) \/ CrashRestart \/ RecoverInsert \/ Quiescent

Spec == Init /\ [][Next]_vars

\* every worker is an OS thread the scheduler keeps running: a thread with
\* a step to take eventually takes it
FairSpec == Spec /\ \A t \in Threads : WF_vars(Worker(t))

-----------------------------------------------------------------------------

TypeOK ==
    /\ used \in [Rows -> BOOLEAN] /\ valid \in [Exts -> BOOLEAN]
    /\ maxPage \in Exts
    /\ undo \subseteq Rows /\ recovering \subseteq Rows
    /\ taken \in [Dirs -> SUBSET Bits]
    /\ range \in [Threads -> [next : 0..NExt*TPE, end : 0..NExt*TPE]]
    /\ insertInit \in [Threads -> BOOLEAN] /\ dir \in [Threads -> Dirs]
    /\ pc \in [Threads -> {"idle", "next", "page", "alloc", "check", "fatal"} \cup Holding]
    /\ row \in [Threads -> Rows \cup {NoRow}]

\* getNextEmptyRow's contract ("the insert owns this heap range", relied on
\* by HeapInsert writing without the entry lock): no two inserts hold the
\* same row, also after a restart rebuilt the bitmaps from scratch.
ExclusiveRow ==
    \A t1, t2 \in Threads :
        t1 # t2 /\ pc[t1] \in Holding /\ pc[t2] \in Holding => row[t1] # row[t2]

\* HeapUpperRowId (getUpperRowId) bounds every used row, and the row lies
\* in a materialised leaf extent, so a scan up to it sees every row.
UpperBoundCovers ==
    \A r \in Rows : used[r] => r < (maxPage + 1) * TPE /\ valid[ExtentOf(r)]

\* getNextEmptyRow's while(true) ends: a thread that has started looking
\* for a row (tryNextRowid, getNVMTupleByRowId, skipping used rows,
\* tryNextSegment) eventually holds a free row, or hits the exhausted
\* bitmap, or loses its search to a crash; neither skipping used rows nor
\* abandoning ranges before the first insert can loop forever
InsertTerminates ==
    \A t \in Threads : pc[t] = "next" ~> pc[t] \in {"undo", "fatal", "idle"}
====
