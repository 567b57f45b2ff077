------------------------------ MODULE RowIdMap ------------------------------
(***************************************************************************)
(* The DRAM row directory of one table: the lazily allocated level-1      *)
(* segment blocks and the lazily initialised entries, under concurrent    *)
(* first touch.                                                            *)
(*                                                                         *)
(*   RowIdMap::GetSegment, RowIdMap::GetEntry                              *)
(*                                      src/src/heap/nvm_rowid_map.cpp     *)
(*   RowIdMapEntry::Init, IsValid        src/include/heap/nvm_rowid_map.h   *)
(*   GetRowIdMap, Destroy/InitLocalRowIdMapCache                           *)
(*                                      src/src/heap/nvm_rowid_map.cpp     *)
(*                                                                         *)
(* A block is a model value drawn from a bounded supply (make_unique plus *)
(* memset: every entry of a fresh block is invalid).  The tuple address   *)
(* an entry records is the row id it was resolved for.  Holding the       *)
(* m_segmentsMutex or an entry's spinlock spans no other shared access, so *)
(* the locked sections are single steps.  The unlocked reads of           *)
(* m_segments[segId] and of m_isTupleValid are single steps too: a        *)
(* pointer-sized load, ordered by the release fence in Init and the       *)
(* acquire fence at the end of GetEntry.                                  *)
(*                                                                         *)
(* GetRowIdMap finds the RowIdMap of a table (its segHead) first in the   *)
(* calling thread's g_localRowidMaps and otherwise, under g_grimMtx, in   *)
(* g_globalRowidMaps, creating it there when absent.  The thread-local    *)
(* lookup touches no shared state, so the call is one step.               *)
(***************************************************************************)
EXTENDS Integers, FiniteSets

CONSTANTS
    Threads,      \* threads calling GetEntry
    NSegs,        \* SegmentEntryLen
    SegLen,       \* RowIdMapSegmentLen
    MaxBlocks,    \* blocks make_unique can return (at least MaxOps: never exhausted)
    MaxOps,       \* bound on the GetEntry calls of the whole run
    SegHeads,     \* tables, by their segment head page
    MaxMaps       \* RowIdMap objects `new` can return

ASSUME NSegs \in Nat \ {0} /\ SegLen \in Nat \ {0}
ASSUME MaxOps \in Nat /\ MaxBlocks \in Nat /\ MaxBlocks >= MaxOps

SegIds == 0..NSegs-1
Offs   == 0..SegLen-1
Rows   == 0..NSegs*SegLen-1
Blocks == 1..MaxBlocks
Null   == 0
NoRow  == -1
NoEntry == [blk |-> Null, off |-> 0]
MapIds == 1..MaxMaps
NoMap  == 0

VARIABLES
    segments,     \* [SegIds -> Blocks \cup {Null}]: m_segments
    entries,      \* [Blocks -> [Offs -> [valid, addr]]]: the entries of each block
    nextBlock,    \* the next block make_unique returns
    exists,       \* rows whose PM tuple exists (their leaf extent is materialised)
    pc,           \* "idle", "seg", "install", "entry", "init"
    rowOf,        \* [Threads -> Rows \cup {NoRow}]: the rowId of the call
    local,        \* [Threads -> Blocks \cup {Null}]: nextSegment
    seg,          \* [Threads -> Blocks \cup {Null}]: the block GetSegment returned
    tuple,        \* [Threads -> Rows \cup {NoRow}]: nvmTuple (NoRow for nullptr)
    ret,          \* [Threads -> entry]: what the last GetEntry returned
    ops,
    globalMaps,   \* [SegHeads -> MapIds \cup {NoMap}]: g_globalRowidMaps
    localMaps,    \* [Threads -> [SegHeads -> MapIds \cup {NoMap}]]: g_localRowidMaps
    nextMap       \* the next RowIdMap object `new` returns

mapVars == <<globalMaps, localMaps, nextMap>>
dirVars == <<segments, entries, nextBlock, exists, pc, rowOf, local, seg, tuple, ret, ops>>
vars == <<segments, entries, nextBlock, exists, pc, rowOf, local, seg, tuple, ret, ops,
          globalMaps, localMaps, nextMap>>

SegOf(r) == r \div SegLen
OffOf(r) == r % SegLen

Init ==
    /\ segments = [i \in SegIds |-> Null]
    /\ entries = [b \in Blocks |-> [o \in Offs |-> [valid |-> FALSE, addr |-> NoRow]]]
    /\ nextBlock = 1
    /\ exists = {}
    /\ pc = [t \in Threads |-> "idle"]
    /\ rowOf = [t \in Threads |-> NoRow]
    /\ local = [t \in Threads |-> Null]
    /\ seg = [t \in Threads |-> Null]
    /\ tuple = [t \in Threads |-> NoRow]
    /\ ret = [t \in Threads |-> NoEntry]
    /\ ops = 0
    /\ globalMaps = [h \in SegHeads |-> NoMap]
    /\ localMaps = [t \in Threads |-> [h \in SegHeads |-> NoMap]]
    /\ nextMap = 1

\* GetEntry(rowId, isRead) is called for some row
Call(t) ==
    /\ pc[t] = "idle" /\ ops < MaxOps
    /\ \E r \in Rows : rowOf' = [rowOf EXCEPT ![t] = r]
    /\ pc' = [pc EXCEPT ![t] = "seg"]
    /\ ret' = [ret EXCEPT ![t] = NoEntry]
    /\ ops' = ops + 1
    /\ UNCHANGED <<mapVars, tuple, segments, entries, nextBlock, exists, local, seg>>

\* GetSegment: the unlocked test of m_segments[segId]; a null slot makes
\* the thread allocate and zero a block of its own
ReadSegment(t) ==
    /\ pc[t] = "seg"
    /\ LET p == segments[SegOf(rowOf[t])] IN
       IF p # Null
       THEN /\ seg' = [seg EXCEPT ![t] = p]
            /\ pc' = [pc EXCEPT ![t] = "entry"]
            /\ UNCHANGED <<local, nextBlock>>
       ELSE /\ nextBlock <= MaxBlocks
            /\ local' = [local EXCEPT ![t] = nextBlock]
            /\ nextBlock' = nextBlock + 1
            /\ pc' = [pc EXCEPT ![t] = "install"]
            /\ UNCHANGED seg
    /\ UNCHANGED <<mapVars, tuple, segments, entries, exists, rowOf, ret, ops>>

\* the first null slot at or after i (GetSegment's loop), if any
FreeFrom(i) == {j \in SegIds : j >= i /\ segments[j] = Null}

\* mutant: the block is stored at segId without testing the slot again
InstallOverwrite(t) ==
    /\ pc[t] = "install"
    /\ LET i == SegOf(rowOf[t]) IN
       /\ segments' = [segments EXCEPT ![i] = local[t]]
       /\ seg' = [seg EXCEPT ![t] = local[t]]
    /\ pc' = [pc EXCEPT ![t] = "entry"]
    /\ UNCHANGED <<mapVars, tuple, entries, nextBlock, exists, rowOf, local, ret, ops>>

\* mutant: GetSegment returns the block it installed, wherever it went
InstallReturnsOwn(t) ==
    /\ pc[t] = "install"
    /\ LET i == SegOf(rowOf[t]) IN
       IF FreeFrom(i) = {}
       THEN /\ seg' = [seg EXCEPT ![t] = segments[i]]
            /\ UNCHANGED segments
       ELSE LET j == CHOOSE x \in FreeFrom(i) : \A y \in FreeFrom(i) : x <= y IN
            /\ segments' = [segments EXCEPT ![j] = local[t]]
            /\ seg' = [seg EXCEPT ![t] = local[t]]
    /\ pc' = [pc EXCEPT ![t] = "entry"]
    /\ UNCHANGED <<mapVars, tuple, entries, nextBlock, exists, rowOf, local, ret, ops>>

\* GetSegment, under m_segmentsMutex: the block goes to the first null slot
\* from segId on (another thread may have filled segId meanwhile), or is
\* dropped; the thread then returns whatever block m_segments[segId] holds
InstallSegment(t) ==
    /\ pc[t] = "install"
    /\ LET i == SegOf(rowOf[t])
           after == IF FreeFrom(i) = {} THEN segments
                    ELSE [segments EXCEPT ![CHOOSE x \in FreeFrom(i) :
                                             \A y \in FreeFrom(i) : x <= y] = local[t]]
       IN /\ segments' = after
          /\ seg' = [seg EXCEPT ![t] = after[i]]
    /\ pc' = [pc EXCEPT ![t] = "entry"]
    /\ UNCHANGED <<mapVars, tuple, entries, nextBlock, exists, rowOf, local, ret, ops>>

\* getNVMTupleByRowId(rowId, false): the row's tuple, or nullptr
NVMTuple(r) == IF r \in exists THEN r ELSE NoRow

\* mutant: the nullptr test is dropped and the entry initialised anyway
CheckEntryNoNullCheck(t) ==
    /\ pc[t] = "entry"
    /\ LET e == [blk |-> seg[t], off |-> OffOf(rowOf[t])] IN
       IF entries[e.blk][e.off].valid
       THEN ret' = [ret EXCEPT ![t] = e] /\ pc' = [pc EXCEPT ![t] = "idle"] /\ UNCHANGED tuple
       ELSE /\ tuple' = [tuple EXCEPT ![t] = NVMTuple(rowOf[t])]
            /\ pc' = [pc EXCEPT ![t] = "init"] /\ UNCHANGED ret
    /\ UNCHANGED <<mapVars, segments, entries, nextBlock, exists, rowOf, local, seg, ops>>

\* GetEntry: a valid entry is returned at once; an invalid one is resolved
\* through getNVMTupleByRowId(rowId, false), and a row with no PM tuple
\* yields nullptr
CheckEntry(t) ==
    /\ pc[t] = "entry"
    /\ LET e == [blk |-> seg[t], off |-> OffOf(rowOf[t])] IN
       IF entries[e.blk][e.off].valid
       THEN ret' = [ret EXCEPT ![t] = e] /\ pc' = [pc EXCEPT ![t] = "idle"] /\ UNCHANGED tuple
       ELSE /\ tuple' = [tuple EXCEPT ![t] = NVMTuple(rowOf[t])]
            /\ IF NVMTuple(rowOf[t]) = NoRow
               THEN ret' = [ret EXCEPT ![t] = NoEntry] /\ pc' = [pc EXCEPT ![t] = "idle"]
               ELSE pc' = [pc EXCEPT ![t] = "init"] /\ UNCHANGED ret
    /\ UNCHANGED <<mapVars, segments, entries, nextBlock, exists, rowOf, local, seg, ops>>

\* GetEntry, under the entry's spinlock: Init(nvmTuple) unless another
\* thread initialised the entry first
InitEntry(t) ==
    /\ pc[t] = "init"
    /\ LET e == [blk |-> seg[t], off |-> OffOf(rowOf[t])] IN
       /\ entries' = IF entries[e.blk][e.off].valid THEN entries
                     ELSE [entries EXCEPT ![e.blk][e.off] = [valid |-> TRUE, addr |-> tuple[t]]]
       /\ ret' = [ret EXCEPT ![t] = e]
    /\ pc' = [pc EXCEPT ![t] = "idle"]
    /\ UNCHANGED <<mapVars, tuple, segments, nextBlock, exists, rowOf, local, seg, ops>>

\* an insert elsewhere materialises the row's leaf extent on PM
Materialise ==
    /\ \E r \in Rows \ exists : exists' = exists \cup {r}
    /\ UNCHANGED <<mapVars, tuple, segments, entries, nextBlock, pc, rowOf, local, seg, ret, ops>>

\* GetRowIdMap(segHead, rowLen) on a miss in g_localRowidMaps (a hit
\* returns the cached map and changes nothing): under g_grimMtx, the map in
\* g_globalRowidMaps, created there first when the table has none, is
\* copied into the thread's cache
GetRowIdMap(t, h) ==
    /\ localMaps[t][h] = NoMap
    /\ \/ /\ globalMaps[h] # NoMap
          /\ UNCHANGED <<globalMaps, nextMap>>
       \/ /\ globalMaps[h] = NoMap /\ nextMap <= MaxMaps
          /\ globalMaps' = [globalMaps EXCEPT ![h] = nextMap]
          /\ nextMap' = nextMap + 1
    /\ localMaps' = [localMaps EXCEPT ![t][h] = globalMaps'[h]]
    /\ UNCHANGED dirVars

\* DestroyLocalRowIdMapCache at thread exit (InitLocalRowIdMapCache at the
\* start of the next thread clears the same thread_local map)
DestroyLocalRowIdMapCache(t) ==
    /\ \E h \in SegHeads : localMaps[t][h] # NoMap
    /\ localMaps' = [localMaps EXCEPT ![t] = [h \in SegHeads |-> NoMap]]
    /\ UNCHANGED <<globalMaps, nextMap>>
    /\ UNCHANGED dirVars

\* the calls of the run are done
Quiescent ==
    /\ ops = MaxOps /\ \A t \in Threads : pc[t] = "idle"
    /\ UNCHANGED vars

Next ==
    \/ \E t \in Threads :
          \/ Call(t) \/ ReadSegment(t) \/ InstallSegment(t)
          \/ CheckEntry(t) \/ InitEntry(t)
          \/ \E h \in SegHeads : GetRowIdMap(t, h)
          \/ DestroyLocalRowIdMapCache(t)
    \/ Materialise \/ Quiescent

Spec == Init /\ [][Next]_vars

-----------------------------------------------------------------------------

Entry == [blk : Blocks \cup {Null}, off : Offs]

TypeOK ==
    /\ segments \in [SegIds -> Blocks \cup {Null}]
    /\ entries \in [Blocks -> [Offs -> {[valid |-> FALSE, addr |-> NoRow]}
                                         \cup [valid : {TRUE}, addr : Rows]]]
    /\ nextBlock \in 1..MaxBlocks+1 /\ exists \subseteq Rows
    /\ pc \in [Threads -> {"idle", "seg", "install", "entry", "init"}]
    /\ rowOf \in [Threads -> Rows \cup {NoRow}]
    /\ local \in [Threads -> Blocks \cup {Null}] /\ seg \in [Threads -> Blocks \cup {Null}]
    /\ tuple \in [Threads -> Rows \cup {NoRow}]
    /\ ret \in [Threads -> Entry]
    /\ globalMaps \in [SegHeads -> MapIds \cup {NoMap}]
    /\ localMaps \in [Threads -> [SegHeads -> MapIds \cup {NoMap}]]
    /\ nextMap \in 1..MaxMaps+1

\* The entry GetEntry returns is the row's entry for good: it is valid,
\* records the row's tuple, and lies in the block m_segments holds for the
\* row's segment, so every later GetEntry of the row reaches the same entry
\* and its lock, although a thread that lost the race in GetSegment parked
\* its own block in a later slot.
ReturnedEntryLive ==
    \A t \in Threads :
        ret[t] # NoEntry =>
            /\ ret[t] = [blk |-> segments[SegOf(rowOf[t])], off |-> OffOf(rowOf[t])]
            /\ entries[ret[t].blk][ret[t].off] = [valid |-> TRUE, addr |-> rowOf[t]]

\* Every valid entry of every installed block records the tuple of the row
\* its position stands for, including blocks parked ahead of their segment.
EntriesMatchRows ==
    \A i \in SegIds, o \in Offs :
        segments[i] # Null /\ entries[segments[i]][o].valid =>
            entries[segments[i]][o].addr = i * SegLen + o
====
