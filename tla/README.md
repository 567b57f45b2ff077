# TLA+ models of the ReviveDB storage engine

This directory holds TLA+ models of the persistent-memory (PM) row store in
`src/`, the TLC configurations that check them, and `PROJECT.json`. That file
lists the components, the runs, the mutants, the source lines each definition
models, the findings and the hazards.

## 1. The system

ReviveDB keeps every row of a table in PM as a fixed-width tuple. The tuple
header holds four fields:

- `m_txInfo`: a CSN (commit sequence number, most significant bit 1) or a TSP
  (TxSlot pointer: a segment and a slot);
- `m_prev`: the undo record holding the previous version;
- `m_isUsed` and `m_isDeleted`.

Concurrency control is MVCC. These are the parts and how they interact (C-numbers as in spec.md):

| Part | Source | State | Operations |
|------|--------|-------|------------|
| Heap access (C9) | `src/src/nvm_access.cpp` | tuple headers and payloads | HeapInsert, HeapRead, HeapUpdate, HeapUpdate2, HeapDelete |
| Version chain (C9) | `src/src/heap/nvm_tuple.cpp`, `src/include/heap/nvm_tuple.h` | RAMTuple copy of a version | FetchPreVersion, InitHead, Serialize, FlushCache |
| Transaction (C9) | not under `src/` (spec 4.6) | snapshot, TxSlot, write set, global CSN | Begin, Commit (take CSN, write it back into each header, mark the slot COMMITTED), Abort (undo newest first, mark ROLL_BACKED), VersionIsVisible, SatisfiedUpdate |
| Undo segment (C8) | `src/src/undo/nvm_undo_segment.cpp` | per-segment TxSlot ring, undo records, header (nextFreeSlot, nextRecycleSlot, minSlotId, recoveryStart/End, minSnapshot) | allocate slot, append undo, recycleTxSlot, recycleUndoPages; attach, detach and switch a thread's segment |
| Reclaimer (C10) | same file, `UndoRecycle` | global minimum snapshot | recycle full, unused segments when the minimum changes |
| Recovery (C11) | same file, `UndoSegmentMount`, `UndoBGRecovery` | recovery range per segment, recovered CSN | getMaxCSNForRollback, setRecoveredCSN, backgroundRecovery |
| RowIdMap (C7) | `src/include/heap/nvm_rowid_map.h`, `src/src/heap/nvm_rowid_map.cpp` | lazily allocated DRAM entries (lock, cached PM address) | GetSegment, GetEntry, GetRowIdMap, getNextEmptyRow |
| RowIDMgr, VecStore (C6) | `src/include/heap/nvm_rowid_mgr.h`, `src/src/heap/nvm_vecstore.cpp` | extent map, max page id, per-thread row ranges | getNVMTupleByRowId, tryAllocNewPage, tryNextRowid, tryNextSegment |
| LogicFile (C4) | `src/include/table_space/nvm_logic_file.h`, `src/src/table_space/nvm_logic_file.cpp` | mapped segment files | extend, punch (rename past the end), mount |
| PM copy primitives (C2, C4) | `nvm_logic_file.h` (`flush`, `WriteToNVM`, `seekAndWrite`), `src/src/common/nvm_cfg.cpp` (`memcpy_no_flush_nt`) | cache lines holding unflushed bytes | cached, non-temporal and flushed copies of an undo record |

The parts interact as follows:

- A worker thread owns an undo segment.
- Its first write in a transaction takes a TxSlot.
- Each write appends an undo record with the old image. It then installs the new version under the row's entry lock, with `txInfo = TSP` and `prev` pointing to that undo record.
- A reader copies the tuple under the same lock. It then walks `prev` until `VersionIsVisible` accepts a version.
- Commit takes `globalCSN + 1` and writes it back into each header of the write set. Only after that does it mark the slot COMMITTED.
- After a crash:
  - the mount computes a recovery range and a recovered CSN for each segment;
  - a background thread then rolls back the IN_PROGRESS slots of each range;
  - workers may already be running while it does.

### What is hard

- **Interleaving of commits with readers and writers.** Between taking a CSN and marking the slot, some headers carry the CSN and some the TSP. Two commits can finish in the order opposite to their CSNs.
- **Crash and restart.** The following must be reconstructed from the last two TxSlots of each segment:
  - which transactions were in flight;
  - the CSN counter.
- **Recovery concurrent with new work.** Segments are handed back to workers before the recovery thread has walked them.
- **The reclaimer.** It must never reuse an undo record a reader may still fetch. It must not starve a thread that waits for a non-full segment.
- **Resource bounds.** These include the TxSlot ring, the undo ring, segment files renamed by punch, and the segment address table.

### What makes each part correct

- **Reads:**
  - never return a version of a transaction that has no CSN within the reader's snapshot (`ReadCommittedOnly`);
  - outside a commit's write-back, return the newest version committed within the snapshot, or the reader's own write (`SnapshotRead`);
  - return the newest version within the snapshot, the same one on every read. The code does not do this during a commit's write-back, and the spec leaves the commit point open; see the hazards in section 4.
- **Writes:**
  - two transactions that both commit a write of the same row do not overlap (`FirstUpdaterWins`);
  - PM always holds the last committed version of every row (`CommittedDurable` for the logical versions; `CommittedImageDurable` for the cache lines);
- **Recovery:**
  - rolls back every transaction cut off by the crash (`RecoveryComplete`);
  - touches nothing else (`RecoveryLeavesLiveSlots`);
  - restarts the CSN counter above every committed CSN (`CSNAboveDurable`).
- **Undo record writes:** the only line that may still hold unflushed bytes is the one the next append starts in (`UnflushedOnlyAtOffset`).
- **Reclaimer and segment pool:**
  - never frees an undo record reachable from a live snapshot;
  - never zeroes the TxSlot of a running transaction (`LiveSlotIntact`);
  - a thread waiting for a segment eventually gets one.

## 2. Modules

### MVCCHeap.tla: heap access, transactions and restart recovery

**Constants:**
- `Threads` (one undo segment each), `Rows`, `RangeOf` (each thread's exclusive insert range);
- `MaxSlots` (TxSlots per segment), `MaxUndo` (undo records per slot), `MaxCrashes`, `MIN_TX_CSN`.

**Variables:**
- On PM:
  - `tuple`: the header and an abstract payload of each row;
  - `txSlots`: the TxSlots of each segment, with their undo records;
  - `segHdr`: recoveryStart, recoveryEnd and minSnapshot.
- In DRAM: `up`, `globalCSN`, `tx` (the transaction context of each thread), `cursor` (the row-range cursor) `pending` (the segments the recovery thread still has to walk) and `bg` (the recovery thread's loop: the segment it is in, the slot index `i`, and whether slot `i` has been rolled back but not yet marked).
- History variables, never read by an action: `hist` (the committed writes of each row), `epoch` and `crashes`.

**Data abstraction.** A payload is the pair (thread, slot) of the transaction that wrote it. "No version" and "deleted" are pairs of the same shape. A header's `txInfo` is a record tagged `csn`, `tsp` or `zero`.

**Actions and the code they model** (`PROJECT.json` "map" gives the line ranges):

- **HeapInsert** (`HeapInsert`):
  - PrepareUndo;
  - getNextEmptyRow takes the next unused row of the thread's range;
  - an insert undo record is appended;
  - InitHead with a TSP, then Serialize.
- **HeapRead** (`HeapRead`): reads change no state. What the call returns is `ReadResult(t, r)`, the version chain walk of lines 99-115. The properties check it in every state for every thread and row, which covers every read a thread could make.
- **HeapUpdate, HeapUpdate2, HeapDelete:**
  - PrepareUndo, then SatisfiedUpdate under the entry lock;
  - on INVISIBLE, BEING_MODIFIED or a visible delete, `WaitAbort`;
  - otherwise the old image is logged and the header is rewritten (`WriteVersion`).
  - In release builds an ABORTED result falls through like OK, as the code does once the DCHECK is compiled out.
  - HeapUpdate2 differs from HeapUpdate only in which columns it copies, which the data abstraction does not distinguish.
- **Commit** has three actions:
  - `CommitBegin` takes the CSN;
  - `CommitWriteBack` runs once per write-set row;
  - `CommitFinish` writes the csn and the COMMITTED status.
  - A transaction that never wrote commits in one step (`CommitReadOnly`).
- **Abort** also has three actions:
  - `AbortBegin`;
  - `AbortStep` applies one undo record, newest first;
  - `AbortFinish` marks the slot ROLL_BACKED.
- **Crash** loses DRAM and keeps PM.
- **Restart** is `UndoSegmentMount`:
  - `getMaxCSNForRollback` of every segment sets the recovery range and yields the largest committed CSN of the last two slots;
  - `setRecoveredCSN` gets the maximum of these and `MIN_TX_CSN`, because the watermark bump is commented out;
  - every segment is handed back to the workers.
- **backgroundRecovery** is four actions, one per PM store of its loop, so that workers and a second crash fall between them:
  - `RecoverSegment(s)` picks a segment still to be walked and starts at its recoveryStart. The code walks the segments in index order; the model takes them in any order, because which segment a thread got is arbitrary;
  - `RecoverSlot` tests slot `i`: an IN_PROGRESS slot is rolled back (its undo applied newest first, `NeedsRollBack`), any other slot is skipped;
  - `RecoverMark` writes ROLL_BACKED into the slot just rolled back;
  - `RecoverSegmentEnd` clears recoveryStart once `i` passes recoveryEnd.

**Granularity:**
- HeapRead and the write operations are atomic because they run under the row's entry lock. Their undo append happens in the same critical section.
- HeapInsert takes no lock. It is atomic because the row range is exclusive to the thread.
- Commit and Abort are split into one step per PM store so that readers, writers and crashes fall between them.

**Modelled from spec.md** (code not under `src/`): Begin, Commit, Abort, VersionIsVisible, SatisfiedUpdate, PrepareUndo, allocateTxSlot, appendUndoRecord and UndoRecordRollBack. These are marked `spec_modelled` in the map.

**MC_MVCCHeap.tla** instantiates the module with:
- threads `t1`, `t2` and rows `r1`, `r2` as model values;
- the range of `t1` is `<<r1>>` and the range of `t2` is `<<r2>>`, so each thread inserts its own row and updates or deletes both rows.

### UndoSegmentPool.tla: segment attach, the TxSlot ring and the reclaimer

This module models `nvm_undo_segment.cpp` lines 87-175 and 274-338.

**State.** Each segment has:
- `slots[s]`: its array of `UNDO_TX_SLOTS` TxSlots. The code indexes the array by slot id modulo its size;
- `nrs[s]`: `m_nextRecycleSlot` modulo the array size;
- `used[s]`: `m_nextFreeSlot - m_nextRecycleSlot`. The code uses absolute slot ids only modulo `UNDO_TX_SLOTS` and in differences, so these lose nothing it reads;
- `minSnapshot[s]`: the header field;
- `allocated[s]`: `g_undoSegmentAllocated`.

The attach protocol has the owner of `g_undoSegmentLock`, `clock_sweep % NSeg` and `g_counter % DirCount`. Each thread has:
- `pc`;
- its segment index (`t_undo_segment`);
- its NUMA node;
- the snapshot of its transaction;
- whether that transaction owns a TxSlot.

The reclaimer has:
- its loop index `rpc` and `previousCSN`;
- `rstep`, the step of `recycleTxSlot` it is at;
- the locals `begin_slot % UNDO_TX_SLOTS` (`rbegin`) and `next_slot - begin_slot` (`rk`) of that call.

`m_minSlotId` is left out: only readers of undo records and isFull's second clause read it. The ghost `committed` records the (segment, CSN) of every commit.

**Actions.**
- `LockUndoSegment` (lines 276-290): takes the lock and, on the first attach, picks the NUMA node.
- `SweepStep` (292-311): one turn of the clock sweep.
- `PrepareUndo`: SwitchUndoSegmentIfFull (330-338) followed by allocateTxSlot.
- `Begin`, `Commit`, `Abort`: the transaction.
- `ThreadRestart`: a thread exits (DestroyLocalUndoSegment) and a new one starts.
- `RecyclerTick` (151-158): computes the minimum snapshot and starts a pass only if it changed.
- `RecyclerVisit` (159-173, 88-112): one segment of the pass.
  - It skips a segment that is not full, or is in use or uninitialised.
  - Otherwise it runs recycleTxSlot up to the fence: the walk over recyclable slots, and the `minSnapshot` save.
- `RecyclerZero` (114-125): the `memset_s` of the recycled slots. It wraps at the end of the array.
- `RecyclerPublish` (127): the store of `m_nextRecycleSlot`, after which the pass moves on.
- The order of these two steps is the constant `RecycleSteps`, so a swapped order is a change of one definition.

These are modelled from the spec because the code is not under `src/`:
- isFull (first clause only: the undo-offset clause needs the record area);
- isTxSlotRecyclable;
- the global minimum snapshot;
- allocateTxSlot;
- Begin, Commit and Abort.

**MC_UndoSegmentPool.tla** gives the threads as model values and a symmetry set for the safety run.

### LogicFile.tla: segment files, their mappings, punch and mount

This module models `nvm_logic_file.h`/`.cpp` (the constructor, extend, punch, mount, mMapFile and reMMapFile) and `recycleUndoPages` (`nvm_undo_segment.cpp` 57-82), for one undo segment across crashes.

**State.**
- `fileObj`: the directory, mapping a file id to a physical object (an inode).
- `addr`: `m_segmentAddr`, a function on `0..size-1`.
- `data`: the content of each object, which is the id of the logical segment last written into it.
- The undo header fields: `head` (the segment of `m_recycledBegin`), plus the record ring's `rec`, `cur` and `written`.

A rename moves a directory entry. A mapping keeps its object even when another file is renamed over its name, as mmap does.

**Actions.**
- `AppendRecord`: seekAndWrite (extend, then write).
- `ReadSegment`: seekAndRead's lazy extend.
- `RecycleUndoPages`: the range computation of lines 58-79, then punch as the recursive `PunchFrom` over `ReMMap`.
- `Crash`: drops every mapping.
- `Restart`: the constructor and `mount`, which stops at the first missing file.

`AdvanceSegment` and the ring order of records come from spec 4.5, because the record area is not under `src/`. Records wrap modulo the ring, past the header segment 0.

`RunSpec` has no crash. `Spec` adds Crash and Restart.

### RowAlloc.tla: row allocation for inserts, across a crash

This module models how HeapInsert reserves and fills a row of one table.

**State, on PM:**
- `used`: each tuple header's `isUsed`.
- `valid`: which leaf extent slots hold a page.
- `maxPage`: the segment head's `maxPageId`.
- `undo`: the insert undo records of running transactions.

**State, in DRAM (a crash loses it):**
- `taken`: each directory's GlobalBitMap.
- `range`: each thread's range.
- `insertInit`: `m_isInsertInit`.
- `dir`: the NUMA group id.

**Actions, in the order of the code's steps:**
- `Begin`, then `TryNextRowid`. This is tryNextRowid, and tryNextSegment when the range is spent.
- `GetTuple`. This is getNVMTupleByRowId: UpdateMaxPageId when the extent is missing.
- `TryAllocNewPage`. This is the optimistic check, then installing the page at the first free slot of the directory stride.
- `CheckRow`. This is getNextEmptyRow's `isUsed` test, which abandons the range before the thread's first insert.
- `PrepareInsertUndo`, then `WriteTuple`. In HeapInsert the undo is logged first, then `isUsed` is written.
- `CommitInsert` or `AbortInsert`.

`CrashRestart` drops DRAM and binds threads to directories again. Binding can fail, and then a thread uses directory 0. UndoSegmentMount starts the recovery thread and returns, so the pending insert undos become `recovering`. `RecoverInsert` rolls one back by clearing `isUsed`, at any point among the new inserts.

**Modelled from the spec:**
- SyncAcquire;
- the range;
- commit;
- the rollback of an insert.

The rowid cache is left out, because nothing says who fills it. `Quiescent` lets the finite workload stop.

### RowIdMap.tla: the DRAM row directory under concurrent first touch

This module models GetSegment and GetEntry (`nvm_rowid_map.cpp` 18-57), `RowIdMapEntry::Init`, and the per-table registry: GetRowIdMap and DestroyLocalRowIdMapCache (`nvm_rowid_map.cpp` 63-95).

**State:**
- `segments`: `m_segments`.
- `entries`: the valid flag and tuple address of each entry of each block.
- Per thread: the row, its own `nextSegment` (`local`), the block GetSegment returned (`seg`), the resolved `nvmTuple` (`tuple`) and what GetEntry returned (`ret`).
- `globalMaps` and `localMaps`: `g_globalRowidMaps` and each thread's `g_localRowidMaps`, from a table's segment head to a RowIdMap object drawn from a bounded supply (`nextMap`).

**Actions:**
- `ReadSegment`: the unlocked test, and the allocation of a zeroed block.
- `InstallSegment`: under the mutex, the block goes to the first null slot from `segId` on, and the thread then returns `m_segments[segId]`.
- `CheckEntry`: a valid entry is returned at once. Otherwise the address is resolved through `getNVMTupleByRowId(rowId, false)`, and nullptr makes the call return nullptr.
- `InitEntry`: under the spinlock, Init unless the entry became valid meanwhile.
- `Materialise`: an insert elsewhere creates the row's extent.
- `GetRowIdMap`: on a miss in the thread's cache, under `g_grimMtx`, the registry's map (created first when absent) is copied into the cache. A hit changes nothing.
- `DestroyLocalRowIdMapCache`: a thread exits and its cache is cleared.

Each locked section touches nothing else that is shared, so it is one step. The unlocked reads are pointer-sized loads, which the release/acquire fence pair orders. Besides, every heap operation takes the entry spinlock before `loadDRAMCache` reads `m_nvmAddr`, and `GetEntry` runs `Init` under the same lock, so the lock orders that read even without the fences.

### FlushCache.tla: the per-thread flush filter

`FlushCache::access` (`nvm_tuple.h` 95-137) is a pure algorithm on thread-local state, so one call is one step.

**State:**
- `slots`: GROUP groups of SET 64-bit words. A word is a record `[key, count]`: the row id in its low 50 bits (FMASK) and a hit counter from bit 50 up. The constructor zero-fills every word, which reads as key 0 with count 0.
- `counter`: the replacement cursor. There is one for the whole cache, not one per group.
- `hit`: the last answer.

**Operators and actions:**
- `GroupOf` is `((k / 100) % 1'000'000'007) & (GROUP - 1)`, with `%` standing in for the mask because GROUP is a power of two.
- `HitWays` is the masked comparison.
- `CountAfterHit` is the saturating increment.
- `Replace` is one round of the replacement loop: wrap the cursor, take the way if its count is 0, otherwise age it.
- `AccessResult` makes two rounds at most, as the code does.

FlushCache has no run of its own: PMPersistence instantiates it, and the pmpersist runs drive it through HeapUpdate2.

The hit-counter bound is 10000 in the code and `MaxCount` = 1 in the runs. Replacement only distinguishes 0 from "not 0", so one hit is enough to make a way survive a round of the replacement loop.

### PMPersistence.tla: what the heap write path leaves in PM

**State:**
- A tuple is two cache lines: the header (`m_txInfo`, `m_prev`, `isUsed`, `isDeleted`) and the body.
- Each line has the value loads see (`vol`) and the value PM holds (`dur`). A value is the id of the transaction that stored it, plus, for the header, the row state its flags encode.
- `cimage`: the last committed image of each tuple.
- `undo`: the tuples the active transaction has a flushed undo record for.
- `wset`: its write-set.
- `fcSlots`, `fcCounter`, `fcHit`: the thread's FlushCache, through `INSTANCE FlushCache`.

`loadDRAMCache` returns the PM address, and `flushToNVM` and `flushHeaderToNVM` have empty bodies (`nvm_rowid_map.h` 27-60). So each handler stores straight into the lines. The only flush on the path is `FlushCache::flush` in `copyUpdatedColumnsToNVM`.

**Actions:**
- `HeapInsert`, `HeapUpdate`, `HeapDelete`: log the undo, store the header and (not for delete) the body, with no flush. Insert joins the write-set only when `ForceWriteBackCSN` holds.
- `HeapUpdate2`: stores both lines and flushes the body only when `FlushCache::access(rowId)` misses.
- `Commit` (spec 4.6): rewrites and flushes the header line of each write-set tuple. What the transaction stored becomes the committed image.
- `Abort` and recovery (spec 4.6, 4.8): copy the undo images back and flush them.
- `WriteBackHead` and `WriteBackData`: the hardware writing a dirty line back at any time.
- `Crash`: keeps `dur`, rolls the active transaction back, and empties the thread's FlushCache.

There is one worker thread. FlushCache is thread_local, and interleavings of workers are MVCCHeap's subject. Commit, Abort and recovery are not under `src/` and follow the spec.

The body is one line, which assumes it does not share a line with the header. Rows of more than 40 bytes, as in the YCSB and TPC-C tables, satisfy this.

### PMWrite.tla: the undo record write path

Undo records are appended back to back at the current undo offset through `LogicFile::seekAndWrite`. The appender (`appendUndoRecord`, spec 4.5.2) is not under `src/`.

**State:**
- `vptr`: the undo offset.
- `nrec`: the number of records appended.
- `adjacent`: whether mmap placed the next segment's mapping right after this one.
- `dirty`: the <<record, line>> pairs whose bytes are only in the cache.

Cache state is tracked per 64-byte line. A `clflushopt` takes a line out of `dirty`. It reaches PM at the next `sfence`, and Commit fences, so fences are not tracked.

**Operators.** Each copy primitive is an operator on `dirty`:
- `Store`, `NTStore` and `ClflushOpt` are the three store kinds.
- `Flush` is `LogicFile::flush`.
- `WriteToNVM`: for n >= 64, block stores, then `sfence`, then a `clflushopt` of `d + 64 i` for each block, then a plain `memcpy` of the remainder. Below 64 bytes it is a `memcpy` and nothing else.
- `MemcpyNoFlushNT`: a byte loop below 32 bytes. Otherwise it does regular stores up to the next line boundary, non-temporal 64-byte blocks, and regular tail stores.
- `SeekAndWrite`: one `WriteToNVM` when the record fits in the segment or `adjacent` holds. Otherwise a `WriteToNVM` of the segment's remaining bytes and a `memcpy_no_flush_nt` of the rest.

**Action.** `Append` applies `SeekAndWrite` at `vptr` and advances it.

**Abstractions:**
- `NVM_PAGE_SIZE` is not defined in the repository, so records are taken to be shorter than a page. A crossing record's page `pageId + 1` is then the next segment's first page, the case the commented-out `CHECK` at line 154 states.
- Cache eviction is left out: it can only make more lines durable.

The straddling path and `seekAndWrite` have no caller under `src/`. The model is of the path spec 4.2 describes.

### Planned modules, most important first

1. **Undo record reads:** a multi-step HeapRead that fetches undo records after Unlock, composed with the reclaimer. It is to check that no undo record reachable from a live snapshot is punched.
2. **SnapshotStore:** an abstract key-value store with snapshot reads. MVCCHeap is to be shown to refine it (INSTANCE ... WITH a mapping from headers and undo chains to committed values), with the abstract specification checked as a PROPERTY.

## 3. Runs

| Run | Config | Expect | What it checks |
|-----|--------|--------|----------------|
| heap_safety | `MVCCHeap_safety.cfg` | pass | TypeOK, ReadCommittedOnly, SnapshotRead, FirstUpdaterWins, CommittedDurable under `WorkerSpec` (no crash) |
| recovery_slot0 | `MVCCHeap_recovery.cfg` | violation | RecoveryComplete |
| recovery_race | `MVCCHeap_recoveryrace.cfg` | violation | RecoveryLeavesLiveSlots |
| pool_safety | `UndoSegmentPool_safety.cfg` | pass | TypeOK, HistoryRetained, LiveSlotIntact |
| attach_starvation | `UndoSegmentPool_attach.cfg` | violation | AttachEventually under `FairSpec` |
| logicfile_safety | `LogicFile_safety.cfg` | pass | TypeOK, LiveDataIntact, NoPunchAbort, LiveSegmentsMapped under `RunSpec` |
| logicfile_crash | `LogicFile_crash.cfg` | violation | LiveDataIntact under `Spec` |
| rowalloc_safety | `RowAlloc_safety.cfg` | pass | TypeOK, ExclusiveRow, UpperBoundCovers, InsertTerminates |
| rowidmap_safety | `RowIdMap_safety.cfg` | pass | TypeOK, ReturnedEntryLive, EntriesMatchRows |
| pmpersist_update | `PMPersistence_serialize.cfg` | violation | CommittedImageDurable, HeapUpdate only |
| pmpersist_update2 | `PMPersistence_update2.cfg` | violation | CommittedImageDurable, HeapUpdate2 only, row ids 0 and 1 |
| pmwrite_append | `PMWrite_append.cfg` | violation | UnflushedOnlyAtOffset |

**heap_safety** runs 2 threads with 2 TxSlots each, 2 undo records per slot and 2 rows. This admits each of the following:
- two writers of one row;
- a transaction updating a row twice, so rollback order matters;
- a transaction writing both rows, so a reader can see a half-written-back commit;
- commits finishing in the order opposite to their CSNs;
- an insert aborted and its row left unused.

`ForceWriteBackCSN` is FALSE, as the YCSB and TPC-C drivers set it (`ycsb.h:217`, `tpcc_hash_index.cpp:985`), so an insert does not join the write-set and keeps its TSP header after commit. The recovery runs set it TRUE, its default. TLC explores about 1.87 million distinct states in about a minute. Besides the type invariant, it checks:
- `ReadCommittedOnly`: a read never returns a version whose writer has no CSN within the reader's snapshot.
- `SnapshotRead`: while no transaction is committing, a running transaction reads, for every row it has not written, the newest version committed within its snapshot. The walk stops at the first version it accepts, so a walk that ended early, or an undo chain that skipped a version, returns an older or a newer value.
- `FirstUpdaterWins`: two transactions that both commit a write of the same row do not overlap.
- `CommittedDurable`: PM holds, for every row, the last committed version.

**pool_safety** runs 2 threads and 2 segments on one directory, with CSNs up to 4. Each segment has an array of 2 TxSlots and is full at 2 slots. The array size may not be smaller than the threshold, and at equal size a recycled slot's offset is the next one allocated. `SLOT_OFFSET` is the code's 2. This admits each of the following:
- both threads competing for the lock;
- a thread switching away from a full segment while the other holds one;
- the reclaimer's pass overlapping a begin, a commit and a detach;
- rings mixing committed and rolled-back slots;
- a recycle that wraps around the array.

TLC explores about 671,000 distinct states in about 10 seconds. The properties it checks:
- `HistoryRetained`: no TxSlot committed after an active snapshot is recycled, although the reclaimer uses a minimum computed before its pass.
- `LiveSlotIntact`: the TxSlot of a running transaction stays IN_PROGRESS. The reclaimer zeroes slots by their offset. A thread can attach and allocate as soon as `m_nextRecycleSlot` is published, so this depends on the store order at lines 113-127.
- `TypeOK`: among its conjuncts, no ring grows past its threshold.

**logicfile_safety** runs a ring of four record segments (N = 5), a table of 2N-2 = 8 entries and no crash. TLC explores all 376 distinct states, which include:
- every wrap of the record offset;
- every choice of the segment the recycled records end in;
- the reuse of a punched file as a later segment.

Its properties:
- `LiveDataIntact`: every segment holding live records reaches them, through its mapping or its file.
- `LiveSegmentsMapped`: every segment holding live records is mapped in `m_segmentAddr`. So without a crash, another thread's seekAndRead of those records returns early from mMapFile, and it never resizes or stores into the vector that the owner's extend and the punch write without a lock. After a restart this no longer holds: mount stops at the first hole.
- `NoPunchAbort`: the table never overflows. This holds because `m_recycledBegin` only grows, and punching stops once it reaches the last ring segment. So at most N-2 segments are ever punched. With a table of 2N-3 entries, TLC finds the CHECK failing.

**rowalloc_safety** runs 2 threads, 2 directories of 2 extents of 2 rows (`TPE` is the RowIDMgr constructor's ExtentSize div (NVMTupleHeadSize + tupleLen), here 10 div 4), 4 inserts and 1 crash. This admits each of the following:
- both threads on one directory (a failed binding);
- a restart whose fresh ranges cover used rows and extents;
- abandoned ranges;
- the bitmap running out.

The run checks `FairSpec` without symmetry, because it checks a liveness property. TLC explores about 427,000 distinct states in under 30 seconds. The properties it checks:
- `ExclusiveRow`: no two inserts hold one row.
- `UpperBoundCovers`: every used row is below getUpperRowId and in a materialised extent.
- `InsertTerminates`: getNextEmptyRow's `while (true)` ends. A thread that starts looking for a row eventually holds a free row, reaches the exhausted bitmap, or loses the search to a crash. It holds because `m_range.next()` advances and `SyncAcquire` draws from a finite bitmap, even when a restart re-issues ranges over used rows.

**rowidmap_safety** runs 3 threads, 2 segments of 2 entries, and 3 calls, with a block for each call. This admits:
- two threads losing the race for segment 0, so one block is parked in slot 1 and a third thread's call on segment 1 uses it;
- rows whose extent appears between two calls.

The registry steps (GetRowIdMap, DestroyLocal) run too: with one table and room for two map objects, threads first touch the table in any order and drop and refill their caches. TLC explores about 3.1 million distinct states. The properties it checks:
- `ReturnedEntryLive`: a returned entry is valid, records its row, and lies in the block `m_segments` holds for its segment.
- `EntriesMatchRows`: every valid entry of an installed block records the row its position stands for.

**The violation runs:**
- **recovery_slot0:** one TxSlot per segment and one crash. A crash during the first transaction of a segment leaves slot 0 IN_PROGRESS forever.
- **recovery_race:** the same bounds. A crash before any work leaves every segment empty. After the restart a worker starts a transaction in slot 0, and the recovery thread rolls it back.
- **logicfile_crash:** N = 4 and one crash, in 11 states:
  1. segment 1 is punched, and its file is renamed to `undo.3`, which becomes the ring's segment 3;
  2. the process crashes;
  3. mount stops at the missing `undo.1`;
  4. a read maps segment 2;
  5. the next punch renames `undo.2` to index 3, over the live segment 3.
- **pmpersist_update:** in 4 states. A transaction updates row 1 with HeapUpdate and commits. PM holds the new header, which Commit flushed, over the old body.
- **pmpersist_update2:** row ids 0 and 1, HeapUpdate2 only, a one-word FlushCache, in 4 states. A fresh FlushCache holds zero-filled words, and a zero word reads as row id 0. So a transaction's HeapUpdate2 of row 0 hits, skips `FlushCache::flush`, and commits. PM holds the new header, which Commit flushed, over the old body.
- **pmwrite_append:** 128-byte segments, two of them; records of 24, 40 and 100 bytes; four appends. In 3 states, a 24-byte record and then a 40-byte one end at offset 64, and line 0 is never flushed. No later append starts in line 0, so nothing will flush it. With `RecLens = {100}`, a second 100-byte record starts at offset 100. Its block covers lines 1 and 2, but only line 1 is flushed.
- **attach_starvation:** one thread, two segments. The thread fills both segments with aborted transactions, and no commit moves the minimum snapshot. When it needs a segment again, it spins in InitLocalUndoSegment forever while the reclaimer skips every pass.

**Mutants.** Each property of each passing run has a mutant: a plausible bug in a definition the map names, under which TLC finds the property violated.

| Property | Definition | Mutated to |
|----------|------------|------------|
| TypeOK | `CanAppend` | off-by-one undo capacity |
| ReadCommittedOnly | `ReadChain` | accepts a version being modified |
| SnapshotRead | `ReadChain` | an INVISIBLE version ends the walk |
| FirstUpdaterWins | `Rejected` | conflicts only on invisible versions |
| CommittedDurable | `WriteVersion` | header not linked to its undo record |
| TypeOK (pool) | `PrepareUndo` | never switches a full segment |
| HistoryRetained | `RecyclerVisit` | recycles up to the global CSN instead of the pass's minimum |
| LiveSlotIntact | `RecycleSteps` | publishes `m_nextRecycleSlot` before zeroing the slots |
| TypeOK (logic file) | `RingNext` | the record offset wraps onto the header segment |
| LiveDataIntact | `PunchFrom` | punches the end segment too (`i <= endSegmentId`) |
| NoPunchAbort | `RecycleUndoPages` | does not advance `m_recycledBegin` |
| TypeOK (row alloc) | `TryNextRowid` | `next <= end`: hands out the end of the range |
| ExclusiveRow | `GlobalBit` | drops the directory stride (`dirSeq + localBit`) |
| UpperBoundCovers | `UpdateMaxPageId` | a plain store instead of the CAS loop |
| InsertTerminates | `TryNextRowid` | `m_range.next()` returns the same row without advancing |
| TypeOK (row directory) | `CheckEntry` | initialises the entry although `nvmTuple` is nullptr |
| ReturnedEntryLive | `InstallSegment` | stores the block at `segId` without testing the slot again |
| EntriesMatchRows | `InstallSegment` | returns the block it installed rather than `m_segments[segId]` |
| LiveSegmentsMapped | `MMapCreate` | the store into `m_segmentAddr` sits inside the resize branch |

## 4. Findings

These are also recorded in `PROJECT.json`, each with the run that shows it:

1. **Slot 0 is never recovered** (`nvm_undo_segment.cpp:51`). When a segment has allocated only slot 0, recoveryStart = 1 > recoveryEnd = 0.
2. **Recovery rolls back live work** (`nvm_undo_segment.cpp:138`, with line 218). Segments are handed to workers before backgroundRecovery walks them. For a segment empty at mount, the range [0, 0] covers the first slot a worker allocates after the restart.
3. **A thread can starve waiting for an undo segment** (`nvm_undo_segment.cpp:155`, with line 292).
   - UndoRecycle recycles only when the minimum snapshot has changed, and only segments not in use.
   - ROLL_BACKED slots are recyclable under any snapshot. But a node whose segments are all full of them stays full as long as no commit happens.
   - A thread that then switches segments spins holding `g_undoSegmentLock`. Every other thread that needs a segment blocks behind it.
   - Spec 4.7 step 4 has the reclaimer recycle segments *in use*, which the code skips.
4. **A punch after a restart can overwrite live undo records** (`nvm_logic_file.cpp:90`, with `nvm_logic_file.h:71-74`).
   - reMMapFile renames to index `size()`.
   - After a restart, `size()` counts only the segments below the first hole a punch left.
   - A live segment file above the hole that nobody has read yet is the rename target, and `std::rename` replaces it.
5. **HeapUpdate never flushes the body** (`nvm_access.cpp:162`, with `nvm_tuple.cpp:222` and `nvm_rowid_map.h:44-51`).
   - Serialize is a plain `memcpy_s`, and `flushToNVM` is empty.
   - Commit flushes only the header line, so a crash after Commit can leave the new CSN over the old body.
   - Spec 4.6 and the spec 6 invariant require the flush.
6. **WriteToNVM leaves lines unflushed** (`nvm_logic_file.h:131-138`).
   - Spec 4.1 says writeToNVM flushes the destination lines and fences, and that the data is durable when the function returns.
   - The code flushes nothing below 64 bytes.
   - For longer records it flushes only `d + 64 i`, so an unaligned block's second line stays cached.
   - The comment "no flush needed, a later append follows" does not hold: a later append flushes only the lines it starts a block in.
   - The one `sfence` precedes the flushes.
7. **Row 0 is never flushed by a fresh FlushCache** (`nvm_tuple.h:101`), shown by pmpersist_update2.
   - The constructor zero-fills every word, and a zero word is the encoding of row id 0 with count 0.
   - So `access(0)` hits on every new thread and after every restart, and HeapUpdate2 of row 0 skips the flush of the body.
   - Commit then flushes the new header over the old body.

**Defects recorded as hazards.** The models reach these too, but no run of their own checks them. `PROJECT.json` lists them as hazards, and each note says how the model reaches it:

- **The CSN goes backwards** (`nvm_undo_segment.cpp:250-252`). Without the watermark bump, the recovered CSN considers only the last two TxSlots of each segment. While MVCCHeap was being built, TLC reached this state: T1 commits with CSN 2, then two transactions of the same thread abort, and after the restart the counter is 1. `CSNAboveDurable` states the property.
- **Snapshot reads are not repeatable during a commit** (spec 4.6). The CSN is taken before the write-back, and the snapshot of a new transaction can equal it.
- **Recovery can erase a row inserted after the restart** (`nvm_undo_segment.cpp:255`, with `nvm_access.cpp:62-67`).
  - HeapInsert logs its insert undo before it sets `isUsed`. A crash between the two leaves a free row named by a pending undo.
  - Recovery runs in the background after mount. So a new insert can take and commit that row before the old insert is rolled back.
  - That rollback then clears `isUsed`, because spec 4.7 clears it without looking at the row's `txInfo`.
  - The rollback code is not in the repository, so this is recorded as a spec gap.
- **HeapUpdate2 skips the flush of rows FlushCache has seen** (`nvm_tuple.h:226`).
  - A hit means "this row id was flushed once", not "this line is clean".
  - The key is the row id alone, so one table's flush also suppresses another table's.
  - Spec 9 allows skipping only a line not written since its last flush.
- **Recovery can roll back over a committed write** (`nvm_undo_segment.cpp:139` and `:144`). `RecoveryRollsBackOwnRows` (MVCCHeap, in no run) says a recovery rollback never overwrites a version whose writer's slot is COMMITTED. With the slot-0 defect and the recovery race set aside by constraints in scratch configurations, TLC breaks it three ways:
  - a writer that crashes between CommitWriteBack and CommitFinish, after a second transaction with a snapshot equal to its CSN updated and committed the row (19 states);
  - an abort that restored a row another transaction then overwrote and committed, cut off before AbortFinish (19 states);
  - a crash between `RecoverSlot` and `RecoverMark`: the next mount keeps recoveryStart and rolls the slot back again over a commit made in between (23 states, two crashes).
  Spec lines 251 and 271 say a crash between the commit steps yields a consistent state. The two recovery runs stop at findings 1 and 2 first, and the run budget leaves no run for this property.
- **Lost update through HeapUpdate2** (`nvm_access.cpp:192`). A transaction whose snapshot equals the CSN of a committing writer reads the row as BEING_MODIFIED, then updates it after the header rewrite: SatisfiedUpdate accepts, because the snapshot is not older than the CSN. The TPC-C new-order path reads `d_next_o_id` and writes it plus one in this way. With a ghost record of what each transaction read, TLC reaches the overwrite in 8 states; `FirstUpdaterWins` holds, as it allows this case.

## 5. Fairness

The MVCCHeap, pool, logic-file, row-directory and persistence runs check safety only, so they assume no fairness. `FairSpec` of RowAlloc assumes weak fairness of each thread's `Worker` steps. Each worker is an OS thread, and inside getNextEmptyRow it is runnable and never blocks, so the scheduler eventually runs it. Begin is part of `Worker`, but `InsertTerminates` is about searches already started and does not rely on threads starting inserts. Crash and recovery steps carry no fairness. `FairSpec` of UndoSegmentPool assumes weak fairness of:
- `Reclaimer` (its tick, visit, zero and publish steps together): the reclaimer thread loops for as long as `g_doRecycle` is set, sleeping 1 ms per turn;
- each thread's `LockUndoSegment` and `SweepStep`: a thread inside InitLocalUndoSegment is runnable and spins.

It assumes no fairness of Begin, Commit or Abort: no thread is obliged to run transactions. Under this fairness, AttachEventually fails, as described in finding 3.

## 6. Not modelled

- **NUMA pinning and directory configuration:** configuration with no state that a property distinguishes.
- **PM copy primitives:** only `memcpy_no_flush_nt` (in PMWrite) is on a write path. `dram_to_nvm_memcpy` and the other helpers of `nvm_tuple.cpp` and `nvm_cfg.cpp` have no caller under `src/`. MVCCHeap treats a PM store as durable when issued; PMPersistence models what the heap path really flushes.
- **seekAndRead:** a read; it changes no state.
- **TableSpace:** not under `src/`.
- **The index, the serializer and the benchmarks:** clients of the heap. The model takes the index layer's guarantee that HeapUpdate and HeapDelete are called on used rows as a restriction of their inputs. HeapUpdate does not check `isUsed` itself.
  `DRAMIndexTuple::Encode` is a pure function, but the index is outside the spec's scope and its caller is not in the repository; its VARCHAR columns are written without a length, so composite keys with a VARCHAR before another column can collide (a hazard in `PROJECT.json`).
- **RAMTuple column bookkeeping:** a row's data is one value in every module. `UpdateCols`, `UpdateColInc`, `GetUpdatedCols` and `copyUpdatedColumnsToNVM` only decide which bytes of the row change, and a column dimension would multiply the MVCCHeap state space. This hides one hazard: HeapUpdate serializes the whole RAMTuple, but its undo covers only the recorded columns. A RAMTuple read as an older version (the BEING_MODIFIED case) reverts a committed writer's other columns, and the updater's abort does not restore them. HeapUpdate has no caller in the repository.
- **BestTupleLenCalculator** (`nvm_rowid_mgr.h:12-68`): a floating-point search for the tuple length with the fewest cache-block crossings. Its only caller is the YCSB driver.
- **The RowIdMap registry teardown:** InitGlobalRowIdMapCache and DestroyGlobalRowIdMapCache have no caller in the repository, so the order of the global and the thread-local teardown is unknown. DestroyGlobalRowIdMapCache deletes maps that other threads' caches still name; this is listed as a hazard.
- **HeapRead's version-chain walk as steps:** the walk runs after Unlock. `HistoryRetained` and `LiveDataIntact` show that the records of versions committed after the reader's snapshot survive it. One case is not covered. A ROLL_BACKED slot is recyclable under any snapshot, so a reader that copied a header naming an aborting transaction can walk into records the reclaimer punches once the abort finishes. No module has both the walk and the reclaimer.
