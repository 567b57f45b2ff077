------------------------------ MODULE PMWrite ------------------------------
(***************************************************************************)
(* The write path of the undo record area: records appended back to back   *)
(* through LogicFile::seekAndWrite, which stores them with WriteToNVM and, *)
(* for the part of a record that crosses into a segment mapped elsewhere,  *)
(* with memcpy_no_flush_nt.                                                *)
(*                                                                         *)
(*   LogicFile::flush, WriteToNVM, seekAndWrite                            *)
(*                              src/include/table_space/nvm_logic_file.h   *)
(*   memcpy_no_flush_nt         src/src/common/nvm_cfg.cpp                 *)
(*                                                                         *)
(* The appender (appendUndoRecord) is not under src/; it is modelled from  *)
(* spec.md section 4.5: each record is written at the current undo offset, *)
(* which then advances by the record's length.                             *)
(*                                                                         *)
(* PM is tracked per 64-byte line and per record: a record's bytes in a    *)
(* line are dirty after a cached store, until a clflushopt of the line.    *)
(* A flushed line reaches PM at the next sfence, and Commit fences, so the *)
(* fences themselves are not tracked.  A non-temporal store writes a full  *)
(* line past the cache.  The byte, 8-, 16-, 32- and 64-byte regular stores *)
(* of the copies are all cached stores and differ only in width.  Segment  *)
(* mappings are page aligned, so a line never spans two segments, and a   *)
(* virtual offset names the same line whether or not the next segment is  *)
(* mapped adjacently.                                                      *)
(* Records are shorter than a page, so page pageId + 1 of a crossing       *)
(* record is the first page of the next segment.  Cache eviction is left   *)
(* out: it can only make more lines durable than the code guarantees.      *)
(***************************************************************************)
EXTENDS Integers, FiniteSets

CONSTANTS
    SegSize,      \* m_segmentSize in bytes (a multiple of the line size)
    NSegs,        \* record segments the appends may fill
    RecLens,      \* lengths of the undo records appended
    MaxRecs       \* bound on the records appended

ASSUME SegSize \in Nat /\ SegSize % 64 = 0 /\ SegSize > 0
ASSUME NSegs \in Nat \ {0} /\ RecLens \subseteq 1..SegSize /\ MaxRecs \in Nat

LINE == 64

VARIABLES
    vptr,         \* the current undo offset: where the next record goes
    nrec,         \* records appended so far; record i is the i-th
    dirty,        \* <<record, line>>: the record's bytes in the line are cached only
    adjacent      \* the mapping of segment i + 1 follows that of segment i

vars == <<vptr, nrec, dirty, adjacent>>

\* The lines holding bytes [a, b).
Lines(a, b) == IF a >= b THEN {} ELSE (a \div LINE)..((b - 1) \div LINE)

MinOf(a, b) == IF a < b THEN a ELSE b

-----------------------------------------------------------------------------
(* The dirty <<record, line>> pairs as the primitives change them         *)

\* Regular (cached) stores of record r's bytes [a, b).
Store(c, r, a, b) == c \cup {<<r, l>> : l \in Lines(a, b)}

\* Non-temporal stores of the full lines of [a, b): they bypass the cache.
NTStore(c, a, b) == {e \in c : e[2] \notin Lines(a, b)}

\* _mm_clflushopt of each line in ls.
ClflushOpt(c, ls) == {e \in c : e[2] \notin ls}

\* LogicFile::flush(src, n): clflushopt of src, src + 64, ... below src + n.
Flush(c, a, n) == ClflushOpt(c, {(a + i) \div LINE : i \in {j \in 0..n-1 : j % LINE = 0}})

\* WriteToNVM(d, s, n): for n >= 64, 64-byte stores of the blocks, sfence,
\* clflushopt of d + 64 i for every block, then a memcpy of the remainder
\* ("no flush needed, a later append follows"); below 64 bytes a memcpy.
WriteToNVM(c, r, d, n) ==
    IF n >= 64
    THEN LET b == n \div 64 IN
         Store(Flush(Store(c, r, d, d + 64 * b), d, 64 * b),
               r, d + 64 * b, d + n)
    ELSE Store(c, r, d, d + n)

\* memcpy_no_flush_nt(d, s, n): below 32 bytes a byte loop; otherwise
\* regular stores up to the next 64-byte boundary of d, non-temporal
\* stores of the 64-byte blocks, regular 32/16/8/4/1-byte stores of the
\* rest.  No line is flushed.
MemcpyNoFlushNT(c, r, d, n) ==
    IF n < 32 THEN Store(c, r, d, d + n)
    ELSE LET p == IF d % LINE # 0 THEN MinOf(LINE - (d % LINE), n) ELSE 0
             k == IF p + LINE <= n THEN (n - p) \div LINE ELSE 0
         IN Store(NTStore(Store(c, r, d, d + p), d + p, d + p + LINE * k),
                  r, d + p + LINE * k, d + n)

\* seekAndWrite(vptr, src, len): within the segment, or when the next
\* segment's mapping follows this one, one WriteToNVM; otherwise WriteToNVM
\* of the segmentSpaceRemain bytes and memcpy_no_flush_nt of the rest into
\* page pageId + 1.
SeekAndWrite(c, r, v, len) ==
    LET remain == SegSize - (v % SegSize) IN
    IF remain >= len \/ adjacent
    THEN WriteToNVM(c, r, v, len)
    ELSE MemcpyNoFlushNT(WriteToNVM(c, r, v, remain), r, v + remain, len - remain)

-----------------------------------------------------------------------------
\* A fresh record area: the offset at the start of a segment, nothing
\* cached; the segments are mapped adjacently or not, as mmap places them.
Init ==
    /\ vptr = 0 /\ nrec = 0
    /\ dirty = {}
    /\ adjacent \in BOOLEAN

\* appendUndoRecord: seekAndWrite of a record at the current undo offset,
\* which then advances past it.
Append(len) ==
    /\ nrec < MaxRecs
    /\ vptr + len <= NSegs * SegSize
    /\ dirty' = SeekAndWrite(dirty, nrec + 1, vptr, len)
    /\ vptr' = vptr + len
    /\ nrec' = nrec + 1
    /\ UNCHANGED adjacent

Next == \E len \in RecLens : Append(len)

Spec == Init /\ [][Next]_vars

-----------------------------------------------------------------------------
TypeOK ==
    /\ vptr \in 0..NSegs * SegSize /\ nrec \in 0..MaxRecs
    /\ dirty \subseteq (1..MaxRecs) \X Lines(0, NSegs * SegSize)
    /\ adjacent \in BOOLEAN

\* The design WriteToNVM's comment states: the remainder of a record needs
\* no flush because a later append follows, and a later WriteToNVM flushes
\* the line it starts in first.  So every record byte still cached lies in
\* the line the next append starts in: no line is left behind unflushed.
UnflushedOnlyAtOffset ==
    \A e \in dirty : e[2] = vptr \div LINE
====
