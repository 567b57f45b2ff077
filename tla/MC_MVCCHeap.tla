---------------------------- MODULE MC_MVCCHeap ----------------------------
(* Model-checking instance of MVCCHeap: two worker threads, each owning one *)
(* undo segment and a one-row range of a two-row table.                    *)
EXTENDS MVCCHeap

CONSTANTS t1, t2, r1, r2

MCThreads == {t1, t2}
MCRows    == {r1, r2}
MCRangeOf == [t \in MCThreads |-> IF t = t1 THEN <<r1>> ELSE <<r2>>]
=============================================================================
