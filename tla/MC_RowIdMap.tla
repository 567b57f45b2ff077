----------------------------- MODULE MC_RowIdMap -----------------------------
(* Model-checking instance of RowIdMap: three threads.                     *)
EXTENDS RowIdMap, TLC

CONSTANTS t1, t2, t3, h1

MCThreads == {t1, t2, t3}
MCSymmetry == Permutations(MCThreads)
====
