----------------------------- MODULE MC_RowAlloc -----------------------------
(* Model-checking instance of RowAlloc: two inserting threads.             *)
EXTENDS RowAlloc, TLC

CONSTANTS t1, t2

MCThreads == {t1, t2}
MCSymmetry == Permutations(MCThreads)
====
