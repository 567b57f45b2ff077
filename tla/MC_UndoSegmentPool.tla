------------------------- MODULE MC_UndoSegmentPool -------------------------
(* Model-checking instance of UndoSegmentPool: worker threads as model     *)
(* values.                                                                 *)
EXTENDS UndoSegmentPool, TLC

CONSTANTS t1, t2

MCThreads == {t1, t2}
MCThread1 == {t1}
MCSymmetry == Permutations(MCThreads)
=============================================================================
