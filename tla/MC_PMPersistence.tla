------------------------- MODULE MC_PMPersistence -------------------------
EXTENDS PMPersistence, TLC

CONSTANTS tA, tB

MCTables == {tA, tB}
\* Row 1 is loaded in both tables and row 2 is free in both; FlushCache sees
\* only the row id, so tA's row 1 and tB's row 1 share one key.
MCRows == {1, 2}
MCLoaded == {1}
\* Row id 0, the first row of a table, and row 1, both loaded.
MCRowsFrom0 == {0, 1}
MCLoadedFrom0 == {0, 1}
MCSymmetry == Permutations(MCTables)
=============================================================================
