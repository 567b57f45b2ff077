----------------------------- MODULE MC_PMWrite -----------------------------
(* Model-checking instance of PMWrite; every constant is given in the      *)
(* configuration.                                                          *)
EXTENDS PMWrite
=============================================================================
