---------------------------- MODULE MC_LogicFile ----------------------------
(* Model-checking instance of LogicFile; every constant is a number given  *)
(* in the configurations.                                                  *)
EXTENDS LogicFile
=============================================================================
