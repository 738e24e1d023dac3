------------------------------ MODULE MCVarSync ------------------------------
(* VarSync with two values, for TLC. *)
EXTENDS VarSync
CONSTANTS a, b
MCVals == {a, b}
=============================================================================
