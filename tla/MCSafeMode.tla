------------------------------ MODULE MCSafeMode ------------------------------
(* SafeMode with up to two instances, for TLC. *)
EXTENDS SafeMode, TLC
CONSTANTS i1, i2
MCOne == {i1}
MCTwo == {i1, i2}
MCSymmetry == Permutations(MCTwo)
=============================================================================
