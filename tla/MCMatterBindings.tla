-------------------------- MODULE MCMatterBindings --------------------------
(* MatterBindings with switches and a lamp, for TLC. *)
EXTENDS MatterBindings, TLC
CONSTANTS n1, n2, n3, lamp, onOff, level
MCSwitches == {<<n1, 1>>, <<n2, 1>>, <<n3, 1>>}
MCLamp == {<<lamp, 1>>}
MCClusters == {onOff, level}
MCSymmetry == Permutations({n1, n2, n3}) \cup Permutations(MCClusters)
=============================================================================
