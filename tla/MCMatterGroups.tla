--------------------------- MODULE MCMatterGroups ---------------------------
(* MatterGroups with lamps and a switch, for TLC. *)
EXTENDS MatterGroups, TLC
CONSTANTS lamp, lamp2, switch, r1, r2
MCMembers == {<<lamp, 1>>, <<lamp, 2>>, <<lamp2, 1>>}
MCSources == {<<switch, 1>>}
l1 == <<lamp, 1>>
l2 == <<lamp, 2>>
m1 == <<lamp2, 1>>
MCEmpty == {{}}
MCStart == {{<<1, l1>>, <<1, l2>>, <<2, l1>>}, {<<1, l1>>, <<1, m1>>, <<2, l2>>}}
MCReqs == {r1, r2}
MCSymmetry == Permutations(MCReqs)
MCSourceInLamp == {<<lamp2, 2>>}
=============================================================================
