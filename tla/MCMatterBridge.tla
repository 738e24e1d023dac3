--------------------------- MODULE MCMatterBridge ---------------------------
(* Two nodes with the same label, a template with the device name and one with the node id. *)
EXTENDS MatterBridge

CONSTANTS n1, n2

MCNode == {n1, n2}
MCNamedBy == [t \in {"t1", "t2"} |-> IF t = "t1" THEN "device" ELSE "nodeId"]
=============================================================================
