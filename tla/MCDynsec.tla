------------------------------ MODULE MCDynsec ------------------------------
(* Dynsec with two requests of one command and the probes of two connections, for TLC. *)
EXTENDS Dynsec

CONSTANTS r1, r2, p1, p2

MCCommandOf == [r \in Request \cup Probe |-> IF r \in Probe THEN "getDefaultACLAccess" ELSE "createClient"]
=============================================================================
