------------------------ MODULE MCServiceCredentials ------------------------
(* ServiceCredentials with instances of the same name on two hosts, for TLC. *)
EXTENDS ServiceCredentials

CONSTANTS u1, u2, q1, q2, svc

MCUnits == {u1, u2}
MCIdentOf == [u \in Unit |-> svc]
=============================================================================
