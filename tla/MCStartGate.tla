---------------------------- MODULE MCStartGate ----------------------------
(* StartGate with two retained topics, for TLC. *)
EXTENDS StartGate
CONSTANTS t1, t2
MCTopics == {t1, t2}
=============================================================================
