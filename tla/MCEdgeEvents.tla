------------------------------ MODULE MCEdgeEvents ------------------------------
(* Small instances of EdgeEvents for TLC. *)
EXTENDS EdgeEvents
=============================================================================
