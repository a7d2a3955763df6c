--------------------------- MODULE MCWireGuardPeers ---------------------------
(* Small instances of WireGuardPeers for TLC. *)
EXTENDS WireGuardPeers, TLC

Either   == BOOLEAN
Symmetry == Permutations(Requests) \cup Permutations(Cycles)
=============================================================================
