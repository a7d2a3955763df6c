---------------------------- MODULE MCCaddySync ----------------------------
(* Small instances of CaddySync for TLC: the faults a run admits. *)
EXTENDS CaddySync, TLC

CaddyStopping == {"caddy"}
AllFaults     == FaultKinds
Symmetry      == Permutations(Requests)
=============================================================================
