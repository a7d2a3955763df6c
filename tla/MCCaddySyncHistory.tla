------------------------- MODULE MCCaddySyncHistory -------------------------
(* A small instance of CaddySyncHistory for TLC: builds that throw. *)
EXTENDS CaddySyncHistory, TLC

Conflicts == {"conflict"}
Symmetry  == Permutations(Requests) \cup Permutations(Routes)
=============================================================================
