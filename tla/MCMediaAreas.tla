----------------------------- MODULE MCMediaAreas -----------------------------
(* Instances of MediaAreas for TLC. *)
EXTENDS MediaAreas

CONSTANTS f1, f2, p1, p2, t1

=============================================================================
