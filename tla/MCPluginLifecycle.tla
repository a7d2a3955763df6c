--------------------------- MODULE MCPluginLifecycle ---------------------------
(* Small instances of PluginLifecycle for TLC. *)
EXTENDS PluginLifecycle

CONSTANTS p1, v1, v2, q1, q2, i1, i2

\* The states the properties are about: with one plugin nothing is said of it after a
\* stop that met a stop or a start, nor after a start that met an uninstall.
Followed == \A p \in Plugins : Undisturbed(p)
=============================================================================
