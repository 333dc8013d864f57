--------------------------- MODULE MCContextTable ---------------------------
(* Instances of ContextTable for TLC. *)
EXTENDS ContextTable, TLC

Symmetry == Permutations(Procs)
=============================================================================
