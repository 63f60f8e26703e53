------------------------- MODULE MCLocalObjectStore -------------------------
(* LocalObjectStore on small sets for TLC. *)
EXTENDS LocalObjectStore, TLC

Symmetry == Permutations(Proc) \cup Permutations(Data)
=============================================================================
