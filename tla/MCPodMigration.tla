--------------------------- MODULE MCPodMigration ---------------------------
(* PodMigration on small sets for TLC. *)
EXTENDS PodMigration, TLC

Symmetry == Permutations(Job) \cup Permutations(Host \ {First})
=============================================================================
