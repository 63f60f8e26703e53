--------------------------- MODULE MCStandbySync ---------------------------
(* Instances of StandbySync for TLC. *)
EXTENDS StandbySync, TLC

Symmetry == Permutations(Attempt) \cup Permutations(Pod \ {First})
=============================================================================
