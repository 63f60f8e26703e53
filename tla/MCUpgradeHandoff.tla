------------------------- MODULE MCUpgradeHandoff -------------------------
(* Instances of UpgradeHandoff for TLC. *)
EXTENDS UpgradeHandoff, TLC

Symmetry == Permutations(Task)
===========================================================================
