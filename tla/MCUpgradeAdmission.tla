------------------------ MODULE MCUpgradeAdmission ------------------------
(* Instances of UpgradeAdmission for TLC. *)
EXTENDS UpgradeAdmission, TLC

Symmetry == Permutations(Task) \cup Permutations(Operation)
===========================================================================
