--------------------------- MODULE MCPodCommitLog ---------------------------
(***************************************************************************)
(* PodCommitLog on small sets for TLC.  Callers, payloads, tokens and      *)
(* erasure attempts are interchangeable.                                   *)
(***************************************************************************)
EXTENDS PodCommitLog, TLC

Symmetry == Permutations(Proc) \cup Permutations(Token)
              \cup Permutations(Attempt) \cup Permutations(Payload)
=============================================================================
