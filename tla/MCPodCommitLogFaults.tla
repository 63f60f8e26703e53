------------------------ MODULE MCPodCommitLogFaults ------------------------
(* PodCommitLogFaults on small sets for TLC. *)
EXTENDS PodCommitLogFaults, TLC

Symmetry == Permutations(Proc) \cup Permutations(Token) \cup Permutations(Payload)

\* What calls returned is recorded for PodCommitLog's own properties; no action
\* reads it, nor does a property of the runs that use this view.
WithoutResults == <<store, local, chain>>
=============================================================================
