------------------------ MODULE MCPodCommitLogCalls ------------------------
(***************************************************************************)
(* PodCommitLog under the fairness of its scheduler, for TLC: a log long    *)
(* enough for an append to lose every try that it has while the other       *)
(* caller commits, fences and leaves late writes behind.                    *)
(***************************************************************************)
EXTENDS PodCommitLog

CONSTANT Readers  \* bound of the model: the callers that replay

ASSUME ReadersAssumption == Readers \subseteq Proc

Replays(p) == p \in Readers /\ BeginReplay(p)

CallsNext ==
  \/ LateSwap
  \/ \E p \in Proc :
       \/ BeginAppend(p) \/ BeginFence(p) \/ BeginInventory(p) \/ Replays(p)
       \/ Step(p) \/ Unanswered(p) \/ Crash(p)

CallsSpec == Init /\ [][CallsNext]_vars /\ Fairness

\* What is kept of earlier calls only is left out: no guard reads it, and of what
\* is left only these variables change it, so that what can follow is the same.
WithoutHistory == <<store, pc, call, swap, tries, view>>
=============================================================================
