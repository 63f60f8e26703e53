------------------------- MODULE PodCommitLogFaults -------------------------
(***************************************************************************)
(* PodCommitLog over a store that loses what it was given.  The module     *)
(* documentation of pod_commit_log.py promises that a provider that alters *)
(* history "produces a loud failure, not silent corruption": here the      *)
(* store serves an older head again, or loses a record object.             *)
(*                                                                         *)
(* Record contents are sealed, so the store can lose a record but cannot   *)
(* make one up; head.json is plain JSON.                                   *)
(***************************************************************************)
EXTENDS PodCommitLog

\* Bound of the model: one fault in a behaviour.  A rollback leaves the
\* generation ahead of the log, a loss leaves a committed record missing.
Intact ==
  /\ gen = head.seq + (IF IsFenced(head) THEN 1 ELSE 0)
  /\ Committed \subseteq DOMAIN records

\* head.json is served again as it was n commits into the log, before the log
\* was fenced; the store gives the object a generation of its own.
Rollback ==
  \E n \in 0 .. head.seq :
    /\ Intact
    /\ n < head.seq \/ IsFenced(head)
    /\ head' = [seq |-> n, key |-> IF n = 0 THEN NoKey ELSE chain[n],
                sha |-> SubSeq(head.sha, 1, n), fence |-> NoAttempt]
    /\ gen' = gen + 1
    /\ late' = {}
    /\ chain' = SubSeq(chain, 1, n)
    /\ UNCHANGED <<records, local, results>>

\* A write that is past its checks and can still win: it was prepared from the
\* present head.
PastItsChecks ==
  \/ late # {}
  \/ \E p \in Proc : pc[p] \in {"put", "swap", "fence_swap"} /\ swap[p].expected = gen

\* The record the head names is gone.  (Behind a fence it is about to be deleted.)
LoseTail ==
  /\ Intact
  /\ ~IsFenced(head)
  /\ head.key \in DOMAIN records
  /\ ~PastItsChecks
  /\ records' = [k \in DOMAIN records \ {head.key} |-> records[k]]
  /\ UNCHANGED <<head, gen, late, local, chain, results>>

FaultsNext ==
  \/ Next
  \/ Rollback
  \/ LoseTail

FaultsSpec == Init /\ [][FaultsNext]_vars

-----------------------------------------------------------------------------
(* Correctness *)

IsPrefixOf(s, t) == Len(s) <= Len(t) /\ SubSeq(t, 1, Len(s)) = s

\* A reader never silently changes its mind about the past: whatever head the
\* store serves, the history a live cursor stands for is only ever extended.
\* replay_since refuses a rolled-back or divergent head.  (A cursor dies with
\* its process; a replay from scratch starts another one.)
CursorsOnlyAdvance ==
  [][\A p \in Proc :
       view'[p] # Origin => IsPrefixOf(view[p].sha, view'[p].sha)]_vars

\* A loss is not built over: append refuses a head whose record is missing, so
\* a committed record that is missing stays the newest one, in full sight of
\* the next append, replay or fence, however many callers go on.
LossIsNotBuiltOver ==
  \A i \in DOMAIN chain : chain[i] \notin DOMAIN records => i = Len(chain)

\* A loss is not closed over: fence_for_erasure replays the history first, so
\* a fence always has every record behind it.
LossIsNotFenced == IsFenced(head) => ChainVerifies(head, Origin)
=============================================================================
