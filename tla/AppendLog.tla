------------------------------ MODULE AppendLog ------------------------------
(***************************************************************************)
(* What a pod's commit log promises to its callers, with no storage in     *)
(* sight: a sequence of payloads that only ever grows at its end, one      *)
(* commit at a time, until one erasure attempt closes it.  Closing is      *)
(* final, admits one attempt, and loses nothing that was committed.        *)
(*                                                                         *)
(* PodCommitLog implements this specification.                             *)
(***************************************************************************)
EXTENDS Sequences

CONSTANTS
  Payload,    \* what a record can carry
  Attempt,    \* identifiers of erasure attempts
  NoAttempt   \* the log is open

VARIABLES
  log,        \* the committed payloads, oldest first
  closedBy    \* the attempt that closed the log, or NoAttempt

Init ==
  /\ log = << >>
  /\ closedBy = NoAttempt

Commit(payload) ==
  /\ closedBy = NoAttempt
  /\ log' = Append(log, payload)
  /\ UNCHANGED closedBy

Close(attempt) ==
  /\ closedBy = NoAttempt
  /\ closedBy' = attempt
  /\ UNCHANGED log

Next ==
  \/ \E payload \in Payload : Commit(payload)
  \/ \E attempt \in Attempt : Close(attempt)

Spec == Init /\ [][Next]_<<log, closedBy>>
==============================================================================
