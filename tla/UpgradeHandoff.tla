--------------------------- MODULE UpgradeHandoff ---------------------------
(***************************************************************************)
(* The hub's side of an update without replacement evidence: what           *)
(* services/pod_upgrade_handoff.py and the upgrade of                       *)
(* services/user_gcp_backend.py ask of the pod of UpgradeAdmission.         *)
(*                                                                         *)
(* An attempt prepares the pod, polls its status until it shows an idle     *)
(* receipt, holds the pod while it decides on a replacement, and releases   *)
(* it.  A request that is given up goes on in the pod if it has arrived     *)
(* there, and may arrive later if it has not.  A retry of the sweep uses    *)
(* the same operation, for which the owner's approval was given.  The       *)
(* submission of a replacement is left out: an attempt that submits stays   *)
(* in "held", and the new incarnation is another pod.                       *)
(***************************************************************************)
EXTENDS UpgradeAdmission

CONSTANTS
  Approved,    \* the operation of the approval
  Delayed,     \* the requests that may arrive after they were given up
  MaxAttempts  \* bound of the model: attempts of the sweep

ASSUME ApprovedAssumption == Approved \in Operation
ASSUME DelayedAssumption == Delayed \subseteq {"prepare", "status", "release"}
ASSUME AttemptsAssumption == MaxAttempts \in Nat

VARIABLES
  phase,    \* where the attempt stands
  handler,  \* the task of the pod that serves its request, or Free
  stray,    \* kinds of requests that were given up before they arrived
  attempts  \* attempts that were started

hubVars == <<phase, handler, stray, attempts>>

allVars == <<vars, hubVars>>

Requests == {"prepare", "status", "release", "undo"}
Phase == {"rest", "held"} \cup Requests

\* What the pod is asked; an attempt that failed is undone by a release.
Asks(p) == IF p = "undo" THEN "release" ELSE p

\* A failed attempt to prepare or to release is followed by one more release,
\* whose failure is logged and nothing else.
AfterFailure == IF phase = "undo" THEN "rest" ELSE "undo"

InitHub ==
  /\ Init
  /\ phase = "rest" /\ handler = Free /\ stray = {} /\ attempts = 0

-----------------------------------------------------------------------------
(* The hub *)

Start ==
  /\ phase = "rest" /\ attempts < MaxAttempts
  /\ phase' = "prepare"
  /\ attempts' = attempts + 1
  /\ UNCHANGED <<vars, handler, stray>>

\* Nothing was submitted, or the replacement did not boot.
Leaves ==
  /\ phase = "held" /\ phase' = "release"
  /\ UNCHANGED <<vars, handler, stray, attempts>>

\* The request is not answered in time, or the answer is lost.
GiveUp ==
  /\ phase \in Requests
  /\ phase' = AfterFailure
  /\ handler' = Free
  /\ stray' = IF handler = Free THEN stray \cup ({Asks(phase)} \cap Delayed) ELSE stray
  /\ UNCHANGED <<vars, attempts>>

-----------------------------------------------------------------------------
(* The pod *)

Request(t, do) == BeginCall(t, do, IF do = "status" THEN NoOperation ELSE Approved, 0)

Arrive(t) ==
  /\ phase \in Requests /\ handler = Free
  /\ Request(t, Asks(phase))
  /\ handler' = t
  /\ UNCHANGED <<phase, stray, attempts>>

ArriveLate(t) ==
  /\ \E do \in stray : Request(t, do) /\ stray' = stray \ {do}
  /\ UNCHANGED <<phase, handler, attempts>>

\* Mutation: the receipt is not asked for.
ShowsNoWork == state.operation = Approved /\ state.active = 0

\* The status shows the hub an idle receipt of its operation.
ShowsIdle ==
  state.operation = Approved /\ state.active = 0 /\ state.receipt # 0

\* A release that was done before is answered as it was then.
Repeats(t) == Release(t) /\ Repeated(call[t])

\* Mutation: an answer that is not 200 counts as one.
AnswerUnchecked(t) ==
  CASE phase = "prepare" -> "status"
    [] phase = "status" -> IF ShowsIdle THEN "held" ELSE "status"
    [] OTHER -> "rest"

\* What the hub makes of the answer of the step that ended its request
Answer(t) ==
  CASE phase = "prepare" /\ (Finish(t) \/ AppendIdle(t)) -> "status"
    [] phase = "status" /\ Status(t) -> IF ShowsIdle THEN "held" ELSE "status"
    [] phase \in {"release", "undo"} /\ (AppendRelease(t) \/ Repeats(t)) -> "rest"
    [] OTHER -> AfterFailure

Answered(t) == handler = t /\ pc'[t] = "none"

Serve(t) ==
  /\ Step(t)
  /\ phase' = IF Answered(t) THEN Answer(t) ELSE phase
  /\ handler' = IF Answered(t) THEN Free ELSE handler
  /\ UNCHANGED <<stray, attempts>>

\* Turns and the log go on; a pod that dies breaks the request that it serves.
Turns == (\E t \in Task : Begin(t) \/ EndTurn(t)) /\ UNCHANGED hubVars

Others == (LateCommit \/ OtherAppend) /\ UNCHANGED hubVars

PodRestart ==
  /\ Restart
  /\ phase' = IF handler = Free THEN phase ELSE AfterFailure
  /\ handler' = Free
  /\ UNCHANGED <<stray, attempts>>

NextHub ==
  \/ Start \/ Leaves \/ GiveUp
  \/ \E t \in Task : Arrive(t) \/ ArriveLate(t) \/ Serve(t)
  \/ Turns \/ Others \/ PodRestart

SpecHub == InitHub /\ [][NextHub]_allVars

-----------------------------------------------------------------------------
(* Properties *)

TypeOKHub ==
  /\ TypeOK
  /\ phase \in Phase
  /\ handler \in Task \cup {Free}
  /\ stray \subseteq Delayed
  /\ attempts \in 0 .. MaxAttempts

\* While the hub holds the pod for a replacement the log ends its lifecycle with
\* an idle marker of the approved operation and no turn holds a permit, whatever
\* became of the process that gave the receipt.
HeldIsIdle ==
  phase = "held" =>
    /\ WorkingTasks = {}
    /\ \E i \in Positions :
         /\ IsLast(i, Positions)
         /\ log[i].kind = "idle" /\ log[i].operation = Approved

\* When the release of a hold is answered, the log ends its lifecycle with a
\* release: the pod accepts work, and so does every process that follows it.
AnsweredReleaseIsDurable ==
  [][phase = "release" /\ phase' = "rest" =>
       \E i \in Releases' : IsLast(i, Positions)']_allVars

=============================================================================
