---------------------------- MODULE RuntimeWriter ----------------------------
(***************************************************************************)
(* The writer leases of hushh_mcp/services/pod_runtime_writer.py.  Several *)
(* runtimes (one process each, with an epoch of its own) share the sealed  *)
(* log of one owner.  A lease is a record of that log; whoever appends,    *)
(* renews or takes over a lease first brings its projection of the log up  *)
(* to date and then appends against exactly the position it has seen.      *)
(*                                                                         *)
(* The log is taken at the level of AppendLog, which PodCommitLog          *)
(* implements: an append against a position commits there or conflicts.    *)
(* Its answer may be lost, and then it may still commit later.             *)
(*                                                                         *)
(* Clocks: a reading is any number.  The only relation that is used is     *)
(* that a clock does not step back between the check of a lease and the    *)
(* claim that follows it in the same turn of the event loop.               *)
(***************************************************************************)
EXTENDS Integers, Sequences, FiniteSets

CONSTANTS
  Runtime,         \* runtimes
  Nobody,          \* no runtime
  Operation,       \* ids of approved operations
  NoOperation,
  Handoff,         \* those that a runtime may be asked to hand over for
  OperationOf,     \* the operation that each runtime was deployed for
  Lease,           \* LEASE_MS
  Time,            \* clock readings
  MaxRetries,      \* the log's _max_retries
  ConfirmsInTime,  \* no lease is found expired while its claimer confirms it
  MaxTurns,        \* bound of the model: turns that hold a writer at once
  MaxLate,         \* bound of the model: writes that may yet be applied
  MaxLen           \* bound of the model: the length of the log

ASSUME NobodyAssumption == Nobody \notin Runtime
ASSUME OperationAssumption ==
  NoOperation \notin Operation /\ Handoff \subseteq Operation /\ OperationOf \in [Runtime -> Operation]
ASSUME TimeAssumption == Time \subseteq Nat /\ 0 \in Time /\ Lease \in Nat
ASSUME RetriesAssumption == MaxRetries \in Nat \ {0}
ASSUME BoundsAssumption == MaxTurns \in Nat /\ MaxLate \in Nat /\ MaxLen \in Nat
ASSUME ConfirmsInTime \in BOOLEAN

VARIABLES
  log,        \* the records of the log
  projected,  \* what a replay projects after each of them
  late,       \* appends whose caller has no answer and that may yet commit
  lost,       \* the runtime knows that it lost the writer's role
  turns,      \* turns in progress that hold the writer (active)
  pc,         \* where each runtime's lock holder stands
  call,       \* the call that holds it
  write,      \* the append that it sends
  tries       \* rounds of the append loop that are used up

shared == <<log, projected, late>>
known == <<lost, turns>>
vars == <<shared, known, pc, call, write, tries>>

-----------------------------------------------------------------------------
(* Records, and what a replay makes of them *)

Control == {"fence", "idle", "release"}

Record == [kind : {"lease", "data"} \cup Control, by : Runtime,
           operation : Operation \cup {NoOperation}, issued : Time, generation : Nat]

NoLease == [kind |-> "lease", by |-> Nobody, operation |-> NoOperation,
            issued |-> 0, generation |-> 0]

\* The lease in force, and the handoff that its holder was asked for
Projection == [lease : Record \cup {NoLease}, phase : {"none", "draining", "idle"},
               operation : Operation \cup {NoOperation}]

Fresh == [lease |-> NoLease, phase |-> "none", operation |-> NoOperation]

ExpiresAt(lease) == lease.issued + Lease

\* RuntimeWriter.project does not raise PodLogTampered.
Accepts(s, record) ==
  \/ record.kind = "data"
  \/ /\ record.kind = "lease"
     /\ record.generation = s.lease.generation + 1
     /\ s.lease.by = record.by => s.phase # "idle"
     /\ s.lease.by \notin {Nobody, record.by} =>
          \/ s.phase = "idle" /\ s.operation = record.operation
          \/ s.phase = "none" /\ record.issued >= ExpiresAt(s.lease)
  \/ /\ record.kind \in Control
     /\ s.lease.by = record.by
     /\ record.kind # "fence" => s.phase # "none" /\ s.operation = record.operation

Project(s, record) ==
  CASE record.kind = "data" -> s
    [] record.kind = "lease" /\ s.lease.by = record.by -> [s EXCEPT !.lease = record]
    [] record.kind = "lease" /\ s.lease.by # record.by -> [Fresh EXCEPT !.lease = record]
    [] record.kind = "fence" -> [s EXCEPT !.phase = "draining", !.operation = record.operation]
    [] record.kind = "idle" -> [s EXCEPT !.phase = "idle"]
    [] record.kind = "release" -> [s EXCEPT !.phase = "none", !.operation = NoOperation]

At(n) == IF n = 0 THEN Fresh ELSE projected[n]

\* What refresh brings a runtime to, from wherever its cursor was
Now == At(Len(log))

-----------------------------------------------------------------------------
(* Calls *)

NoSnapshot == -1

AppendCall == [op : {"append"}, kind : {"data"} \cup Control,
               operation : Operation \cup {NoOperation}, snapshot : Nat \cup {NoSnapshot}]

\* A turn that takes hold of the writer, the heartbeat that renews its lease, a
\* drain that is about to declare the runtime idle, and one of these, or an
\* append, that its caller has given up
EnsureCall == [op : {"hold", "renew", "prepare", "cancelled"}]

NoCall == [op |-> "none"]

Write == [expected : Nat, record : Record]

NoWrite == [expected |-> 0, record |-> NoLease]

Pc == {"idle", "read", "ensure", "claim", "unanswered", "confirm", "submit", "settle", "dead"}

Goto(r, label) == pc' = [pc EXCEPT ![r] = label]

Snapshot(r) == IF call[r].op = "append" THEN call[r].snapshot ELSE NoSnapshot

RecordOf(r) ==
  [kind |-> call[r].kind, by |-> r, operation |-> call[r].operation,
   issued |-> 0, generation |-> 0]

HeldOnce(r) == \E i \in 1 .. Len(log) : log[i].kind = "lease" /\ log[i].by = r

\* What refresh finds: another runtime holds the lease that this one held.
LosesAt(r) == lost[r] \/ (HeldOnce(r) /\ Now.lease.by # r)

Refresh(r) == lost' = [lost EXCEPT ![r] = LosesAt(r)]

\* A heartbeat that fails gives the writer up.
RefreshAndFail(r) ==
  lost' = [lost EXCEPT ![r] = LosesAt(r) \/ call[r].op = "renew"]

End(r) ==
  /\ Goto(r, "idle")
  /\ call' = [call EXCEPT ![r] = NoCall]
  /\ write' = [write EXCEPT ![r] = NoWrite]
  /\ tries' = [tries EXCEPT ![r] = 0]

Begin(r, label, arguments) ==
  /\ pc[r] = "idle"
  /\ Goto(r, label)
  /\ call' = [call EXCEPT ![r] = arguments]
  /\ UNCHANGED <<shared, known, write, tries>>

Send(r, label, record) ==
  /\ Goto(r, label)
  /\ write' = [write EXCEPT ![r] = [expected |-> Len(log), record |-> record]]
  /\ UNCHANGED <<call, tries>>

\* The append of the commit log: nothing else was committed since.
Commit(w) ==
  /\ Len(log) = w.expected
  /\ Len(log) < MaxLen
  /\ log' = Append(log, w.record)
  /\ projected' = Append(projected, Project(Now, w.record))
  /\ late' = {}

\* A write without an answer: it is lost, or may yet be applied.  (One whose
\* position has passed is refused, with nobody listening.)
Forget(w) ==
  \/ UNCHANGED late
  \/ /\ w.expected = Len(log)
     /\ Cardinality(late) < MaxLate
     /\ late' = late \cup {w}

-----------------------------------------------------------------------------
(* append *)

\* The callers append what they have to say at any position, or at the one they
\* have read.  PodUpgradeAdmission asks for its idle marker at the position it
\* vouches for, and for the other two at any.
BeginAppend(r) ==
  \/ \E snapshot \in {NoSnapshot, Len(log)} :
       Begin(r, "read", [op |-> "append", kind |-> "data", operation |-> NoOperation,
                         snapshot |-> snapshot])
  \/ \E kind \in Control, operation \in Handoff :
       Begin(r, "read", [op |-> "append", kind |-> kind, operation |-> operation,
                         snapshot |-> IF kind = "idle" THEN Len(log) ELSE NoSnapshot])

\* validate_control, then the append of the caller's record
Prepare(r) ==
  /\ Accepts(Now, RecordOf(r))
  /\ Send(r, "submit", RecordOf(r))

Malformed(r) ==
  /\ ~Accepts(Now, RecordOf(r))
  /\ End(r)

\* The old writer takes its own handoff back: no look at the lease.
Cancelling(r) ==
  /\ call[r].op = "append" /\ call[r].kind = "release"
  /\ Now.lease.by = r
  /\ Now.phase # "none"
  /\ Now.operation = call[r].operation

Read(r) ==
  /\ pc[r] = "read"
  /\ Refresh(r)
  /\ UNCHANGED <<shared, turns>>
  /\ \/ /\ ~Cancelling(r)
        /\ Goto(r, "ensure")
        /\ UNCHANGED <<call, write, tries>>
     \/ /\ Cancelling(r)
        /\ LosesAt(r) \/ Snapshot(r) \notin {NoSnapshot, Len(log)}
        /\ End(r)
     \/ /\ Cancelling(r)
        /\ ~LosesAt(r) /\ Snapshot(r) \in {NoSnapshot, Len(log)}
        /\ Prepare(r)

\* Mutation: the append does not name the position that was checked.
SubmittedAnywhere(r) ==
  /\ pc[r] = "submit"
  /\ Commit([write[r] EXCEPT !.expected = Len(log)])
  /\ Goto(r, "settle")
  /\ UNCHANGED <<known, call, write, tries>>

Submitted(r) ==
  /\ pc[r] = "submit"
  /\ Commit(write[r])
  /\ Goto(r, "settle")
  /\ UNCHANGED <<known, call, write, tries>>

\* PodLogConflict: the loop goes on, unless the caller's snapshot is over.
Conflicts(r) ==
  /\ pc[r] = "submit"
  /\ Len(log) # write[r].expected
  /\ IF Snapshot(r) = NoSnapshot /\ tries[r] + 1 < MaxRetries
       THEN /\ Goto(r, "read")
            /\ tries' = [tries EXCEPT ![r] = @ + 1]
            /\ write' = [write EXCEPT ![r] = NoWrite]
            /\ UNCHANGED call
       ELSE End(r)
  /\ UNCHANGED <<shared, known>>

SubmitUnanswered(r) ==
  /\ pc[r] = "submit"
  /\ Forget(write[r])
  /\ End(r)
  /\ UNCHANGED <<log, projected, known>>

Settle(r) ==
  /\ pc[r] = "settle"
  /\ Refresh(r)
  /\ End(r)
  /\ UNCHANGED <<shared, turns>>

-----------------------------------------------------------------------------
(* ensure, and the claim it may need *)

BeginHold(r) ==
  /\ turns[r] < MaxTurns
  /\ Begin(r, "ensure", [op |-> "hold"])

BeginRenew(r) ==
  /\ turns[r] > 0
  /\ Begin(r, "ensure", [op |-> "renew"])

BeginPrepare(r) ==
  /\ Handoff # {}
  /\ Begin(r, "ensure", [op |-> "prepare"])

Owns(r) == Now.lease.by = r

NeedsClaim(r, now) == ~Owns(r) \/ ExpiresAt(Now.lease) <= now + Lease \div 3

\* Mutation: an idle marker does not close the writer that wrote it.
OwnerIsNeverIdle(r) == FALSE

OwnerIsIdle(r) == Owns(r) /\ Now.phase = "idle"

\* Mutation: a lease that expires in a drain is free like any other.
RivalHoldsUntilExpiry(r, now) ==
  /\ Now.lease.by \notin {Nobody, r}
  /\ \/ Now.phase = "idle" /\ Now.operation # OperationOf[r]
     \/ Now.phase # "idle" /\ ExpiresAt(Now.lease) > now

RivalHolds(r, now) ==
  /\ Now.lease.by \notin {Nobody, r}
  /\ \/ Now.phase = "draining"
     \/ Now.phase = "idle" /\ Now.operation # OperationOf[r]
     \/ Now.phase = "none" /\ ExpiresAt(Now.lease) > now

\* Mutation: the lost flag is not looked at.
RefusesOnLease(r, now) ==
  \/ Snapshot(r) \notin {NoSnapshot, Len(log)}
  \/ OwnerIsIdle(r) \/ RivalHolds(r, now)
  \/ Now.lease = NoLease /\ Len(log) # 0
  \/ NeedsClaim(r, now) /\ Snapshot(r) # NoSnapshot

Refuses(r, now) ==
  \/ Snapshot(r) \notin {NoSnapshot, Len(log)}
  \/ LosesAt(r)
  \/ OwnerIsIdle(r) \/ RivalHolds(r, now)
  \/ Now.lease = NoLease /\ Len(log) # 0
  \/ NeedsClaim(r, now) /\ Snapshot(r) # NoSnapshot

\* The clocks and the store's answers are such that nobody finds a lease expired
\* whose claimer has yet to see it in the log.
Confirming(r) ==
  pc[r] \in {"claim", "unanswered", "confirm"} /\ write[r].record = Now.lease

InTime(r) == ConfirmsInTime => \A q \in Runtime \ {r} : ~Confirming(q)

\* What ensure was called for
Granted(r) ==
  \/ /\ call[r].op = "append"
     /\ Prepare(r) \/ Malformed(r)
     /\ UNCHANGED turns
  \/ /\ call[r].op = "hold"
     /\ turns' = [turns EXCEPT ![r] = @ + 1]
     /\ End(r)
  \/ /\ call[r].op \in {"renew", "prepare"}
     /\ End(r)
     /\ UNCHANGED turns

Ensure(r) ==
  \E now \in Time :
    /\ pc[r] = "ensure"
    /\ ~Refuses(r, now) /\ InTime(r)
    /\ ~NeedsClaim(r, now)
    /\ Refresh(r)
    /\ Granted(r)
    /\ UNCHANGED shared

EnsureRefused(r) ==
  \E now \in Time :
    /\ pc[r] = "ensure"
    /\ Refuses(r, now)
    /\ RefreshAndFail(r)
    /\ End(r)
    /\ UNCHANGED <<shared, turns>>

LeaseFor(r, issued) ==
  [kind |-> "lease", by |-> r, operation |-> OperationOf[r], issued |-> issued,
   generation |-> Now.lease.generation + 1]

\* The claim reads the clock again.
EnsureClaims(r) ==
  \E now, issued \in Time :
    /\ pc[r] = "ensure"
    /\ ~Refuses(r, now) /\ InTime(r)
    /\ NeedsClaim(r, now)
    /\ issued >= now
    /\ Refresh(r)
    /\ Send(r, "claim", LeaseFor(r, issued))
    /\ UNCHANGED <<shared, turns>>

Claimed(r) ==
  /\ pc[r] = "claim"
  /\ Commit(write[r])
  /\ Goto(r, IF call[r].op = "cancelled" THEN "unanswered" ELSE "confirm")
  /\ UNCHANGED <<known, call, write, tries>>

\* A conflict, or no answer: in both cases the claim looks at the log.
ClaimConflicts(r) ==
  /\ pc[r] = "claim"
  /\ Len(log) # write[r].expected
  /\ Goto(r, "unanswered")
  /\ UNCHANGED <<shared, known, call, write, tries>>

ClaimUnanswered(r) ==
  /\ pc[r] = "claim"
  /\ Forget(write[r])
  /\ Goto(r, "unanswered")
  /\ UNCHANGED <<log, projected, known, call, write, tries>>

\* The lease in the log is the one that was claimed after all.
ClaimReconciled(r) ==
  /\ pc[r] = "unanswered"
  /\ call[r].op # "cancelled"
  /\ Now.lease = write[r].record
  /\ Refresh(r)
  /\ Goto(r, "confirm")
  /\ UNCHANGED <<shared, turns, call, write, tries>>

ClaimFails(r) ==
  /\ pc[r] = "unanswered"
  /\ call[r].op = "cancelled" \/ Now.lease # write[r].record
  /\ RefreshAndFail(r)
  /\ End(r)
  /\ UNCHANGED <<shared, turns>>

\* The refresh after a claim: nothing is checked again.
Confirm(r) ==
  /\ pc[r] = "confirm"
  /\ Refresh(r)
  /\ Granted(r)
  /\ UNCHANGED shared

-----------------------------------------------------------------------------
(* The store, the callers and the process *)

\* A write is applied whose caller has no answer.
CommitLate ==
  \E w \in late :
    /\ Commit(w)
    /\ UNCHANGED <<known, pc, call, write, tries>>

\* The log cannot be read.
ReadFails(r) ==
  /\ pc[r] \in {"read", "ensure", "unanswered", "confirm", "settle"}
  /\ lost' = [lost EXCEPT ![r] = @ \/ call[r].op = "renew"]
  /\ End(r)
  /\ UNCHANGED <<shared, turns>>

\* A call is cancelled; a write that was sent is waited for.
Cancel(r) ==
  \/ /\ pc[r] \in {"read", "ensure", "unanswered", "confirm", "settle"}
     /\ End(r)
     /\ UNCHANGED shared
  \/ /\ pc[r] = "claim"
     /\ call' = [call EXCEPT ![r] = [op |-> "cancelled"]]
     /\ UNCHANGED <<shared, pc, write, tries>>

CancelCall(r) ==
  /\ call[r].op \in {"append", "hold", "prepare"}
  /\ Cancel(r)
  /\ UNCHANGED known

\* A turn ends; with the last one, the heartbeat is cancelled.
Release(r) ==
  /\ turns[r] > 0
  /\ turns' = [turns EXCEPT ![r] = @ - 1]
  /\ IF turns[r] = 1 /\ call[r].op = "renew"
       THEN Cancel(r)
       ELSE UNCHANGED <<shared, pc, call, write, tries>>
  /\ UNCHANGED lost

Crash(r) ==
  /\ pc[r] # "dead"
  /\ IF pc[r] \in {"claim", "submit"} THEN Forget(write[r]) ELSE UNCHANGED late
  /\ pc' = [pc EXCEPT ![r] = "dead"]
  /\ call' = [call EXCEPT ![r] = NoCall]
  /\ write' = [write EXCEPT ![r] = NoWrite]
  /\ tries' = [tries EXCEPT ![r] = 0]
  /\ turns' = [turns EXCEPT ![r] = 0]
  /\ lost' = [lost EXCEPT ![r] = FALSE]
  /\ UNCHANGED <<log, projected>>

-----------------------------------------------------------------------------
Init ==
  /\ log = <<>>
  /\ projected = <<>>
  /\ late = {}
  /\ lost = [r \in Runtime |-> FALSE]
  /\ turns = [r \in Runtime |-> 0]
  /\ pc = [r \in Runtime |-> "idle"]
  /\ call = [r \in Runtime |-> NoCall]
  /\ write = [r \in Runtime |-> NoWrite]
  /\ tries = [r \in Runtime |-> 0]

AppendStep(r) ==
  \/ BeginAppend(r) \/ Read(r) \/ Submitted(r) \/ Conflicts(r)
  \/ SubmitUnanswered(r) \/ Settle(r)

EnsureStep(r) ==
  \/ BeginHold(r) \/ BeginRenew(r) \/ BeginPrepare(r)
  \/ Ensure(r) \/ EnsureRefused(r) \/ EnsureClaims(r)
  \/ Claimed(r) \/ ClaimConflicts(r) \/ ClaimUnanswered(r)
  \/ ClaimReconciled(r) \/ ClaimFails(r) \/ Confirm(r)

Disturbance(r) == ReadFails(r) \/ CancelCall(r) \/ Release(r) \/ Crash(r)

Next ==
  \/ \E r \in Runtime : AppendStep(r) \/ EnsureStep(r) \/ Disturbance(r)
  \/ CommitLate

Spec == Init /\ [][Next]_vars

-----------------------------------------------------------------------------
(* Correctness *)

\* Every variable has its type.
TypeOK ==
  /\ log \in Seq(Record)
  /\ projected \in Seq(Projection)
  /\ Len(projected) = Len(log)
  /\ late \subseteq Write
  /\ lost \in [Runtime -> BOOLEAN]
  /\ turns \in [Runtime -> Nat]
  /\ pc \in [Runtime -> Pc]
  /\ call \in [Runtime -> AppendCall \cup EnsureCall \cup {NoCall}]
  /\ write \in [Runtime -> Write \cup {NoWrite}]
  /\ tries \in [Runtime -> 0 .. MaxRetries - 1]

\* No race of legal calls writes a log that its own replay takes for tampered
\* with, and that no runtime could ever read again: what is checked when a
\* record is prepared still holds where it is committed.
LogIsReplayable == \A i \in 1 .. Len(log) : Accepts(At(i - 1), log[i])

\* "Every append checks ownership": every record stands behind its own
\* writer's lease, or is a lease.
EveryAppendIsOwned ==
  \A i \in 1 .. Len(log) : log[i].kind # "lease" => At(i - 1).lease.by = log[i].by

\* What a runtime declared idle stays as it is: right behind its idle marker
\* comes the lease of the approved successor or a release, and nothing else.
IdleIsFinal ==
  \A i \in 1 .. Len(log) :
    At(i - 1).phase = "idle" =>
      \/ log[i].kind = "lease" /\ log[i].operation = At(i - 1).operation
      \/ log[i].kind = "release"

\* A runtime that knows that it lost the writer's role sends nothing more.
LostNeverWrites ==
  \A r \in Runtime : lost[r] => pc[r] \notin {"claim", "submit"}

-----------------------------------------------------------------------------
(* The inductive invariant *)

\* The appends that may yet commit
Pending == late \cup {write[r] : r \in {q \in Runtime : pc[q] \in {"claim", "submit"}}}

\* What was checked of an append holds at the position that it names.
Sound(w) ==
  /\ w.expected <= Len(log)
  /\ Accepts(At(w.expected), w.record)
  /\ ConfirmsInTime /\ w.record.kind # "lease" =>
       /\ At(w.expected).lease.by = w.record.by
       /\ At(w.expected).phase = "idle" => w.record.kind = "release"

WritesAreSound == Pending \subseteq Write /\ \A w \in Pending : Sound(w)

\* A runtime that has claimed sends and compares a lease of its own.
ClaimsAreOwn ==
  \A r \in Runtime :
    pc[r] \in {"claim", "unanswered", "confirm"} =>
      /\ write[r] \in Write
      /\ write[r].record.kind = "lease"
      /\ write[r].record.by = r

\* A handoff is its holder's: without a lease there is none.
HandoffsAreHeld ==
  \A n \in 0 .. Len(log) : At(n).lease.by = Nobody => At(n).phase = "none"

\* While a claimer confirms the lease in force, nobody else can append.
ConfirmsAlone ==
  ConfirmsInTime =>
    \A r \in Runtime :
      /\ pc[r] = "confirm" => Confirming(r)
      /\ Confirming(r) => /\ Now.phase # "idle"
                          /\ \A w \in Pending : w.expected < Len(log)

LostIsFinal ==
  \A r \in Runtime :
    lost[r] => /\ pc[r] \notin {"claim", "unanswered", "confirm"}
               /\ ConfirmsInTime => pc[r] # "submit"

IInv ==
  /\ TypeOK
  /\ LogIsReplayable
  /\ WritesAreSound
  /\ ClaimsAreOwn
  /\ HandoffsAreHeld
  /\ ConfirmsAlone
  /\ LostIsFinal
  /\ ConfirmsInTime => EveryAppendIsOwned /\ IdleIsFinal
=============================================================================
