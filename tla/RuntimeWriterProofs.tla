------------------------- MODULE RuntimeWriterProofs -------------------------
(***************************************************************************)
(* Proofs about RuntimeWriter, for any runtimes, operations, clock         *)
(* readings, lease length, retries and log length.                         *)
(***************************************************************************)
EXTENDS RuntimeWriter, TLAPS

USE NobodyAssumption, OperationAssumption, TimeAssumption, RetriesAssumption, BoundsAssumption

-----------------------------------------------------------------------------
(* Types *)

LEMMA NowTyped ==
  ASSUME TypeOK
  PROVE  /\ \A n \in 0 .. Len(log) : At(n) \in Projection
         /\ Now \in Projection
         /\ Len(log) \in Nat
<1>1. Fresh \in Projection
  BY DEF Fresh, Projection, NoLease
<1>2. Len(log) \in Nat
  BY DEF TypeOK
<1>3. ASSUME NEW n \in 0 .. Len(log) PROVE At(n) \in Projection
  BY <1>1, <1>2, <1>3 DEF At, TypeOK
<1> QED BY <1>2, <1>3 DEF Now

LEMMA ProjectTyped ==
  ASSUME NEW s \in Projection, NEW record \in Record
  PROVE  /\ Project(s, record) \in Projection
         /\ record.kind = "lease" => Project(s, record).lease = record
         /\ record.kind # "lease" => Project(s, record).lease = s.lease
<1>1. record.kind \in {"lease", "data", "fence", "idle", "release"}
  BY DEF Record, Control
<1>2. CASE record.kind = "lease"
  BY <1>2 DEF Project, Projection, Fresh
<1>3. CASE record.kind # "lease"
  BY <1>1, <1>3 DEF Project, Projection, Record
<1> QED BY <1>2, <1>3

LEMMA RecordTyped ==
  ASSUME TypeOK, NEW r \in Runtime, call[r].op = "append"
  PROVE  /\ RecordOf(r) \in Record
         /\ RecordOf(r).by = r
         /\ RecordOf(r).kind # "lease"
         /\ RecordOf(r).kind = call[r].kind
<1>1. call[r] \in AppendCall
  <2>1. call[r] \in AppendCall \cup EnsureCall \cup {NoCall}
    BY DEF TypeOK
  <2>2. NoCall.op # "append" /\ \A c \in EnsureCall : c.op # "append"
    BY DEF NoCall, EnsureCall
  <2> QED BY <2>1, <2>2
<1> QED BY <1>1 DEF AppendCall, RecordOf, Record, Control

LEMMA LeaseTyped ==
  ASSUME TypeOK, NEW r \in Runtime, NEW issued \in Time
  PROVE  /\ LeaseFor(r, issued) \in Record
         /\ LeaseFor(r, issued).by = r
         /\ LeaseFor(r, issued).kind = "lease"
         /\ LeaseFor(r, issued) # Now.lease
<1>1. Now.lease.generation \in Nat
  BY NowTyped DEF Projection, Record, NoLease
<1> QED BY <1>1 DEF LeaseFor, Record, Control

\* What a commit does to the log and to every projection of it
LEMMA CommitExtends ==
  ASSUME TypeOK, NEW w \in Write, Commit(w)
  PROVE  /\ Len(log)' = Len(log) + 1
         /\ Len(projected)' = Len(log)'
         /\ log' \in Seq(Record) /\ projected' \in Seq(Projection)
         /\ \A i \in 1 .. Len(log) : log'[i] = log[i]
         /\ log'[Len(log) + 1] = w.record
         /\ \A n \in 0 .. Len(log) : At(n)' = At(n)
         /\ \A n \in Nat : n = Len(log) + 1 => At(n)' = Project(Now, w.record)
         /\ Now' = Project(Now, w.record)
         /\ late' = {}
         /\ w.expected = Len(log)
<1>1. Project(Now, w.record) \in Projection
  BY NowTyped, ProjectTyped DEF Write
<1>2. log \in Seq(Record) /\ projected \in Seq(Projection) /\ Len(projected) = Len(log)
      /\ w.record \in Record
  BY DEF TypeOK, Write
<1>3. log' = Append(log, w.record) /\ projected' = Append(projected, Project(Now, w.record))
      /\ late' = {} /\ w.expected = Len(log)
  BY DEF Commit
<1>4. /\ Len(log)' = Len(log) + 1 /\ Len(projected)' = Len(log)'
      /\ log' \in Seq(Record) /\ projected' \in Seq(Projection)
      /\ \A i \in 1 .. Len(log) : log'[i] = log[i] /\ projected'[i] = projected[i]
      /\ log'[Len(log) + 1] = w.record
      /\ projected'[Len(log) + 1] = Project(Now, w.record)
  BY <1>1, <1>2, <1>3
<1>5. ASSUME NEW n \in 0 .. Len(log) PROVE At(n)' = At(n)
  BY <1>2, <1>4, <1>5 DEF At
<1>6. ASSUME NEW n \in Nat, n = Len(log) + 1 PROVE At(n)' = Project(Now, w.record)
  BY <1>2, <1>4, <1>6 DEF At
<1>7. Now' = Project(Now, w.record)
  BY <1>2, <1>4 DEF Now, At
<1> QED BY <1>3, <1>4, <1>5, <1>6, <1>7

LEMMA EndTyped ==
  ASSUME TypeOK, NEW r \in Runtime, End(r)
  PROVE  /\ pc' \in [Runtime -> Pc]
         /\ call' \in [Runtime -> AppendCall \cup EnsureCall \cup {NoCall}]
         /\ write' \in [Runtime -> Write \cup {NoWrite}]
         /\ tries' \in [Runtime -> 0 .. MaxRetries - 1]
<1>1. 0 \in 0 .. MaxRetries - 1
  BY RetriesAssumption
<1> QED BY <1>1 DEF TypeOK, End, Goto, Pc

LEMMA SendTyped ==
  ASSUME TypeOK, NEW r \in Runtime, NEW label \in Pc, NEW record \in Record,
         Send(r, label, record)
  PROVE  /\ pc' \in [Runtime -> Pc]
         /\ write' \in [Runtime -> Write \cup {NoWrite}]
         /\ write'[r] = [expected |-> Len(log), record |-> record]
         /\ write'[r] \in Write
         /\ call' = call /\ tries' = tries
<1>1. Len(log) \in Nat
  BY NowTyped
<1> QED BY <1>1 DEF TypeOK, Send, Goto, Write

LEMMA RefreshTyped ==
  ASSUME TypeOK, NEW r \in Runtime, Refresh(r) \/ RefreshAndFail(r)
  PROVE  /\ lost' \in [Runtime -> BOOLEAN]
         /\ Refresh(r) /\ ~LosesAt(r) => lost' = [lost EXCEPT ![r] = FALSE]
         /\ \A q \in Runtime \ {r} : lost'[q] = lost[q]
<1>1. lost \in [Runtime -> BOOLEAN]
  BY DEF TypeOK
<1>2. LosesAt(r) \in BOOLEAN
  BY <1>1 DEF LosesAt, HeldOnce
<1>3. ASSUME ~LosesAt(r) PROVE LosesAt(r) = FALSE
  BY <1>2, <1>3
<1> QED BY <1>1, <1>2, <1>3 DEF Refresh, RefreshAndFail

LEMMA BeginTyped ==
  ASSUME TypeOK, NEW r \in Runtime, NEW label \in Pc,
         NEW arguments \in AppendCall \cup EnsureCall, Begin(r, label, arguments)
  PROVE  TypeOK'
BY DEF TypeOK, Begin, Goto, shared, known

LEMMA CommitTyped ==
  ASSUME TypeOK, NEW w \in Write, Commit(w)
  PROVE  /\ log' \in Seq(Record) /\ projected' \in Seq(Projection)
         /\ Len(projected') = Len(log')
         /\ late' \subseteq Write
BY CommitExtends

LEMMA ForgetTyped ==
  ASSUME TypeOK, NEW w \in Write, Forget(w)
  PROVE  late' \subseteq Write
BY DEF Forget, TypeOK

LEMMA InFlightTyped ==
  ASSUME WritesAreSound, NEW r \in Runtime, pc[r] \in {"claim", "submit"}
  PROVE  write[r] \in Write /\ write[r] \in Pending
BY DEF WritesAreSound, Pending

\* A prepared append, or the refusal of a malformed one
LEMMA PreparedTyped ==
  ASSUME TypeOK, NEW r \in Runtime, call[r].op = "append", Prepare(r) \/ Malformed(r)
  PROVE  /\ pc' \in [Runtime -> Pc]
         /\ call' \in [Runtime -> AppendCall \cup EnsureCall \cup {NoCall}]
         /\ write' \in [Runtime -> Write \cup {NoWrite}]
         /\ tries' \in [Runtime -> 0 .. MaxRetries - 1]
<1>1. CASE Prepare(r)
  <2>1. RecordOf(r) \in Record /\ "submit" \in Pc
    BY RecordTyped DEF Pc
  <2>2. Send(r, "submit", RecordOf(r))
    BY <1>1 DEF Prepare
  <2> QED BY <2>1, <2>2, SendTyped DEF TypeOK
<1>2. CASE Malformed(r)
  BY <1>2, EndTyped DEF Malformed
<1> QED BY <1>1, <1>2

LEMMA GrantedTyped ==
  ASSUME TypeOK, NEW r \in Runtime, Granted(r)
  PROVE  /\ pc' \in [Runtime -> Pc]
         /\ call' \in [Runtime -> AppendCall \cup EnsureCall \cup {NoCall}]
         /\ write' \in [Runtime -> Write \cup {NoWrite}]
         /\ tries' \in [Runtime -> 0 .. MaxRetries - 1]
         /\ turns' \in [Runtime -> Nat]
<1>1. CASE call[r].op = "append"
  BY <1>1, PreparedTyped DEF Granted, TypeOK
<1>2. CASE call[r].op = "hold"
  BY <1>2, EndTyped DEF Granted, TypeOK
<1>3. CASE call[r].op \in {"renew", "prepare"}
  BY <1>3, EndTyped DEF Granted, TypeOK
<1> QED BY <1>1, <1>2, <1>3 DEF Granted

-----------------------------------------------------------------------------
(* What a step does: to the log and the appends that may yet commit, and to *)
(* the claims.  Every action is one of the three kinds.                     *)

Claiming == {"claim", "unanswered", "confirm"}

InFlight == {"claim", "submit"}

\* Nothing is sent and nothing commits.
Stays ==
  /\ log' = log
  /\ projected' = projected
  /\ Pending' \subseteq Pending

\* A pending append commits.
Extends == \E w \in Pending : Commit(w) /\ Pending' \subseteq Pending

\* An append is sent that was checked at the end of the log.
Sends ==
  /\ log' = log
  /\ projected' = projected
  /\ \E w \in Write :
       /\ Pending' \subseteq Pending \cup {w}
       /\ w.expected = Len(log)
       /\ Accepts(Now, w.record)
       /\ ConfirmsInTime /\ w.record.kind # "lease" =>
            /\ Now.lease.by = w.record.by
            /\ Now.phase = "idle" => w.record.kind = "release"
  /\ ConfirmsInTime => \A q \in Runtime : ~Confirming(q)'

\* A claim goes on, or is made of a lease that the log does not have.
ClaimsStay(q) ==
  pc'[q] \in Claiming =>
    \/ pc[q] \in Claiming /\ write'[q] = write[q]
    \/ /\ log' = log /\ projected' = projected
       /\ write'[q] \in Write
       /\ write'[q].record.kind = "lease"
       /\ write'[q].record.by = q
       /\ write'[q].record # Now.lease

\* A claim is confirmed by the lease in the log.
ConfirmsSeen(q) ==
  pc'[q] = "confirm" => (pc[q] = "confirm" /\ write'[q] = write[q]) \/ Confirming(q)'

StepFacts ==
  /\ TypeOK'
  /\ Stays \/ Extends \/ Sends
  /\ \A q \in Runtime : ClaimsStay(q) /\ ConfirmsSeen(q)
  /\ LostIsFinal'

LEMMA NowUnchanged ==
  ASSUME log' = log, projected' = projected
  PROVE  Now' = Now
BY DEF Now, At

LEMMA PendingShrinks ==
  ASSUME late' \subseteq Pending,
         \A q \in Runtime :
           pc'[q] \in InFlight => pc[q] \in InFlight /\ write'[q] = write[q]
  PROVE  Pending' \subseteq Pending
BY DEF Pending, InFlight

\* A step of one runtime that sends nothing
LEMMA QuietStep ==
  ASSUME IInv, NEW r \in Runtime, NEW label \in Pc, Goto(r, label),
         \A q \in Runtime \ {r} : write'[q] = write[q] /\ lost'[q] = lost[q],
         label \notin InFlight, label # "confirm",
         label \in Claiming => /\ pc[r] \in Claiming /\ write'[r] = write[r]
                               /\ lost'[r] = lost[r]
  PROVE  /\ late' \subseteq Pending => Pending' \subseteq Pending
         /\ \A q \in Runtime : ClaimsStay(q) /\ ConfirmsSeen(q)
         /\ LostIsFinal'
<1>1. pc' = [pc EXCEPT ![r] = label] /\ pc \in [Runtime -> Pc]
  BY DEF Goto, IInv, TypeOK
<1>2. late' \subseteq Pending => Pending' \subseteq Pending
  BY <1>1, PendingShrinks
<1>3. \A q \in Runtime : ClaimsStay(q) /\ ConfirmsSeen(q)
  BY <1>1 DEF ClaimsStay, ConfirmsSeen
<1>4. LostIsFinal'
  BY <1>1 DEF LostIsFinal, IInv, InFlight, Claiming
<1> QED BY <1>2, <1>3, <1>4

LEMMA EndStep ==
  ASSUME IInv, NEW r \in Runtime, End(r),
         \A q \in Runtime \ {r} : lost'[q] = lost[q]
  PROVE  /\ late' \subseteq Pending => Pending' \subseteq Pending
         /\ \A q \in Runtime : ClaimsStay(q) /\ ConfirmsSeen(q)
         /\ LostIsFinal'
<1>1. "idle" \in Pc /\ "idle" \notin InFlight \cup Claiming
  BY DEF Pc, InFlight, Claiming
<1>2. Goto(r, "idle") /\ write' = [write EXCEPT ![r] = NoWrite]
  BY DEF End
<1>3. write \in [Runtime -> Write \cup {NoWrite}]
  BY DEF IInv, TypeOK
<1> QED BY <1>1, <1>2, <1>3, QuietStep

\* A step of one runtime that sends an append
LEMMA SendStep ==
  ASSUME IInv, NEW r \in Runtime, NEW label \in InFlight, NEW record \in Record,
         Send(r, label, record), Refresh(r),
         ConfirmsInTime \/ label = "claim" => ~LosesAt(r),
         label = "claim" => /\ record.kind = "lease" /\ record.by = r
                            /\ record # Now.lease,
         UNCHANGED shared,
         Accepts(Now, record),
         ConfirmsInTime /\ record.kind # "lease" =>
           /\ Now.lease.by = record.by
           /\ Now.phase = "idle" => record.kind = "release",
         ConfirmsInTime => \A q \in Runtime \ {r} : ~Confirming(q)
  PROVE  /\ Sends
         /\ \A q \in Runtime : ClaimsStay(q) /\ ConfirmsSeen(q)
         /\ LostIsFinal'
<1> DEFINE w == [expected |-> Len(log), record |-> record]
<1>1. /\ pc' = [pc EXCEPT ![r] = label] /\ pc \in [Runtime -> Pc]
      /\ write' = [write EXCEPT ![r] = w] /\ write \in [Runtime -> Write \cup {NoWrite}]
      /\ lost' = [lost EXCEPT ![r] = LosesAt(r)] /\ lost \in [Runtime -> BOOLEAN]
      /\ log' = log /\ projected' = projected /\ late' = late
  BY DEF Send, Goto, Refresh, IInv, TypeOK, shared
<1>2. w \in Write /\ w.expected = Len(log) /\ w.record = record
  BY NowTyped DEF IInv, Write
<1>3. Now' = Now
  BY <1>1, NowUnchanged
<1>4. Pending' \subseteq Pending \cup {w}
  BY <1>1 DEF Pending
<1>5. ASSUME ConfirmsInTime, NEW q \in Runtime PROVE ~Confirming(q)'
  <2>1. CASE q = r
    BY <1>1, <1>2, <1>3, <2>1 DEF Confirming, InFlight
  <2>2. CASE q # r
    BY <1>1, <1>3, <1>5, <2>2 DEF Confirming
  <2> QED BY <2>1, <2>2
<1>6. Sends
  BY <1>1, <1>2, <1>4, <1>5 DEF Sends
<1>7. \A q \in Runtime : ClaimsStay(q)
  BY <1>1, <1>2 DEF ClaimsStay, InFlight, Claiming
<1>8. \A q \in Runtime : ConfirmsSeen(q)
  BY <1>1 DEF ConfirmsSeen, InFlight
<1>9. LostIsFinal'
  BY <1>1 DEF LostIsFinal, IInv, InFlight
<1> QED BY <1>6, <1>7, <1>8, <1>9

LEMMA UnchangedStays ==
  ASSUME UNCHANGED <<log, projected>>, Pending' \subseteq Pending
  PROVE  Stays
BY DEF Stays

\* A runtime that ends its call, or dies
LEMMA EndFacts ==
  ASSUME IInv, NEW r \in Runtime, End(r),
         \A q \in Runtime \ {r} : lost'[q] = lost[q],
         lost' \in [Runtime -> BOOLEAN], turns' \in [Runtime -> Nat],
         UNCHANGED <<log, projected>>,
         late' \subseteq Pending
  PROVE  StepFacts
<1>1. Pending' \subseteq Pending
  BY EndStep
<1>2. late' \subseteq Write
  BY DEF IInv, WritesAreSound
<1>3. TypeOK'
  BY <1>2, EndTyped DEF IInv, TypeOK
<1> QED BY <1>1, <1>3, EndStep, UnchangedStays DEF StepFacts

LEMMA LateIsPending ==
  ASSUME UNCHANGED late
  PROVE  late' \subseteq Pending
BY DEF Pending

LEMMA BeginFacts ==
  ASSUME IInv, NEW r \in Runtime, NEW label \in {"read", "ensure"},
         NEW arguments \in AppendCall \cup EnsureCall, Begin(r, label, arguments)
  PROVE  StepFacts
<1>1. label \in Pc /\ label \notin InFlight \cup Claiming
  BY DEF Pc, InFlight, Claiming
<1>2. /\ Goto(r, label) /\ write' = write /\ lost' = lost
      /\ log' = log /\ projected' = projected /\ late' = late
  BY DEF Begin, shared, known
<1>3. TypeOK'
  BY <1>1, BeginTyped DEF IInv
<1> QED BY <1>1, <1>2, <1>3, QuietStep, LateIsPending, UnchangedStays DEF StepFacts

LEMMA PrepareFacts ==
  ASSUME IInv, NEW r \in Runtime, call[r].op = "append", Prepare(r), Refresh(r),
         ConfirmsInTime => ~LosesAt(r),
         UNCHANGED shared, UNCHANGED turns,
         ConfirmsInTime => /\ Now.lease.by = r
                           /\ Now.phase = "idle" => call[r].kind = "release",
         ConfirmsInTime => \A q \in Runtime \ {r} : ~Confirming(q)
  PROVE  StepFacts
<1>1. /\ RecordOf(r) \in Record /\ RecordOf(r).by = r /\ RecordOf(r).kind # "lease"
      /\ RecordOf(r).kind = call[r].kind
  BY RecordTyped DEF IInv
<1>2. Send(r, "submit", RecordOf(r)) /\ Accepts(Now, RecordOf(r))
  BY DEF Prepare
<1>3. "submit" \in InFlight
  BY DEF InFlight
<1>4. TypeOK'
  BY PreparedTyped, RefreshTyped DEF IInv, TypeOK, shared
<1>5. Sends /\ LostIsFinal' /\ \A q \in Runtime : ClaimsStay(q) /\ ConfirmsSeen(q)
  BY <1>1, <1>2, <1>3, SendStep
<1> QED BY <1>4, <1>5 DEF StepFacts

LEMMA MalformedFacts ==
  ASSUME IInv, NEW r \in Runtime, Malformed(r), Refresh(r), UNCHANGED shared, UNCHANGED turns
  PROVE  StepFacts
<1>1. End(r)
  BY DEF Malformed
<1>2. lost' \in [Runtime -> BOOLEAN] /\ \A q \in Runtime \ {r} : lost'[q] = lost[q]
  BY RefreshTyped DEF IInv
<1> QED BY <1>1, <1>2, EndFacts, LateIsPending DEF shared, IInv, TypeOK

\* Nobody but the holder of the lease confirms it.
LEMMA OwnerConfirms ==
  ASSUME IInv, NEW r \in Runtime, Now.lease.by = r
  PROVE  \A q \in Runtime \ {r} : ~Confirming(q)
BY DEF IInv, ClaimsAreOwn, Confirming

LEMMA GrantedFacts ==
  ASSUME IInv, NEW r \in Runtime, Granted(r), Refresh(r), UNCHANGED shared,
         ConfirmsInTime => ~LosesAt(r) /\ Now.lease.by = r /\ Now.phase # "idle"
  PROVE  StepFacts
<1>1. CASE call[r].op = "append" /\ Prepare(r) /\ UNCHANGED turns
  BY <1>1, PrepareFacts, OwnerConfirms
<1>2. CASE call[r].op = "append" /\ Malformed(r) /\ UNCHANGED turns
  BY <1>2, MalformedFacts
<1>3. CASE call[r].op \in {"hold", "renew", "prepare"}
  <2>1. End(r) /\ turns' \in [Runtime -> Nat]
    BY <1>3 DEF Granted, IInv, TypeOK
  <2>2. lost' \in [Runtime -> BOOLEAN] /\ \A q \in Runtime \ {r} : lost'[q] = lost[q]
    BY RefreshTyped DEF IInv
  <2> QED BY <2>1, <2>2, EndFacts, LateIsPending DEF shared
<1> QED BY <1>1, <1>2, <1>3 DEF Granted

-----------------------------------------------------------------------------
(* The actions of append *)

LEMMA BeginAppendFacts ==
  ASSUME IInv, NEW r \in Runtime, BeginAppend(r)
  PROVE  StepFacts
<1>1. Len(log) \in Nat
  BY NowTyped DEF IInv
<1>2. ASSUME NEW snapshot \in {NoSnapshot, Len(log)},
             Begin(r, "read", [op |-> "append", kind |-> "data", operation |-> NoOperation,
                               snapshot |-> snapshot])
      PROVE  StepFacts
  <2>1. [op |-> "append", kind |-> "data", operation |-> NoOperation, snapshot |-> snapshot]
          \in AppendCall
    BY <1>1 DEF AppendCall
  <2> QED BY <1>2, <2>1, BeginFacts
<1>3. ASSUME NEW kind \in Control, NEW operation \in Handoff,
             Begin(r, "read", [op |-> "append", kind |-> kind, operation |-> operation,
                               snapshot |-> IF kind = "idle" THEN Len(log) ELSE NoSnapshot])
      PROVE  StepFacts
  <2>1. [op |-> "append", kind |-> kind, operation |-> operation,
         snapshot |-> IF kind = "idle" THEN Len(log) ELSE NoSnapshot] \in AppendCall
    BY <1>1 DEF AppendCall
  <2> QED BY <1>3, <2>1, BeginFacts
<1> QED BY <1>2, <1>3 DEF BeginAppend

LEMMA ReadFacts ==
  ASSUME IInv, NEW r \in Runtime, Read(r)
  PROVE  StepFacts
<1>1. lost' \in [Runtime -> BOOLEAN] /\ \A q \in Runtime \ {r} : lost'[q] = lost[q]
  BY RefreshTyped DEF Read, IInv
<1>2. UNCHANGED <<log, projected>> /\ late' \subseteq Pending /\ UNCHANGED turns
  BY LateIsPending DEF Read, shared
<1>3. CASE Goto(r, "ensure") /\ UNCHANGED <<call, write, tries>>
  <2>1. "ensure" \in Pc /\ "ensure" \notin InFlight \cup Claiming
    BY DEF Pc, InFlight, Claiming
  <2>2. TypeOK'
    BY <1>1, <1>3, <2>1 DEF Read, IInv, TypeOK, Goto, shared
  <2> QED BY <1>1, <1>2, <1>3, <2>1, <2>2, QuietStep, UnchangedStays DEF StepFacts
<1>4. CASE End(r)
  BY <1>1, <1>2, <1>4, EndFacts DEF IInv, TypeOK
<1>5. CASE Cancelling(r) /\ ~LosesAt(r) /\ Prepare(r)
  <2>1. Now.lease.by = r /\ call[r].op = "append" /\ call[r].kind = "release"
    BY <1>5 DEF Cancelling
  <2> QED BY <1>5, <2>1, PrepareFacts, OwnerConfirms DEF Read
<1> QED BY <1>3, <1>4, <1>5 DEF Read

LEMMA SubmittedFacts ==
  ASSUME IInv, NEW r \in Runtime, Submitted(r)
  PROVE  StepFacts
<1>1. write[r] \in Write /\ write[r] \in Pending
  BY InFlightTyped DEF IInv, Submitted
<1>2. "settle" \in Pc /\ "settle" \notin InFlight \cup Claiming
  BY DEF Pc, InFlight, Claiming
<1>3. Commit(write[r]) /\ Goto(r, "settle") /\ UNCHANGED <<known, call, write, tries>>
  BY DEF Submitted
<1>4. late' = {}
  BY <1>3 DEF Commit
<1>5. TypeOK'
  BY <1>1, <1>2, <1>3, CommitTyped DEF IInv, TypeOK, Goto, known
<1>6. Extends
  BY <1>1, <1>2, <1>3, <1>4, QuietStep DEF Extends, known
<1> QED BY <1>2, <1>3, <1>5, <1>6, QuietStep DEF StepFacts, known

LEMMA ConflictsFacts ==
  ASSUME IInv, NEW r \in Runtime, Conflicts(r)
  PROVE  StepFacts
<1>1. UNCHANGED <<log, projected>> /\ late' \subseteq Pending /\ UNCHANGED known
      /\ UNCHANGED late
  BY LateIsPending DEF Conflicts, shared
<1>2. CASE End(r)
  BY <1>1, <1>2, EndFacts DEF IInv, TypeOK, known
<1>3. CASE /\ tries[r] + 1 < MaxRetries
           /\ Goto(r, "read") /\ tries' = [tries EXCEPT ![r] = @ + 1]
           /\ write' = [write EXCEPT ![r] = NoWrite] /\ UNCHANGED call
  <2>1. "read" \in Pc /\ "read" \notin InFlight \cup Claiming
    BY DEF Pc, InFlight, Claiming
  <2>2. tries' \in [Runtime -> 0 .. MaxRetries - 1]
    BY <1>3 DEF IInv, TypeOK
  <2>3. TypeOK'
    BY <1>1, <1>3, <2>1, <2>2 DEF IInv, TypeOK, Goto, known
  <2>4. \A q \in Runtime \ {r} : write'[q] = write[q] /\ lost'[q] = lost[q]
    BY <1>1, <1>3 DEF IInv, TypeOK, known
  <2> QED BY <1>1, <1>3, <2>1, <2>3, <2>4, QuietStep, UnchangedStays DEF StepFacts
<1> QED BY <1>2, <1>3 DEF Conflicts

LEMMA ForgetIsPending ==
  ASSUME NEW w \in Pending, Forget(w)
  PROVE  late' \subseteq Pending
BY DEF Forget, Pending

LEMMA SubmitUnansweredFacts ==
  ASSUME IInv, NEW r \in Runtime, SubmitUnanswered(r)
  PROVE  StepFacts
<1>1. write[r] \in Pending
  BY InFlightTyped DEF IInv, SubmitUnanswered
<1>2. late' \subseteq Pending
  BY <1>1, ForgetIsPending DEF SubmitUnanswered
<1> QED BY <1>2, EndFacts DEF SubmitUnanswered, IInv, TypeOK, known

LEMMA SettleFacts ==
  ASSUME IInv, NEW r \in Runtime, Settle(r)
  PROVE  StepFacts
<1>1. lost' \in [Runtime -> BOOLEAN] /\ \A q \in Runtime \ {r} : lost'[q] = lost[q]
  BY RefreshTyped DEF Settle, IInv
<1> QED BY <1>1, EndFacts, LateIsPending DEF Settle, shared, IInv, TypeOK

-----------------------------------------------------------------------------
(* The actions of ensure and of the claim *)

LEMMA RefusesWhat ==
  ASSUME NEW r, NEW now, ~Refuses(r, now)
  PROVE  ~LosesAt(r) /\ ~OwnerIsIdle(r) /\ ~RivalHolds(r, now)
BY DEF Refuses

LEMMA BeginEnsureFacts ==
  ASSUME IInv, NEW r \in Runtime, BeginHold(r) \/ BeginRenew(r) \/ BeginPrepare(r)
  PROVE  StepFacts
<1>1. \A op \in {"hold", "renew", "prepare"} : [op |-> op] \in EnsureCall
  BY DEF EnsureCall
<1> QED BY <1>1, BeginFacts DEF BeginHold, BeginRenew, BeginPrepare

LEMMA EnsureFacts ==
  ASSUME IInv, NEW r \in Runtime, Ensure(r)
  PROVE  StepFacts
<1> PICK now \in Time : /\ ~Refuses(r, now) /\ ~NeedsClaim(r, now)
                        /\ Refresh(r) /\ Granted(r) /\ UNCHANGED shared
  BY DEF Ensure
<1>1. Now.lease.by = r /\ Now.phase # "idle" /\ ~LosesAt(r)
  BY RefusesWhat DEF NeedsClaim, OwnerIsIdle, Owns
<1> QED BY <1>1, GrantedFacts

LEMMA EnsureRefusedFacts ==
  ASSUME IInv, NEW r \in Runtime, EnsureRefused(r)
  PROVE  StepFacts
<1>1. lost' \in [Runtime -> BOOLEAN] /\ \A q \in Runtime \ {r} : lost'[q] = lost[q]
  BY RefreshTyped DEF EnsureRefused, IInv
<1> QED BY <1>1, EndFacts, LateIsPending DEF EnsureRefused, shared, IInv, TypeOK

LEMMA ClaimIsAccepted ==
  ASSUME IInv, NEW r \in Runtime, NEW now \in Time, NEW issued \in Time,
         ~OwnerIsIdle(r), ~RivalHolds(r, now), issued >= now
  PROVE  Accepts(Now, LeaseFor(r, issued))
<1>1. Now \in Projection /\ Now.phase \in {"none", "draining", "idle"}
  BY NowTyped DEF IInv, Projection
<1>2. LeaseFor(r, issued).generation = Now.lease.generation + 1
      /\ LeaseFor(r, issued).kind = "lease" /\ LeaseFor(r, issued).by = r
      /\ LeaseFor(r, issued).issued = issued
      /\ LeaseFor(r, issued).operation = OperationOf[r]
  BY DEF LeaseFor
<1>3. Now.lease.by = r => Now.phase # "idle"
  BY DEF OwnerIsIdle, Owns
<1>4. ASSUME Now.lease.by \notin {Nobody, r}
      PROVE  \/ Now.phase = "idle" /\ Now.operation = OperationOf[r]
             \/ Now.phase = "none" /\ issued >= ExpiresAt(Now.lease)
  <2>1. Now.lease \in Record \cup {NoLease}
    BY <1>1 DEF Projection
  <2>2. Now.lease.issued \in Time
    BY <2>1 DEF Record, NoLease
  <2>3. ExpiresAt(Now.lease) \in Int /\ now \in Int /\ issued \in Int
    <3>1. \A t \in Time : t \in Int
      BY TimeAssumption
    <3>2. Lease \in Int
      BY TimeAssumption
    <3>3. Now.lease.issued \in Int
      BY <2>2, <3>1
    <3>4. ExpiresAt(Now.lease) \in Int
      BY <3>2, <3>3 DEF ExpiresAt
    <3> QED BY <3>1, <3>4
  <2> QED BY <1>1, <1>4, <2>3 DEF RivalHolds
<1> QED BY <1>2, <1>3, <1>4 DEF Accepts

LEMMA EnsureClaimsFacts ==
  ASSUME IInv, NEW r \in Runtime, EnsureClaims(r)
  PROVE  StepFacts
<1> PICK now \in Time, issued \in Time :
      /\ ~Refuses(r, now) /\ InTime(r) /\ issued >= now
      /\ Refresh(r) /\ Send(r, "claim", LeaseFor(r, issued)) /\ UNCHANGED <<shared, turns>>
  BY DEF EnsureClaims
<1>1. ~LosesAt(r) /\ ~OwnerIsIdle(r) /\ ~RivalHolds(r, now)
  BY RefusesWhat
<1>2. Accepts(Now, LeaseFor(r, issued))
  BY <1>1, ClaimIsAccepted
<1>3. /\ LeaseFor(r, issued) \in Record /\ LeaseFor(r, issued).by = r
      /\ LeaseFor(r, issued).kind = "lease" /\ LeaseFor(r, issued) # Now.lease
  BY LeaseTyped DEF IInv
<1>4. "claim" \in InFlight /\ "claim" \in Pc
  BY DEF InFlight, Pc
<1>5. TypeOK'
  BY <1>3, <1>4, SendTyped, RefreshTyped DEF IInv, TypeOK, shared
<1>6. Sends /\ LostIsFinal' /\ \A q \in Runtime : ClaimsStay(q) /\ ConfirmsSeen(q)
  BY <1>1, <1>2, <1>3, <1>4, SendStep DEF InTime
<1> QED BY <1>5, <1>6 DEF StepFacts

LEMMA ClaimedFacts ==
  ASSUME IInv, NEW r \in Runtime, Claimed(r)
  PROVE  StepFacts
<1> DEFINE label == IF call[r].op = "cancelled" THEN "unanswered" ELSE "confirm"
<1>1. write[r] \in Write /\ write[r] \in Pending /\ write[r].record.kind = "lease"
  BY InFlightTyped DEF IInv, Claimed, ClaimsAreOwn
<1>2. label \in Pc /\ label \notin InFlight
  BY DEF Pc, InFlight
<1>3. /\ Commit(write[r]) /\ pc[r] = "claim" /\ write' = write /\ lost' = lost
      /\ turns' = turns /\ call' = call /\ tries' = tries
      /\ pc' = [pc EXCEPT ![r] = label] /\ pc \in [Runtime -> Pc]
  BY DEF Claimed, Goto, known, IInv, TypeOK
<1>4. late' = {}
  BY <1>3 DEF Commit
<1>5. TypeOK'
  <2>1. pc' \in [Runtime -> Pc]
    BY <1>2, <1>3
  <2> QED BY <1>1, <1>3, <2>1, CommitTyped DEF IInv, TypeOK
<1>6. Pending' \subseteq Pending
  BY <1>2, <1>3, <1>4, PendingShrinks
<1>7. Now'.lease = write[r].record
  <2>1. Now' = Project(Now, write[r].record)
    BY <1>1, <1>3, CommitExtends DEF IInv
  <2> QED BY <1>1, <2>1, NowTyped, ProjectTyped DEF IInv, Write
<1>8. \A q \in Runtime : ClaimsStay(q) /\ ConfirmsSeen(q)
  BY <1>3, <1>7 DEF ClaimsStay, ConfirmsSeen, Confirming, Claiming
<1>9. LostIsFinal'
  BY <1>2, <1>3 DEF LostIsFinal, IInv, InFlight
<1> QED BY <1>1, <1>3, <1>5, <1>6, <1>8, <1>9 DEF StepFacts, Extends

LEMMA ClaimEndsFacts ==
  ASSUME IInv, NEW r \in Runtime, ClaimConflicts(r) \/ ClaimUnanswered(r)
  PROVE  StepFacts
<1>1. write[r] \in Pending /\ "unanswered" \in Pc /\ "unanswered" \notin InFlight
      /\ "claim" \in Claiming
  BY InFlightTyped DEF IInv, ClaimConflicts, ClaimUnanswered, Pc, InFlight, Claiming
<1>2. late' \subseteq Pending
  BY <1>1, ForgetIsPending, LateIsPending DEF ClaimConflicts, ClaimUnanswered, shared
<1>3. /\ Goto(r, "unanswered") /\ write' = write /\ lost' = lost /\ pc[r] = "claim"
      /\ UNCHANGED <<log, projected>> /\ turns' = turns /\ call' = call /\ tries' = tries
  BY DEF ClaimConflicts, ClaimUnanswered, shared, known
<1>4. late' \subseteq Write
  BY <1>2 DEF IInv, WritesAreSound
<1>5. TypeOK'
  BY <1>1, <1>3, <1>4 DEF IInv, TypeOK, Goto
<1> QED BY <1>1, <1>2, <1>3, <1>5, QuietStep, UnchangedStays DEF StepFacts

LEMMA ClaimReconciledFacts ==
  ASSUME IInv, NEW r \in Runtime, ClaimReconciled(r)
  PROVE  StepFacts
<1>1. /\ pc[r] = "unanswered" /\ pc' = [pc EXCEPT ![r] = "confirm"] /\ pc \in [Runtime -> Pc]
      /\ write' = write /\ call' = call /\ tries' = tries /\ turns' = turns
      /\ log' = log /\ projected' = projected /\ late' = late
      /\ Now.lease = write[r].record
  BY DEF ClaimReconciled, Goto, shared, IInv, TypeOK
<1>2. Now.lease.by = r /\ ~lost[r]
  BY <1>1 DEF IInv, ClaimsAreOwn, LostIsFinal
<1>3. lost' \in [Runtime -> BOOLEAN] /\ lost' = [lost EXCEPT ![r] = FALSE]
  BY <1>2, RefreshTyped DEF ClaimReconciled, LosesAt, IInv
<1>4. "confirm" \in Pc /\ "confirm" \notin InFlight
  BY DEF Pc, InFlight
<1>5. TypeOK'
  BY <1>1, <1>3, <1>4 DEF IInv, TypeOK
<1>6. Pending' \subseteq Pending
  BY <1>1, <1>4, PendingShrinks, LateIsPending
<1>7. \A q \in Runtime : ClaimsStay(q) /\ ConfirmsSeen(q)
  BY <1>1, NowUnchanged DEF ClaimsStay, ConfirmsSeen, Confirming, Claiming
<1>8. LostIsFinal'
  BY <1>1, <1>3 DEF LostIsFinal, IInv, TypeOK
<1> QED BY <1>1, <1>5, <1>6, <1>7, <1>8, UnchangedStays DEF StepFacts

LEMMA ClaimFailsFacts ==
  ASSUME IInv, NEW r \in Runtime, ClaimFails(r)
  PROVE  StepFacts
<1>1. lost' \in [Runtime -> BOOLEAN] /\ \A q \in Runtime \ {r} : lost'[q] = lost[q]
  BY RefreshTyped DEF ClaimFails, IInv
<1> QED BY <1>1, EndFacts, LateIsPending DEF ClaimFails, shared, IInv, TypeOK

LEMMA ConfirmFacts ==
  ASSUME IInv, NEW r \in Runtime, Confirm(r)
  PROVE  StepFacts
<1>1. pc[r] = "confirm" /\ Refresh(r) /\ Granted(r) /\ UNCHANGED shared
  BY DEF Confirm
<1>2. ConfirmsInTime => Confirming(r) /\ Now.phase # "idle"
  BY <1>1 DEF IInv, ConfirmsAlone
<1>3. ConfirmsInTime => Now.lease.by = r
  BY <1>1, <1>2 DEF IInv, ClaimsAreOwn, Confirming
<1>4. ConfirmsInTime => ~LosesAt(r)
  BY <1>1, <1>3 DEF LosesAt, IInv, LostIsFinal
<1> QED BY <1>1, <1>2, <1>3, <1>4, GrantedFacts

-----------------------------------------------------------------------------
(* The store, the callers and the process *)

LEMMA CommitLateFacts ==
  ASSUME IInv, CommitLate
  PROVE  StepFacts
<1> PICK w \in late : Commit(w) /\ UNCHANGED <<known, pc, call, write, tries>>
  BY DEF CommitLate
<1>1. w \in Pending /\ w \in Write
  BY DEF Pending, IInv, WritesAreSound
<1>2. late' = {}
  BY DEF Commit
<1>3. Pending' \subseteq Pending
  BY <1>2, PendingShrinks
<1>4. TypeOK'
  BY <1>1, CommitTyped DEF IInv, TypeOK, known
<1>5. LostIsFinal' /\ \A q \in Runtime : ClaimsStay(q) /\ ConfirmsSeen(q)
  BY DEF IInv, LostIsFinal, ClaimsStay, ConfirmsSeen, known
<1> QED BY <1>1, <1>3, <1>4, <1>5 DEF StepFacts, Extends

LEMMA ReadFailsFacts ==
  ASSUME IInv, NEW r \in Runtime, ReadFails(r)
  PROVE  StepFacts
<1>1. lost \in [Runtime -> BOOLEAN] /\ lost' = [lost EXCEPT ![r] = @ \/ call[r].op = "renew"]
  BY DEF ReadFails, IInv, TypeOK
<1>2. lost' \in [Runtime -> BOOLEAN] /\ \A q \in Runtime \ {r} : lost'[q] = lost[q]
  BY <1>1
<1> QED BY <1>2, EndFacts, LateIsPending DEF ReadFails, shared, IInv, TypeOK

LEMMA CancelFacts ==
  ASSUME IInv, NEW r \in Runtime, Cancel(r), lost' = lost, turns' \in [Runtime -> Nat]
  PROVE  StepFacts
<1>1. CASE End(r) /\ UNCHANGED shared
  BY <1>1, EndFacts, LateIsPending DEF shared, IInv, TypeOK
<1>2. CASE call' = [call EXCEPT ![r] = [op |-> "cancelled"]] /\ UNCHANGED <<shared, pc, write, tries>>
  <2>1. [op |-> "cancelled"] \in EnsureCall
    BY DEF EnsureCall
  <2>2. TypeOK'
    BY <1>2, <2>1 DEF IInv, TypeOK, shared
  <2>3. Pending' \subseteq Pending
    BY <1>2 DEF Pending, shared
  <2>4. LostIsFinal' /\ \A q \in Runtime : ClaimsStay(q) /\ ConfirmsSeen(q)
    BY <1>2 DEF IInv, LostIsFinal, ClaimsStay, ConfirmsSeen
  <2> QED BY <1>2, <2>2, <2>3, <2>4, UnchangedStays DEF StepFacts, shared
<1> QED BY <1>1, <1>2 DEF Cancel

LEMMA ReleaseFacts ==
  ASSUME IInv, NEW r \in Runtime, Release(r)
  PROVE  StepFacts
<1>1. turns' \in [Runtime -> Nat]
  BY DEF Release, IInv, TypeOK
<1>2. CASE Cancel(r)
  BY <1>1, <1>2, CancelFacts DEF Release
<1>3. CASE UNCHANGED <<shared, pc, call, write, tries>>
  <2>1. TypeOK'
    BY <1>1, <1>3 DEF Release, IInv, TypeOK, shared
  <2>2. Pending' \subseteq Pending
    BY <1>3 DEF Pending, shared
  <2>3. LostIsFinal' /\ \A q \in Runtime : ClaimsStay(q) /\ ConfirmsSeen(q)
    BY <1>3 DEF Release, IInv, LostIsFinal, ClaimsStay, ConfirmsSeen
  <2> QED BY <1>3, <2>1, <2>2, <2>3, UnchangedStays DEF StepFacts, shared
<1> QED BY <1>2, <1>3 DEF Release

LEMMA CrashFacts ==
  ASSUME IInv, NEW r \in Runtime, Crash(r)
  PROVE  StepFacts
<1>1. late' \subseteq Pending
  <2>1. CASE pc[r] \in {"claim", "submit"}
    BY <2>1, InFlightTyped, ForgetIsPending DEF Crash, IInv
  <2>2. CASE pc[r] \notin {"claim", "submit"}
    BY <2>2, LateIsPending DEF Crash
  <2> QED BY <2>1, <2>2
<1>2. "dead" \in Pc /\ "dead" \notin InFlight \cup Claiming
  BY DEF Pc, InFlight, Claiming
<1>3. /\ Goto(r, "dead") /\ write' = [write EXCEPT ![r] = NoWrite]
      /\ lost' = [lost EXCEPT ![r] = FALSE] /\ UNCHANGED <<log, projected>>
  BY DEF Crash, Goto
<1>4. 0 \in 0 .. MaxRetries - 1 /\ late' \subseteq Write
  BY <1>1 DEF IInv, WritesAreSound
<1>5. TypeOK'
  BY <1>2, <1>3, <1>4 DEF Crash, Goto, IInv, TypeOK
<1>6. \A q \in Runtime \ {r} : write'[q] = write[q] /\ lost'[q] = lost[q]
  BY <1>3 DEF IInv, TypeOK
<1> QED BY <1>1, <1>2, <1>3, <1>5, <1>6, QuietStep, UnchangedStays DEF StepFacts

LEMMA NextFacts ==
  ASSUME IInv, [Next]_vars
  PROVE  StepFacts
<1>1. ASSUME NEW r \in Runtime, AppendStep(r) PROVE StepFacts
  BY <1>1, BeginAppendFacts, ReadFacts, SubmittedFacts, ConflictsFacts, SubmitUnansweredFacts,
     SettleFacts DEF AppendStep
<1>2. ASSUME NEW r \in Runtime, EnsureStep(r) PROVE StepFacts
  BY <1>2, BeginEnsureFacts, EnsureFacts, EnsureRefusedFacts, EnsureClaimsFacts, ClaimedFacts,
     ClaimEndsFacts, ClaimReconciledFacts, ClaimFailsFacts, ConfirmFacts DEF EnsureStep
<1>3. ASSUME NEW r \in Runtime, CancelCall(r) PROVE StepFacts
  BY <1>3, CancelFacts DEF CancelCall, known, IInv, TypeOK
<1>4. ASSUME NEW r \in Runtime, Disturbance(r) PROVE StepFacts
  BY <1>3, <1>4, ReadFailsFacts, ReleaseFacts, CrashFacts DEF Disturbance
<1>5. CASE UNCHANGED vars
  <2>1. TypeOK' /\ LostIsFinal'
    BY <1>5 DEF vars, shared, known, IInv, TypeOK, LostIsFinal
  <2>2. Pending' \subseteq Pending
    BY <1>5 DEF vars, shared, Pending
  <2>3. \A q \in Runtime : ClaimsStay(q) /\ ConfirmsSeen(q)
    BY <1>5 DEF vars, ClaimsStay, ConfirmsSeen
  <2> QED BY <1>5, <2>1, <2>2, <2>3, UnchangedStays DEF StepFacts, vars, shared
<1> QED BY <1>1, <1>2, <1>4, <1>5, CommitLateFacts DEF Next

-----------------------------------------------------------------------------
(* The invariant is preserved: a step that leaves the log alone *)

LEMMA SameLog ==
  ASSUME log' = log, projected' = projected
  PROVE  /\ Now' = Now
         /\ \A n \in Nat : At(n)' = At(n)
         /\ \A w \in Write : Sound(w) => Sound(w)'
<1>1. \A n \in Nat : At(n)' = At(n)
  BY DEF At
<1> QED BY <1>1, NowUnchanged DEF Sound, Write

LEMMA LogPartsKept ==
  ASSUME IInv, log' = log, projected' = projected
  PROVE  /\ LogIsReplayable' /\ HandoffsAreHeld'
         /\ ConfirmsInTime => EveryAppendIsOwned' /\ IdleIsFinal'
BY DEF IInv, LogIsReplayable, HandoffsAreHeld, EveryAppendIsOwned, IdleIsFinal, At

LEMMA ClaimsKept ==
  ASSUME IInv, \A q \in Runtime : ClaimsStay(q)
  PROVE  ClaimsAreOwn'
BY DEF IInv, ClaimsAreOwn, ClaimsStay, Claiming

LEMMA StaysKeeps ==
  ASSUME IInv, StepFacts, Stays
  PROVE  IInv'
<1>1. Len(log)' = Len(log) /\ Now' = Now /\ log' = log /\ projected' = projected
  BY SameLog DEF Stays
<1>2. WritesAreSound'
  BY SameLog DEF Stays, IInv, WritesAreSound
<1>3. ASSUME NEW q \in Runtime, Confirming(q)' PROVE Confirming(q)
  BY <1>1, <1>3 DEF StepFacts, ClaimsStay, Confirming, Claiming
<1>4. ConfirmsAlone'
  <2>1. ASSUME NEW q \in Runtime, ConfirmsInTime, pc'[q] = "confirm" PROVE Confirming(q)'
    BY <1>1, <2>1 DEF StepFacts, ConfirmsSeen, IInv, ConfirmsAlone, Confirming
  <2>2. ASSUME NEW q \in Runtime, ConfirmsInTime, Confirming(q)'
        PROVE  Now'.phase # "idle" /\ \A w \in Pending' : w.expected < Len(log')
    BY <1>1, <1>3, <2>2 DEF Stays, IInv, ConfirmsAlone
  <2> QED BY <2>1, <2>2 DEF ConfirmsAlone
<1> QED BY <1>1, <1>2, <1>4, LogPartsKept, ClaimsKept DEF StepFacts, IInv

LEMMA SendsKeeps ==
  ASSUME IInv, StepFacts, Sends
  PROVE  IInv'
<1> PICK w \in Write :
      /\ Pending' \subseteq Pending \cup {w}
      /\ w.expected = Len(log)
      /\ Accepts(Now, w.record)
      /\ ConfirmsInTime /\ w.record.kind # "lease" =>
           /\ Now.lease.by = w.record.by
           /\ Now.phase = "idle" => w.record.kind = "release"
  BY DEF Sends
<1>1. Len(log)' = Len(log) /\ Now' = Now /\ log' = log /\ projected' = projected
  BY SameLog DEF Sends
<1>2. Sound(w)
  <2>1. At(w.expected) = Now /\ Len(log) \in Nat
    BY NowTyped DEF Now, IInv
  <2> QED BY <2>1 DEF Sound
<1>3. WritesAreSound'
  BY <1>1, <1>2, SameLog DEF IInv, WritesAreSound
<1>4. ConfirmsAlone'
  <2>1. ASSUME NEW q \in Runtime, ConfirmsInTime PROVE ~Confirming(q)'
    BY <2>1 DEF Sends
  <2>2. ASSUME NEW q \in Runtime, ConfirmsInTime PROVE pc'[q] # "confirm"
    BY <1>1, <2>1, <2>2 DEF StepFacts, ConfirmsSeen, IInv, ConfirmsAlone, Confirming
  <2> QED BY <2>1, <2>2 DEF ConfirmsAlone
<1> QED BY <1>1, <1>3, <1>4, LogPartsKept, ClaimsKept DEF StepFacts, IInv

-----------------------------------------------------------------------------
(* ... and a step that commits a pending append *)

LEMMA CommitKeepsHandoffs ==
  ASSUME IInv, NEW w \in Pending, Commit(w)
  PROVE  /\ HandoffsAreHeld'
         /\ w.record.kind = "lease" => Now'.phase # "idle"
<1>1. w \in Write /\ Sound(w)
  BY DEF IInv, WritesAreSound
<1>2. /\ Accepts(Now, w.record) /\ Now' = Project(Now, w.record)
      /\ w.record \in Record /\ Now \in Projection
      /\ Now.lease.by = Nobody => Now.phase = "none"
  <2>1. w.expected = Len(log) /\ Len(log) \in Nat /\ w.record \in Record
    BY <1>1, CommitExtends, NowTyped DEF IInv, Write
  <2>2. Len(log) \in 0 .. Len(log)
    BY <2>1
  <2>3. Accepts(Now, w.record) /\ (Now.lease.by = Nobody => Now.phase = "none")
    BY <1>1, <2>1, <2>2 DEF Sound, Now, IInv, HandoffsAreHeld
  <2> QED BY <1>1, <2>1, <2>3, CommitExtends, NowTyped DEF IInv
<1>3. w.record.by \in Runtime /\ w.record.kind \in {"lease", "data", "fence", "idle", "release"}
  BY <1>2 DEF Record, Control
<1>4. w.record.kind = "lease" => Now'.phase # "idle" /\ Now'.lease.by # Nobody
  <2>1. CASE w.record.kind = "lease" /\ Now.lease.by = w.record.by
    BY <1>2, <1>3, <2>1 DEF Project, Accepts, Projection, Control
  <2>2. CASE w.record.kind = "lease" /\ Now.lease.by # w.record.by
    BY <1>2, <1>3, <2>2 DEF Project, Fresh
  <2> QED BY <2>1, <2>2
<1>5. Now'.lease.by = Nobody => Now'.phase = "none"
  <2>1. CASE w.record.kind = "lease"
    BY <1>4, <2>1
  <2>2. CASE w.record.kind = "data"
    BY <1>2, <2>2 DEF Project
  <2>3. CASE w.record.kind \in Control
    <3>1. Now.lease.by = w.record.by
      BY <1>2, <2>3 DEF Accepts, Control
    <3>2. Now'.lease = Now.lease
      BY <1>2, <2>3, ProjectTyped DEF Control
    <3> QED BY <1>3, <3>1, <3>2
  <2> QED BY <1>3, <2>1, <2>2, <2>3 DEF Control
<1>6. ASSUME NEW n \in 0 .. Len(log)', At(n)'.lease.by = Nobody PROVE At(n)'.phase = "none"
  <2>1. Len(log)' = Len(log) + 1 /\ Len(log) \in Nat
    BY <1>1, CommitExtends, NowTyped DEF IInv
  <2>2. CASE n \in 0 .. Len(log)
    BY <1>1, <1>6, <2>2, CommitExtends DEF IInv, HandoffsAreHeld
  <2>3. CASE n = Len(log) + 1
    BY <1>1, <1>2, <1>5, <1>6, <2>1, <2>3, CommitExtends DEF IInv
  <2> QED BY <2>1, <2>2, <2>3
<1> QED BY <1>4, <1>6 DEF HandoffsAreHeld

LEMMA CommitKeepsLog ==
  ASSUME IInv, NEW w \in Pending, Commit(w)
  PROVE  /\ LogIsReplayable'
         /\ ConfirmsInTime => EveryAppendIsOwned' /\ IdleIsFinal'
<1>1. w \in Write /\ Sound(w) /\ w.expected = Len(log) /\ Len(log) \in Nat
      /\ Len(log)' = Len(log) + 1
  BY CommitExtends, NowTyped DEF IInv, WritesAreSound
<1>2. ASSUME NEW i \in 1 .. Len(log)
      PROVE  i - 1 \in 0 .. Len(log) /\ log'[i] = log[i] /\ At(i - 1)' = At(i - 1)
  BY <1>1, <1>2, CommitExtends DEF IInv
<1>3. ASSUME NEW i \in Nat, i = Len(log) + 1
      PROVE  log'[i] = w.record /\ At(i - 1)' = Now /\ Accepts(Now, w.record)
  <2>1. i - 1 = Len(log) /\ Len(log) \in 0 .. Len(log)
    BY <1>1, <1>3
  <2>2. At(i - 1)' = At(i - 1) /\ log'[i] = w.record
    BY <1>1, <1>3, <2>1, CommitExtends DEF IInv
  <2> QED BY <1>1, <2>1, <2>2 DEF Now, Sound
<1>4. LogIsReplayable'
  <2> SUFFICES ASSUME NEW i \in 1 .. Len(log)' PROVE Accepts(At(i - 1)', log'[i])
    BY DEF LogIsReplayable, Accepts
  <2>1. CASE i \in 1 .. Len(log)
    BY <1>2, <2>1 DEF IInv, LogIsReplayable
  <2>2. CASE i = Len(log) + 1
    BY <1>3, <2>2
  <2> QED BY <1>1, <2>1, <2>2
<1>5. ASSUME ConfirmsInTime PROVE EveryAppendIsOwned'
  <2> SUFFICES ASSUME NEW i \in 1 .. Len(log)', log'[i].kind # "lease"
               PROVE  At(i - 1)'.lease.by = log'[i].by
    BY DEF EveryAppendIsOwned
  <2>1. CASE i \in 1 .. Len(log)
    BY <1>2, <1>5, <2>1 DEF IInv, EveryAppendIsOwned
  <2>2. CASE i = Len(log) + 1
    BY <1>1, <1>3, <1>5, <2>2 DEF Sound, Now
  <2> QED BY <1>1, <2>1, <2>2
<1>6. ASSUME ConfirmsInTime PROVE IdleIsFinal'
  <2> SUFFICES ASSUME NEW i \in 1 .. Len(log)', At(i - 1)'.phase = "idle"
               PROVE  \/ log'[i].kind = "lease" /\ log'[i].operation = At(i - 1)'.operation
                      \/ log'[i].kind = "release"
    BY DEF IdleIsFinal
  <2>1. CASE i \in 1 .. Len(log)
    BY <1>2, <1>6, <2>1 DEF IInv, IdleIsFinal
  <2>2. CASE i = Len(log) + 1
    <3>1. /\ Now.phase = "idle" /\ log'[i] = w.record /\ At(i - 1)' = Now
          /\ Accepts(Now, w.record)
      BY <1>1, <1>3, <2>2
    <3>2. Now.lease.by # Nobody
      BY <1>1, <3>1 DEF IInv, HandoffsAreHeld, Now
    <3>3. CASE w.record.kind # "lease"
      BY <1>1, <1>6, <3>1, <3>3 DEF Sound, Now
    <3>4. CASE w.record.kind = "lease"
      BY <3>1, <3>2, <3>4 DEF Accepts, Control
    <3> QED BY <3>1, <3>3, <3>4
  <2> QED BY <1>1, <2>1, <2>2
<1> QED BY <1>4, <1>5, <1>6

LEMMA CommitKeepsWrites ==
  ASSUME IInv, NEW w \in Pending, Commit(w), Pending' \subseteq Pending
  PROVE  WritesAreSound'
<1>1. w \in Write
  BY DEF IInv, WritesAreSound
<1>2. ASSUME NEW v \in Pending' PROVE v \in Write /\ Sound(v)'
  <2>1. v \in Write /\ Sound(v)
    BY <1>2 DEF IInv, WritesAreSound
  <2>2. v.expected \in 0 .. Len(log) /\ Len(log) \in Nat /\ Len(log)' = Len(log) + 1
    BY <1>1, <2>1, CommitExtends, NowTyped DEF IInv, Sound, Write
  <2>3. At(v.expected)' = At(v.expected)
    BY <1>1, <2>2, CommitExtends DEF IInv
  <2> QED BY <2>1, <2>2, <2>3 DEF Sound
<1> QED BY <1>2 DEF WritesAreSound

LEMMA CommitKeepsClaims ==
  ASSUME IInv, StepFacts, NEW w \in Pending, Commit(w), Pending' \subseteq Pending
  PROVE  ConfirmsAlone'
<1>1. w \in Write /\ w.expected = Len(log) /\ Len(log) \in Nat /\ Len(log)' = Len(log) + 1
  BY CommitExtends, NowTyped DEF IInv, WritesAreSound
<1>2. log' # log
  BY <1>1
<1>3. ASSUME ConfirmsInTime, NEW q \in Runtime PROVE ~Confirming(q)
  BY <1>1, <1>3 DEF IInv, ConfirmsAlone
<1>4. ASSUME ConfirmsInTime, NEW q \in Runtime, pc'[q] = "confirm" PROVE Confirming(q)'
  BY <1>3, <1>4 DEF StepFacts, ConfirmsSeen, IInv, ConfirmsAlone
<1>5. ASSUME ConfirmsInTime, NEW q \in Runtime, Confirming(q)' PROVE Now'.phase # "idle"
  <2>1. pc[q] \in Claiming /\ write'[q] = write[q] /\ write[q].record = Now'.lease
    BY <1>2, <1>5 DEF StepFacts, ClaimsStay, Confirming, Claiming
  <2>2. Now'.lease # Now.lease
    BY <1>3, <1>5, <2>1 DEF Confirming, Claiming
  <2>3. w.record.kind = "lease"
    BY <1>1, <2>2, CommitExtends, ProjectTyped, NowTyped DEF IInv, Write
  <2> QED BY <2>3, CommitKeepsHandoffs
<1>6. ASSUME NEW v \in Pending' PROVE v.expected < Len(log)'
  BY <1>1, <1>6 DEF IInv, WritesAreSound, Sound, Write
<1> QED BY <1>4, <1>5, <1>6 DEF ConfirmsAlone

LEMMA ExtendsKeeps ==
  ASSUME IInv, StepFacts, Extends
  PROVE  IInv'
<1> PICK w \in Pending : Commit(w) /\ Pending' \subseteq Pending
  BY DEF Extends
<1> QED BY CommitKeepsHandoffs, CommitKeepsLog, CommitKeepsWrites, CommitKeepsClaims, ClaimsKept
        DEF StepFacts, IInv

-----------------------------------------------------------------------------
(* Theorems *)

LEMMA InitHolds ==
  ASSUME Init
  PROVE  IInv
<1>1. Len(log) = 0 /\ log \in Seq(Record) /\ projected \in Seq(Projection)
      /\ Len(projected) = Len(log)
  BY DEF Init
<1>2. TypeOK
  <2>1. "idle" \in Pc /\ 0 \in 0 .. MaxRetries - 1
    BY DEF Pc
  <2> QED BY <1>1, <2>1 DEF Init, TypeOK
<1>3. Pending = {}
  BY DEF Init, Pending
<1>4. \A r \in Runtime : pc[r] = "idle" /\ ~lost[r]
  BY DEF Init
<1>5. HandoffsAreHeld
  BY <1>1 DEF HandoffsAreHeld, At, Fresh
<1>6. LogIsReplayable /\ EveryAppendIsOwned /\ IdleIsFinal
  BY <1>1 DEF LogIsReplayable, EveryAppendIsOwned, IdleIsFinal
<1> QED BY <1>2, <1>3, <1>4, <1>5, <1>6
        DEF IInv, WritesAreSound, ClaimsAreOwn, ConfirmsAlone, Confirming, LostIsFinal

LEMMA StepKeeps ==
  ASSUME IInv, [Next]_vars
  PROVE  IInv'
<1>1. StepFacts
  BY NextFacts
<1> QED BY <1>1, StaysKeeps, SendsKeeps, ExtendsKeeps DEF StepFacts

\* The inductive invariant of the writer leases: what was checked of an append
\* in flight holds at the position that it names, whatever else happens.
THEOREM InvariantHolds == Spec => []IInv
<1>1. Init => IInv
  BY InitHolds
<1>2. IInv /\ [Next]_vars => IInv'
  BY StepKeeps
<1> QED BY <1>1, <1>2, PTL DEF Spec

\* The writer never leaves its types; in particular it never starts a round
\* of append beyond the retries of the log.
THEOREM TypesHold == Spec => []TypeOK
<1>1. IInv => TypeOK
  BY DEF IInv
<1> QED BY <1>1, InvariantHolds, PTL

\* Whatever the clocks say, whatever is lost, delayed or cancelled, and however
\* many runtimes there are: no race writes a log that its replay rejects.
THEOREM EveryLogIsReplayable == Spec => []LogIsReplayable
<1>1. IInv => LogIsReplayable
  BY DEF IInv
<1> QED BY <1>1, InvariantHolds, PTL

\* As long as claims are confirmed before they expire, no runtime appends
\* behind another's lease.
THEOREM AppendsAreOwned == ConfirmsInTime /\ Spec => []EveryAppendIsOwned
<1>1. ConfirmsInTime /\ IInv => EveryAppendIsOwned
  BY DEF IInv
<1>2. CASE ConfirmsInTime
  <2>1. IInv => EveryAppendIsOwned
    BY <1>1, <1>2
  <2> QED BY <2>1, InvariantHolds, PTL
<1> QED BY <1>2

\* Under the same condition, a runtime that declared itself idle is followed
\* by its approved successor or by its own cancellation, and by nothing else.
THEOREM IdleStaysIdle == ConfirmsInTime /\ Spec => []IdleIsFinal
<1>1. ConfirmsInTime /\ IInv => IdleIsFinal
  BY DEF IInv
<1>2. CASE ConfirmsInTime
  <2>1. IInv => IdleIsFinal
    BY <1>1, <1>2
  <2> QED BY <2>1, InvariantHolds, PTL
<1> QED BY <1>2

\* Under the same condition, a runtime that knows of its loss sends nothing.
THEOREM LostIsSilent == ConfirmsInTime /\ Spec => []LostNeverWrites
<1>1. ConfirmsInTime /\ IInv => LostNeverWrites
  BY DEF IInv, LostIsFinal, LostNeverWrites
<1>2. CASE ConfirmsInTime
  <2>1. IInv => LostNeverWrites
    BY <1>1, <1>2
  <2> QED BY <2>1, InvariantHolds, PTL
<1> QED BY <1>2

=============================================================================
