---------------------------- MODULE StandbySync ----------------------------
(***************************************************************************)
(* One owner's primary pod and its synced standby: the hub's row of the     *)
(* placement (services/personal_agent_standby_sql.py), its sync attempts    *)
(* (services/pod_standby_sync.py), and what the pods do when they are asked *)
(* (api/routes/one/pod_sync.py, services/pod_role.py, pod_role_log.py).     *)
(*                                                                         *)
(* A log is the sequence of its records.  The hash of a head covers every   *)
(* record up to it, so a head is taken as the log that ends there and equal *)
(* heads are equal logs.  Of a record the model keeps the pod that wrote    *)
(* it: logs that were written apart differ where they part.  Appends are    *)
(* those of AppendLog; signatures hold, and a pod is named by its keys.     *)
(*                                                                         *)
(* The hub tells a pod its role in an order that may arrive late or twice.  *)
(* An attempt of the hub may be given up at any step while the import that  *)
(* it sent goes on, and its lease may expire under it at any time.          *)
(***************************************************************************)
EXTENDS Integers, Sequences, FiniteSets

CONSTANTS
  Pod,        \* pods of the owner, now or later
  First,      \* the one that is the primary at epoch 0
  NoPod,
  Attempt,    \* sync attempts that may be under way at once
  NoAttempt,
  MaxLen,     \* bound of the model: records of a log
  MaxEpoch    \* bound of the model: promotions

ASSUME PodAssumption == First \in Pod /\ NoPod \notin Pod
ASSUME AttemptAssumption == NoAttempt \notin Attempt
ASSUME BoundsAssumption == MaxLen \in Nat /\ MaxEpoch \in Nat

VARIABLES
  log,      \* the log of each pod
  role,     \* its role object
  lingers,  \* a second process of the pod still trusts a cached primary role
  row,      \* the hub's rows: the placement epoch and the standby's progress
  placed,   \* the placements that the hub has had
  sync,     \* the attempts of the hub
  import    \* the imports that pods carry out for them

pods == <<log, role, lingers>>
hub == <<row, placed>>
vars == <<pods, hub, sync, import>>

-----------------------------------------------------------------------------
(* Data *)

Placement == [epoch : Nat, primary : Pod, standby : Pod \cup {NoPod}]

Role == [role : {"primary", "standby"}, epoch : Nat, pin : Pod \cup {NoPod}]

\* No role object: every pod that was never told otherwise.
PrimaryAtZero == [role |-> "primary", epoch |-> 0, pin |-> NoPod]

Row == [epoch : Nat, primary : Pod, standby : Pod \cup {NoPod},
        lease : Attempt \cup {NoAttempt}, synced : Seq(Pod), ever : BOOLEAN]

\* The steps of an attempt.  A pod that is asked reads its role object first, and
\* its log in later requests of its store.
Steps == {"pair", "primary", "primary_head", "standby", "standby_head",
          "export", "export_records", "await", "after", "after_head"}

Sync == [pc : Steps \cup {"idle", "record", "failed"}, epoch : Nat, primary : Pod \cup {NoPod},
         standby : Pod \cup {NoPod}, base : Seq(Pod), target : Seq(Pod)]

NoSync == [pc |-> "idle", epoch |-> 0, primary |-> NoPod, standby |-> NoPod,
           base |-> <<>>, target |-> <<>>]

Import == [pc : {"idle", "open", "place", "append"}, pod : Pod \cup {NoPod},
           signer : Pod \cup {NoPod}, base : Nat, contents : Seq(Pod), next : Nat]

NoImport == [pc |-> "idle", pod |-> NoPod, signer |-> NoPod, base |-> 0,
             contents |-> <<>>, next |-> 1]

\* s is a prefix of t.
s \sqsubseteq t == Len(s) <= Len(t) /\ \A i \in 1 .. Len(s) : s[i] = t[i]

\* What the placement makes of a pod; a standby pins its primary's key.
RoleIn(placement, pod) ==
  [role |-> IF pod = placement.primary THEN "primary" ELSE "standby",
   epoch |-> placement.epoch,
   pin |-> IF pod = placement.primary THEN NoPod ELSE placement.primary]

Known(pod) == \E p \in placed : pod \in {p.primary, p.standby}

Placements(r) == [epoch |-> r.epoch, primary |-> r.primary, standby |-> r.standby]

Init ==
  /\ log = [p \in Pod |-> <<>>]
  /\ role = [p \in Pod |-> PrimaryAtZero]
  /\ lingers = [p \in Pod |-> FALSE]
  /\ row = [epoch |-> 0, primary |-> First, standby |-> NoPod,
            lease |-> NoAttempt, synced |-> <<>>, ever |-> FALSE]
  /\ placed = {Placements(row)}
  /\ sync = [w \in Attempt |-> NoSync]
  /\ import = [w \in Attempt |-> NoImport]

-----------------------------------------------------------------------------
(* The pods *)

\* The pod appends a record of its own: a turn, a scheduled job or a marker.
Write(p) ==
  /\ Known(p) /\ Len(log[p]) < MaxLen
  /\ role[p].role = "primary" \/ lingers[p]
  /\ log' = [log EXCEPT ![p] = Append(@, p)]
  /\ UNCHANGED <<role, lingers, hub, sync, import>>

\* Mutation: the order does not name the pod that it is for.
SetRoleOfAnother(p) ==
  /\ \E placement \in placed, q \in Pod :
       /\ q \in {placement.primary, placement.standby}
       /\ placement.epoch > role[p].epoch
       /\ role' = [role EXCEPT ![p] = RoleIn(placement, q)]
  /\ UNCHANGED <<log, lingers, hub, sync, import>>

\* An order of the hub for this pod, under whatever placement the hub signed it.
\* The compare-and-swap of the object makes it one step; another process of the
\* pod may go on with what it has cached.
SetRole(p) ==
  /\ \E placement \in placed :
       /\ p \in {placement.primary, placement.standby}
       /\ placement.epoch > role[p].epoch
       /\ role' = [role EXCEPT ![p] = RoleIn(placement, p)]
  /\ \E remains \in BOOLEAN :
       /\ remains => lingers[p] \/ role[p].role = "primary"
       /\ lingers' = [lingers EXCEPT ![p] = remains]
  /\ UNCHANGED <<log, hub, sync, import>>

CacheExpires(p) ==
  /\ lingers[p]
  /\ lingers' = [lingers EXCEPT ![p] = FALSE]
  /\ UNCHANGED <<log, role, hub, sync, import>>

-----------------------------------------------------------------------------
(* The hub's rows *)

\* The rows with that standby, which nothing was ever synced to.
Recorded(standby) ==
  [epoch |-> row.epoch, primary |-> row.primary, standby |-> standby,
   lease |-> NoAttempt, synced |-> <<>>, ever |-> FALSE]

\* A standby is provisioned with its role before it can accept anything; one
\* that was removed and is recorded again still has its role object and its log.
AddStandby(p) ==
  /\ row.standby = NoPod /\ p # row.primary
  /\ row' = Recorded(p)
  /\ placed' = placed \cup {Placements(Recorded(p))}
  /\ role' = IF Known(p) THEN role
             ELSE [role EXCEPT ![p] = RoleIn(Placements(Recorded(p)), p)]
  /\ UNCHANGED <<log, lingers, sync, import>>

RemoveStandby ==
  /\ row.standby # NoPod
  /\ row' = Recorded(NoPod)
  /\ UNCHANGED <<pods, placed, sync, import>>

\* The rows with the two placements exchanged.
Exchanged ==
  [epoch |-> row.epoch + 1, primary |-> row.standby, standby |-> row.primary,
   lease |-> NoAttempt, synced |-> row.synced, ever |-> row.ever]

\* The promotion: one statement that exchanges the placements.  It keeps the
\* progress of the standby, which is what both have.
Swap ==
  /\ row.standby # NoPod /\ row.ever /\ row.epoch < MaxEpoch
  /\ row' = Exchanged
  /\ placed' = placed \cup {Placements(Exchanged)}
  /\ UNCHANGED <<pods, sync, import>>

-----------------------------------------------------------------------------
(* An attempt of the hub *)

\* The lease of another attempt is free or has expired: a transfer may be as
\* slow as it likes.  A fresh attempt has a lease of its own.
Claim(w) ==
  /\ sync[w].pc = "idle" /\ import[w].pc = "idle"
  /\ row.standby # NoPod
  /\ row' = [row EXCEPT !.lease = w]
  /\ sync' = [sync EXCEPT ![w] =
                [NoSync EXCEPT !.pc = "pair", !.epoch = row.epoch, !.standby = row.standby]]
  /\ UNCHANGED <<pods, placed, import>>

\* The registry still has the epoch of the claim.
Pair(w) ==
  /\ sync[w].pc = "pair"
  /\ row.epoch = sync[w].epoch
  /\ sync' = [sync EXCEPT ![w].pc = "primary", ![w].primary = row.primary]
  /\ UNCHANGED <<pods, hub, import>>

\* Mutation: the epoch of a head is not looked at.
SpeaksInAnyEpoch(p, as, epoch) == role[p].role = as

\* check_pod_head: the pod has the role that the hub recorded, and was told so
\* in this epoch or later.
Speaks(p, as, epoch) == role[p].role = as /\ role[p].epoch >= epoch

Proceeds(w, from, to) ==
  /\ sync[w].pc = from
  /\ sync' = [sync EXCEPT ![w].pc = to]
  /\ UNCHANGED <<pods, hub, import>>

\* A pod that is asked reads its role.  For an export it only has to be a primary.
ReadRole(w) ==
  \/ /\ Proceeds(w, "primary", "primary_head")
     /\ Speaks(sync[w].primary, "primary", sync[w].epoch)
  \/ /\ Proceeds(w, "standby", "standby_head") \/ Proceeds(w, "after", "after_head")
     /\ Speaks(sync[w].standby, "standby", sync[w].epoch)
  \/ /\ Proceeds(w, "export", "export_records")
     /\ role[sync[w].primary].role = "primary"

ReadPrimary(w) ==
  /\ sync[w].pc = "primary_head"
  /\ sync' = [sync EXCEPT ![w].pc = "standby", ![w].target = log[sync[w].primary]]
  /\ UNCHANGED <<pods, hub, import>>

\* Mutation: heads are compared by their sequence numbers.
ReadStandbyByLength(w) ==
  LET head == log[sync[w].standby] IN
  /\ sync[w].pc = "standby_head"
  /\ \/ /\ Len(head) = Len(sync[w].target)
        /\ sync' = [sync EXCEPT ![w].pc = "record"]
     \/ /\ Len(head) < Len(sync[w].target)
        /\ sync' = [sync EXCEPT ![w].pc = "export", ![w].base = head]
  /\ UNCHANGED <<pods, hub, import>>

\* Equal heads are a sync; a standby that is not shorter has forked.
ReadStandby(w) ==
  LET head == log[sync[w].standby] IN
  /\ sync[w].pc = "standby_head"
  /\ \/ /\ head = sync[w].target
        /\ sync' = [sync EXCEPT ![w].pc = "record"]
     \/ /\ Len(head) < Len(sync[w].target)
        /\ sync' = [sync EXCEPT ![w].pc = "export", ![w].base = head]
  /\ UNCHANGED <<pods, hub, import>>

\* The primary seals the records behind the standby's head, which must be in its
\* chain, and the hub sends them on; with none behind it the heads are equal.
Export(w) ==
  LET records == log[sync[w].primary] IN
  /\ sync[w].pc = "export_records"
  /\ sync[w].base \sqsubseteq records
  /\ IF records = sync[w].base
       THEN /\ sync' = [sync EXCEPT ![w].pc = "record", ![w].target = records]
            /\ UNCHANGED import
       ELSE /\ sync' = [sync EXCEPT ![w].pc = "await", ![w].target = records]
            /\ import' = [import EXCEPT ![w] =
                 [pc |-> "open", pod |-> sync[w].standby, signer |-> sync[w].primary,
                  base |-> Len(sync[w].base), contents |-> records, next |-> 1]]
  /\ UNCHANGED <<pods, hub>>

\* The standby's head is read again.
ReadAfter(w) ==
  /\ sync[w].pc = "after_head"
  /\ log[sync[w].standby] = sync[w].target
  /\ sync' = [sync EXCEPT ![w].pc = "record"]
  /\ UNCHANGED <<pods, hub, import>>

\* A request is refused or not answered: it is over for the attempt, not for the
\* pod that has it.
Fails(w) ==
  /\ sync[w].pc \in Steps
  /\ sync' = [sync EXCEPT ![w] = [NoSync EXCEPT !.pc = "failed",
                                    !.epoch = sync[w].epoch, !.standby = sync[w].standby]]
  /\ UNCHANGED <<pods, hub, import>>

\* RECORD_SQL is fenced on the lease, the standby's key and the epoch, and moves
\* the progress only forward.
Fenced(w) ==
  row.lease = w /\ row.standby = sync[w].standby /\ row.epoch = sync[w].epoch

Forward(w) ==
  Len(sync[w].target) > Len(row.synced) \/ sync[w].target = row.synced

\* Mutation: the last result wins.
RecordLast(w) ==
  /\ sync[w].pc \in {"record", "failed"}
  /\ row' = IF sync[w].pc = "record" /\ row.standby = sync[w].standby
              THEN [row EXCEPT !.lease = NoAttempt, !.synced = sync[w].target, !.ever = TRUE]
              ELSE row
  /\ sync' = [sync EXCEPT ![w] = NoSync]
  /\ UNCHANGED <<pods, placed, import>>

\* A refused result keeps the lease and is recorded once more, as a failure.
Record(w) ==
  /\ sync[w].pc \in {"record", "failed"}
  /\ \/ /\ sync[w].pc = "record" /\ Fenced(w) /\ Forward(w)
        /\ row' = [row EXCEPT !.lease = NoAttempt, !.synced = sync[w].target, !.ever = TRUE]
        /\ sync' = [sync EXCEPT ![w] = NoSync]
     \/ /\ sync[w].pc = "record" /\ ~(Fenced(w) /\ Forward(w))
        /\ sync' = [sync EXCEPT ![w].pc = "failed"]
        /\ UNCHANGED row
     \/ /\ sync[w].pc = "failed"
        /\ row' = IF Fenced(w) THEN [row EXCEPT !.lease = NoAttempt] ELSE row
        /\ sync' = [sync EXCEPT ![w] = NoSync]
  /\ UNCHANGED <<pods, placed, import>>

\* The worker dies, or cannot record: the lease expires with it.
Abandon(w) ==
  /\ sync[w].pc # "idle"
  /\ sync' = [sync EXCEPT ![w] = NoSync]
  /\ UNCHANGED <<pods, hub, import>>

-----------------------------------------------------------------------------
(* The import that a pod carries out *)

\* A standby takes a range that its pinned primary signed.
Open(w) ==
  LET range == import[w] IN
  /\ range.pc = "open"
  /\ role[range.pod].role = "standby" /\ role[range.pod].pin = range.signer
  /\ import' = [import EXCEPT ![w].pc = "place"]
  /\ UNCHANGED <<pods, hub, sync>>

\* Its own head, read after its role, is on the range's chain.
Place(w) ==
  LET range == import[w] IN
  /\ range.pc = "place"
  /\ range.base <= Len(log[range.pod]) /\ log[range.pod] \sqsubseteq range.contents
  /\ import' = [import EXCEPT ![w].pc = "append", ![w].next = Len(log[range.pod]) + 1]
  /\ UNCHANGED <<pods, hub, sync>>

\* Mutation: the records are appended wherever the log stands.
ImportRecordAnywhere(w) ==
  LET range == import[w] IN
  /\ range.pc = "append" /\ range.next <= Len(range.contents)
  /\ Len(log[range.pod]) < MaxLen
  /\ log' = [log EXCEPT ![range.pod] = Append(@, range.contents[range.next])]
  /\ import' = [import EXCEPT ![w].next = @ + 1]
  /\ UNCHANGED <<role, lingers, hub, sync>>

\* Each record is appended against the head that the record before it made; the
\* role is not looked at again.
ImportRecord(w) ==
  LET range == import[w] IN
  /\ range.pc = "append" /\ range.next <= Len(range.contents)
  /\ Len(log[range.pod]) = range.next - 1
  /\ log' = [log EXCEPT ![range.pod] = Append(@, range.contents[range.next])]
  /\ import' = [import EXCEPT ![w].next = @ + 1]
  /\ UNCHANGED <<role, lingers, hub, sync>>

\* The hub has the answer, if the attempt still waits for it.
ImportDone(w) ==
  /\ import[w].pc = "append" /\ import[w].next > Len(import[w].contents)
  /\ import' = [import EXCEPT ![w] = NoImport]
  /\ sync' = IF sync[w].pc = "await" THEN [sync EXCEPT ![w].pc = "after"] ELSE sync
  /\ UNCHANGED <<pods, hub>>

\* A refusal, a lost race for the head, or the end of the pod's process.
ImportEnds(w) ==
  /\ import[w].pc # "idle"
  /\ import' = [import EXCEPT ![w] = NoImport]
  /\ UNCHANGED <<pods, hub, sync>>

-----------------------------------------------------------------------------

Attempts(w) ==
  \/ Claim(w) \/ Pair(w) \/ ReadRole(w) \/ ReadPrimary(w) \/ ReadStandby(w)
  \/ Export(w) \/ ReadAfter(w) \/ Fails(w) \/ Record(w) \/ Abandon(w)

Imports(w) == Open(w) \/ Place(w) \/ ImportRecord(w) \/ ImportDone(w) \/ ImportEnds(w)

Next ==
  \/ \E p \in Pod : Write(p) \/ SetRole(p) \/ CacheExpires(p) \/ AddStandby(p)
  \/ RemoveStandby \/ Swap
  \/ \E w \in Attempt : Attempts(w) \/ Imports(w)

Spec == Init /\ [][Next]_vars

-----------------------------------------------------------------------------
(* Properties *)

TypeOK ==
  /\ log \in [Pod -> Seq(Pod)]
  /\ role \in [Pod -> Role]
  /\ lingers \in [Pod -> BOOLEAN]
  /\ row \in Row
  /\ placed \subseteq Placement
  /\ sync \in [Attempt -> Sync]
  /\ import \in [Attempt -> Import]

\* A record stands, in every log that has it, behind exactly the records that it
\* was written behind: no import, however late and whatever was promoted, written
\* or imported meanwhile, joins two histories.
HistoryIsKept ==
  \A p \in Pod : \A n \in 1 .. Len(log[p]) :
    LET writer == log[p][n] IN
      n <= Len(log[writer]) /\ \A i \in 1 .. n : log[writer][i] = log[p][i]

\* The head that the hub has recorded is one that primary and standby both have,
\* so that whichever of them serves after a promotion has everything up to it.
SyncedIsShared ==
  /\ row.synced \sqsubseteq log[row.primary]
  /\ row.standby # NoPod => row.synced \sqsubseteq log[row.standby]

\* Only one pod is the primary of an epoch, whichever orders arrived.
OnePrimaryPerEpoch ==
  \A p, q \in Pod :
    Known(p) /\ Known(q) /\ role[p].role = "primary" /\ role[q].role = "primary"
      /\ role[p].epoch = role[q].epoch => p = q

\* Where an attempt knows the primary.
Paired == (Steps \ {"pair"}) \cup {"record"}

\* What an attempt carries is still part of the logs it was read from, and what
\* it was told of its pair still holds unless the hub has promoted since.
AttemptIsSound(w) ==
  /\ sync[w].pc # "idle" => sync[w].standby \in Pod
  /\ sync[w].pc = "pair" => sync[w].base = <<>> /\ sync[w].target = <<>>
  /\ sync[w].pc \in Paired =>
       /\ sync[w].primary \in Pod
       /\ sync[w].target \sqsubseteq log[sync[w].primary]
       /\ sync[w].base \sqsubseteq log[sync[w].standby]
       /\ sync[w].epoch = row.epoch => sync[w].primary = row.primary
  /\ sync[w].pc \in Paired \ {"primary"} => role[sync[w].primary].epoch >= sync[w].epoch
  /\ sync[w].pc \in Paired \ {"primary", "primary_head", "standby"} =>
       role[sync[w].standby].epoch >= sync[w].epoch
  /\ sync[w].pc = "record" => sync[w].target \sqsubseteq log[sync[w].standby]
  /\ sync[w].epoch <= row.epoch

\* A range stays part of its signer's log; what was placed continues its pod's.
ImportIsSound(w) ==
  /\ import[w].pc # "idle" =>
       /\ import[w].pod \in Pod /\ import[w].signer \in Pod
       /\ import[w].contents \sqsubseteq log[import[w].signer]
  /\ import[w].pc = "append" =>
       /\ import[w].next - 1 <= Len(log[import[w].pod])
       /\ import[w].next \in 1 .. Len(import[w].contents) + 1
       /\ \A i \in 1 .. import[w].next - 1 : log[import[w].pod][i] = import[w].contents[i]

\* The hub has one primary in an epoch and no epoch ahead of its row.
PlacedIsSound ==
  /\ \E x \in placed :
       x.epoch = row.epoch /\ x.primary = row.primary /\ row.standby \in {x.standby, NoPod}
  /\ row.standby # row.primary
  /\ row.standby = NoPod => row.synced = <<>>
  /\ \A x, y \in placed : x.epoch = y.epoch => x.primary = y.primary
  /\ \A x \in placed : x.epoch <= row.epoch

\* The pods have the roles of placements that the hub has had.
RolesArePlaced ==
  \A p \in Pod :
    IF Known(p)
      THEN \E x \in placed : p \in {x.primary, x.standby} /\ role[p] = RoleIn(x, p)
      ELSE role[p].epoch = 0

\* The inductive invariant.
IInv ==
  /\ TypeOK
  /\ HistoryIsKept
  /\ SyncedIsShared
  /\ \A w \in Attempt : AttemptIsSound(w) /\ ImportIsSound(w)
  /\ PlacedIsSound
  /\ RolesArePlaced

\* As long as a standby stays recorded, its progress is only ever extended, over
\* promotions and whichever attempt records last.
ProgressIsKept ==
  [][row.ever /\ row'.ever => row.synced \sqsubseteq row'.synced]_vars

\* Progress is recorded only when both pods have taken the roles that the hub has
\* given them in this epoch.
ProgressNeedsRoles ==
  [][row'.epoch = row.epoch /\ row'.synced # row.synced /\ row'.ever =>
       \A p \in {row.primary, row.standby} : role[p] = RoleIn(Placements(row), p)]_vars

=============================================================================
