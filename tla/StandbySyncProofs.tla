------------------------- MODULE StandbySyncProofs -------------------------
(***************************************************************************)
(* Proofs about StandbySync, for any pods, any attempts at once and any     *)
(* bounds: the inductive invariant IInv, the properties that it implies,    *)
(* and the action properties of the hub's progress.                        *)
(***************************************************************************)
EXTENDS StandbySync, TLAPS

-----------------------------------------------------------------------------
(* Prefixes *)

LEMMA PrefixRefl == ASSUME NEW s \in Seq(Pod) PROVE s \sqsubseteq s
BY DEF \sqsubseteq

LEMMA PrefixEmpty == ASSUME NEW s \in Seq(Pod) PROVE <<>> \sqsubseteq s
BY DEF \sqsubseteq

LEMMA PrefixTrans ==
  ASSUME NEW s \in Seq(Pod), NEW t \in Seq(Pod), NEW u \in Seq(Pod),
         s \sqsubseteq t, t \sqsubseteq u
  PROVE  s \sqsubseteq u
BY DEF \sqsubseteq

LEMMA PrefixAppend ==
  ASSUME NEW s \in Seq(Pod), NEW p \in Pod
  PROVE  Append(s, p) \in Seq(Pod) /\ s \sqsubseteq Append(s, p)
BY DEF \sqsubseteq

LEMMA PrefixComparable ==
  ASSUME NEW s \in Seq(Pod), NEW t \in Seq(Pod), NEW u \in Seq(Pod),
         s \sqsubseteq u, t \sqsubseteq u, Len(s) <= Len(t)
  PROVE  s \sqsubseteq t
BY DEF \sqsubseteq

-----------------------------------------------------------------------------
(* Types *)

LEMMA InitTypeOK == Init => TypeOK
<1> SUFFICES ASSUME Init PROVE TypeOK
  OBVIOUS
<1>1. PrimaryAtZero \in Role
  BY DEF PrimaryAtZero, Role
<1>2. NoSync \in Sync
  BY DEF NoSync, Sync, Steps
<1>3. NoImport \in Import
  BY DEF NoImport, Import
<1>4. row \in Row /\ placed \subseteq Placement
  BY PodAssumption DEF Init, Row, Placement, Placements
<1> QED
  BY <1>1, <1>2, <1>3, <1>4 DEF Init, TypeOK

LEMMA RoleInType ==
  ASSUME NEW x \in Placement, NEW p \in Pod
  PROVE  RoleIn(x, p) \in Role /\ RoleIn(x, p).epoch = x.epoch
BY DEF RoleIn, Placement, Role

LEMMA PlacementsType == ASSUME NEW r \in Row PROVE Placements(r) \in Placement
BY DEF Row, Placement, Placements

\* The updates of an attempt and of an import keep their types.
LEMMA PcUpdate ==
  ASSUME sync \in [Attempt -> Sync], NEW w \in Attempt,
         NEW pc \in Steps \cup {"idle", "record", "failed"}
  PROVE  [sync EXCEPT ![w].pc = pc] \in [Attempt -> Sync]
BY DEF Sync

LEMMA BaseUpdate ==
  ASSUME sync \in [Attempt -> Sync], NEW w \in Attempt,
         NEW pc \in Steps \cup {"idle", "record", "failed"}, NEW s \in Seq(Pod)
  PROVE  [sync EXCEPT ![w].pc = pc, ![w].base = s] \in [Attempt -> Sync]
BY ZenonT(60) DEF Sync

LEMMA TargetUpdate ==
  ASSUME sync \in [Attempt -> Sync], NEW w \in Attempt,
         NEW pc \in Steps \cup {"idle", "record", "failed"}, NEW s \in Seq(Pod)
  PROVE  [sync EXCEPT ![w].pc = pc, ![w].target = s] \in [Attempt -> Sync]
BY ZenonT(60) DEF Sync

LEMMA NextUpdate ==
  ASSUME import \in [Attempt -> Import], NEW w \in Attempt, NEW n \in Nat
  PROVE  [import EXCEPT ![w].next = n] \in [Attempt -> Import]
BY DEF Import

LEMMA PlaceUpdate ==
  ASSUME import \in [Attempt -> Import], NEW w \in Attempt, NEW n \in Nat
  PROVE  [import EXCEPT ![w].pc = "append", ![w].next = n] \in [Attempt -> Import]
BY ZenonT(60) DEF Import

LEMMA PodTypes ==
  ASSUME TypeOK, NEW p \in Pod, Write(p) \/ SetRole(p) \/ CacheExpires(p)
  PROVE  TypeOK'
<1>1. CASE Write(p)
  BY <1>1, PrefixAppend DEF TypeOK, Write, hub
<1>2. CASE SetRole(p)
  BY <1>2, RoleInType DEF TypeOK, SetRole, hub
<1>3. CASE CacheExpires(p)
  BY <1>3 DEF TypeOK, CacheExpires, hub
<1> QED
  BY <1>1, <1>2, <1>3

LEMMA HubTypes ==
  ASSUME TypeOK, (\E p \in Pod : AddStandby(p)) \/ RemoveStandby \/ Swap
  PROVE  TypeOK'
<1>1. ASSUME NEW p \in Pod, AddStandby(p) PROVE TypeOK'
  <2>1. row' \in Row
    BY <1>1 DEF TypeOK, AddStandby, Recorded, Row
  <2>2. placed' \subseteq Placement /\ placed' = placed \cup {Placements(row')}
    BY <1>1, <2>1, PlacementsType DEF TypeOK, AddStandby
  <2>3. role' \in [Pod -> Role]
    BY <1>1, <2>1, PlacementsType, RoleInType DEF TypeOK, AddStandby
  <2> QED
    BY <1>1, <2>1, <2>2, <2>3 DEF TypeOK, AddStandby
<1>2. CASE RemoveStandby
  <2>1. row' \in Row
    BY <1>2 DEF TypeOK, RemoveStandby, Recorded, Row
  <2> QED
    BY <1>2, <2>1 DEF TypeOK, RemoveStandby, pods
<1>3. CASE Swap
  <2>1. row' \in Row
    BY <1>3 DEF TypeOK, Swap, Exchanged, Row
  <2>2. placed' \subseteq Placement
    BY <1>3, <2>1, PlacementsType DEF TypeOK, Swap
  <2> QED
    BY <1>3, <2>1, <2>2 DEF TypeOK, Swap, pods
<1> QED
  BY <1>1, <1>2, <1>3

LEMMA AttemptTypes ==
  ASSUME IInv, NEW w \in Attempt, Attempts(w)
  PROVE  TypeOK'
<1> USE DEF pods, hub
<1>0. TypeOK /\ sync[w] \in Sync /\ NoSync \in Sync /\ row \in Row
  BY DEF IInv, TypeOK, NoSync, Sync, Steps
<1>1. ASSUME sync[w].pc \in Paired
      PROVE  sync[w].primary \in Pod /\ log[sync[w].primary] \in Seq(Pod)
  BY <1>0, <1>1 DEF IInv, AttemptIsSound, TypeOK
<1>2. ASSUME sync[w].pc # "idle"
      PROVE  sync[w].standby \in Pod /\ log[sync[w].standby] \in Seq(Pod)
  BY <1>0, <1>2 DEF IInv, AttemptIsSound, TypeOK
<1>3. CASE Claim(w)
  <2>1. row' \in Row
    BY <1>3, <1>0 DEF Claim, Row
  <2>2. sync' \in [Attempt -> Sync]
    BY <1>3, <1>0 DEF Claim, TypeOK, Sync, NoSync, Steps, Row
  <2> QED
    BY <1>3, <1>0, <2>1, <2>2 DEF Claim, TypeOK
<1>4. CASE Pair(w)
  <2>1. sync' \in [Attempt -> Sync]
    BY <1>4, <1>0 DEF Pair, TypeOK, Sync, Steps, Row
  <2> QED
    BY <1>4, <1>0, <2>1 DEF Pair, TypeOK
<1>5. CASE ReadPrimary(w)
  <2>1. log[sync[w].primary] \in Seq(Pod)
    BY <1>5, <1>1 DEF ReadPrimary, Paired, Steps
  <2>2. sync' \in [Attempt -> Sync]
    BY <1>5, <1>0, <2>1 DEF ReadPrimary, TypeOK, Sync, Steps
  <2> QED
    BY <1>5, <1>0, <2>2 DEF ReadPrimary, TypeOK
<1>6. CASE ReadStandby(w)
  <2>1. log[sync[w].standby] \in Seq(Pod)
    BY <1>6, <1>2 DEF ReadStandby
  <2>2. sync' \in [Attempt -> Sync]
    <3>1. [sync EXCEPT ![w].pc = "record"] \in [Attempt -> Sync]
      BY <1>0, PcUpdate DEF TypeOK
    <3>2. [sync EXCEPT ![w].pc = "export", ![w].base = log[sync[w].standby]]
            \in [Attempt -> Sync]
      BY <1>0, <2>1, BaseUpdate DEF TypeOK, Steps
    <3> QED
      BY <1>6, <3>1, <3>2 DEF ReadStandby
  <2> QED
    BY <1>6, <1>0, <2>2 DEF ReadStandby, TypeOK
<1>7. CASE Export(w)
  <2>1. sync[w].primary \in Pod /\ log[sync[w].primary] \in Seq(Pod) /\ sync[w].standby \in Pod
    BY <1>7, <1>1, <1>2 DEF Export, Paired, Steps
  <2>2. sync' \in [Attempt -> Sync]
    <3>1. [sync EXCEPT ![w].pc = "record", ![w].target = log[sync[w].primary]]
            \in [Attempt -> Sync]
      BY <1>0, <2>1, TargetUpdate DEF TypeOK
    <3>2. [sync EXCEPT ![w].pc = "await", ![w].target = log[sync[w].primary]]
            \in [Attempt -> Sync]
      BY <1>0, <2>1, TargetUpdate DEF TypeOK, Steps
    <3> QED
      BY <1>7, <3>1, <3>2 DEF Export
  <2>3. import' \in [Attempt -> Import]
    <3>1. Len(sync[w].base) \in Nat
      BY <1>0 DEF Sync
    <3>2. [pc |-> "open", pod |-> sync[w].standby, signer |-> sync[w].primary,
           base |-> Len(sync[w].base), contents |-> log[sync[w].primary], next |-> 1] \in Import
      BY <2>1, <3>1 DEF Import
    <3> QED
      BY <1>7, <1>0, <3>2 DEF Export, TypeOK
  <2> QED
    BY <1>7, <1>0, <2>2, <2>3 DEF Export, TypeOK
<1>8. CASE ReadAfter(w)
  <2>1. sync' \in [Attempt -> Sync]
    BY <1>8, <1>0 DEF ReadAfter, TypeOK, Sync, Steps
  <2> QED
    BY <1>8, <1>0, <2>1 DEF ReadAfter, TypeOK
<1>9. CASE Fails(w)
  <2>1. sync' \in [Attempt -> Sync]
    BY <1>9, <1>0 DEF Fails, TypeOK, Sync, NoSync, Steps
  <2> QED
    BY <1>9, <1>0, <2>1 DEF Fails, TypeOK
<1>10. CASE Record(w)
  <2>1. row' \in Row
    <3>1. sync[w].target \in Seq(Pod)
      BY <1>0 DEF Sync
    <3>2. [row EXCEPT !.lease = NoAttempt, !.synced = sync[w].target, !.ever = TRUE] \in Row
      BY <1>0, <3>1, ZenonT(60) DEF Row
    <3>3. [row EXCEPT !.lease = NoAttempt] \in Row
      BY <1>0 DEF Row
    <3> QED
      BY <1>10, <1>0, <3>2, <3>3 DEF Record
  <2>2. sync' \in [Attempt -> Sync]
    <3>1. [sync EXCEPT ![w].pc = "failed"] \in [Attempt -> Sync]
      BY <1>0, PcUpdate DEF TypeOK
    <3>2. [sync EXCEPT ![w] = NoSync] \in [Attempt -> Sync]
      BY <1>0 DEF TypeOK
    <3> QED
      BY <1>10, <3>1, <3>2 DEF Record
  <2> QED
    BY <1>10, <1>0, <2>1, <2>2 DEF Record, TypeOK
<1>11. CASE Abandon(w)
  BY <1>11, <1>0 DEF Abandon, TypeOK
<1>12. CASE ReadRole(w)
  <2>1. PICK pc \in Steps : sync' = [sync EXCEPT ![w].pc = pc] /\ UNCHANGED <<pods, hub, import>>
    BY <1>12 DEF ReadRole, Proceeds, Steps
  <2>2. sync' \in [Attempt -> Sync]
    BY <1>0, <2>1, PcUpdate DEF TypeOK
  <2> QED
    BY <1>0, <2>1, <2>2 DEF TypeOK
<1> QED
  BY <1>3, <1>4, <1>5, <1>6, <1>7, <1>8, <1>9, <1>10, <1>11, <1>12 DEF Attempts

LEMMA ImportTypes ==
  ASSUME IInv, NEW w \in Attempt, Imports(w)
  PROVE  TypeOK'
<1> USE DEF pods, hub
<1>0. TypeOK /\ sync[w] \in Sync /\ import[w] \in Import /\ NoImport \in Import
  BY DEF IInv, TypeOK, NoImport, Import
<1>1. import[w].pc # "idle" => import[w].pod \in Pod /\ log[import[w].pod] \in Seq(Pod)
  BY <1>0 DEF IInv, ImportIsSound, TypeOK
<1>2. CASE Place(w)
  <2>1. import' \in [Attempt -> Import]
    <3>1. Len(log[import[w].pod]) + 1 \in Nat
      BY <1>2, <1>1 DEF Place
    <3>2. [import EXCEPT ![w].pc = "append", ![w].next = Len(log[import[w].pod]) + 1]
            \in [Attempt -> Import]
      BY <1>0, <3>1, PlaceUpdate DEF TypeOK
    <3> QED
      BY <1>2, <3>2 DEF Place
  <2> QED
    BY <1>2, <1>0, <2>1 DEF Place, TypeOK
<1>3. CASE ImportRecord(w)
  <2>1. import[w].pod \in Pod /\ import[w].contents[import[w].next] \in Pod
    BY <1>3, <1>0, <1>1 DEF ImportRecord, Import
  <2>2. log' \in [Pod -> Seq(Pod)]
    BY <1>3, <1>0, <2>1, PrefixAppend DEF ImportRecord, TypeOK
  <2>3. import' \in [Attempt -> Import]
    <3>1. import[w].next + 1 \in Nat
      BY <1>0 DEF Import
    <3>2. [import EXCEPT ![w].next = @ + 1] \in [Attempt -> Import]
      BY <1>0, <3>1, NextUpdate DEF TypeOK
    <3> QED
      BY <1>3, <3>2 DEF ImportRecord
  <2> QED
    BY <1>3, <1>0, <2>2, <2>3 DEF ImportRecord, TypeOK
<1>4. CASE ImportDone(w)
  <2>1. sync' \in [Attempt -> Sync]
    BY <1>4, <1>0 DEF ImportDone, TypeOK, Sync, Steps
  <2> QED
    BY <1>4, <1>0, <2>1 DEF ImportDone, TypeOK
<1>5. CASE ImportEnds(w)
  BY <1>5, <1>0 DEF ImportEnds, TypeOK
<1>6. CASE Open(w)
  <2>1. import' \in [Attempt -> Import]
    BY <1>6, <1>0 DEF Open, TypeOK, Import
  <2> QED
    BY <1>6, <1>0, <2>1 DEF Open, TypeOK
<1> QED
  BY <1>2, <1>3, <1>4, <1>5, <1>6 DEF Imports

LEMMA NextTypes == IInv /\ [Next]_vars => TypeOK'
<1> SUFFICES ASSUME IInv, [Next]_vars PROVE TypeOK'
  OBVIOUS
<1>0. TypeOK
  BY DEF IInv
<1>1. CASE UNCHANGED vars
  BY <1>0, <1>1 DEF vars, pods, hub, TypeOK
<1>2. CASE Next
  BY <1>0, <1>2, PodTypes, HubTypes, AttemptTypes, ImportTypes DEF Next
<1> QED
  BY <1>1, <1>2

-----------------------------------------------------------------------------
(* What every step keeps: logs grow, roles and the hub's epoch advance *)

LogsGrow == \A p \in Pod : log[p] \sqsubseteq log'[p]

RolesAdvance == \A p \in Pod : role'[p].epoch >= role[p].epoch

HubAdvances ==
  /\ placed \subseteq placed'
  /\ \/ row'.epoch = row.epoch /\ row'.primary = row.primary
     \/ row'.epoch > row.epoch

LEMMA SameLogs == ASSUME TypeOK, UNCHANGED log PROVE LogsGrow
BY PrefixRefl DEF TypeOK, LogsGrow

LEMMA SameRoles == ASSUME TypeOK, UNCHANGED role PROVE RolesAdvance
BY DEF TypeOK, RolesAdvance, Role

LEMMA WriteExtends ==
  ASSUME TypeOK, NEW p \in Pod, NEW x \in Pod, log' = [log EXCEPT ![p] = Append(@, x)]
  PROVE  LogsGrow
BY PrefixRefl, PrefixAppend DEF TypeOK, LogsGrow

LEMMA NextLogsGrow ==
  ASSUME IInv, [Next]_vars
  PROVE  LogsGrow
<1> USE DEF pods, hub
<1>0. TypeOK
  BY DEF IInv
<1>1. ASSUME NEW p \in Pod, Write(p) PROVE LogsGrow
  BY <1>0, <1>1, WriteExtends DEF Write
<1>2. ASSUME NEW w \in Attempt, ImportRecord(w) PROVE LogsGrow
  <2>1. import[w].pod \in Pod /\ import[w].contents[import[w].next] \in Pod
    BY <1>0, <1>2 DEF IInv, ImportIsSound, ImportRecord, TypeOK, Import
  <2> QED
    BY <1>0, <1>2, <2>1, WriteExtends DEF ImportRecord
<1>3. ASSUME NEW p \in Pod, SetRole(p) \/ CacheExpires(p) \/ AddStandby(p) PROVE UNCHANGED log
  BY <1>3 DEF SetRole, CacheExpires, AddStandby
<1>4. ASSUME RemoveStandby \/ Swap PROVE UNCHANGED log
  BY <1>4 DEF RemoveStandby, Swap
<1>5. ASSUME NEW w \in Attempt, Attempts(w) PROVE UNCHANGED log
  BY <1>5 DEF Attempts, Claim, Pair, ReadRole, Proceeds, ReadPrimary, ReadStandby, Export,
              ReadAfter, Fails, Record, Abandon
<1>6. ASSUME NEW w \in Attempt, Open(w) \/ Place(w) \/ ImportDone(w) \/ ImportEnds(w)
      PROVE  UNCHANGED log
  BY <1>6 DEF Open, Place, ImportDone, ImportEnds
<1>7. CASE UNCHANGED vars
  BY <1>0, <1>7, SameLogs DEF vars
<1> QED
  BY <1>0, <1>1, <1>2, <1>3, <1>4, <1>5, <1>6, <1>7, SameLogs DEF Next, Imports

LEMMA NextRolesAdvance ==
  ASSUME IInv, [Next]_vars
  PROVE  RolesAdvance
<1> USE DEF pods, hub
<1>0. TypeOK
  BY DEF IInv
<1>1. ASSUME NEW p \in Pod, SetRole(p) PROVE RolesAdvance
  <2>1. PICK x \in placed : x.epoch > role[p].epoch /\ role' = [role EXCEPT ![p] = RoleIn(x, p)]
    BY <1>1 DEF SetRole
  <2>2. RoleIn(x, p).epoch = x.epoch /\ x.epoch \in Nat
    BY <1>0, RoleInType DEF TypeOK, Placement
  <2> QED
    BY <1>0, <2>1, <2>2 DEF TypeOK, Role, RolesAdvance
<1>2. ASSUME NEW p \in Pod, AddStandby(p) PROVE RolesAdvance
  <2>1. CASE Known(p)
    BY <1>0, <1>2, <2>1, SameRoles DEF AddStandby
  <2>2. CASE ~Known(p)
    <3>1. role[p].epoch = 0
      BY <2>2 DEF IInv, RolesArePlaced
    <3>2. RoleIn(Placements(Recorded(p)), p).epoch \in Nat
      BY <1>0 DEF RoleIn, Placements, Recorded, TypeOK, Row
    <3> QED
      BY <1>0, <1>2, <2>2, <3>1, <3>2 DEF AddStandby, TypeOK, Role, RolesAdvance
  <2> QED
    BY <2>1, <2>2
<1>3. ASSUME NEW p \in Pod, Write(p) \/ CacheExpires(p) PROVE UNCHANGED role
  BY <1>3 DEF Write, CacheExpires
<1>4. ASSUME RemoveStandby \/ Swap PROVE UNCHANGED role
  BY <1>4 DEF RemoveStandby, Swap
<1>5. ASSUME NEW w \in Attempt, Attempts(w) PROVE UNCHANGED role
  BY <1>5 DEF Attempts, Claim, Pair, ReadRole, Proceeds, ReadPrimary, ReadStandby, Export,
              ReadAfter, Fails, Record, Abandon
<1>6. ASSUME NEW w \in Attempt, Imports(w) PROVE UNCHANGED role
  BY <1>6 DEF Imports, Open, Place, ImportRecord, ImportDone, ImportEnds
<1>7. CASE UNCHANGED vars
  BY <1>0, <1>7, SameRoles DEF vars
<1> QED
  BY <1>0, <1>1, <1>2, <1>3, <1>4, <1>5, <1>6, <1>7, SameRoles DEF Next

\* The steps that leave the placements of the hub as they are.
LEMMA SamePlacement ==
  ASSUME IInv, [Next]_vars
  PROVE  \/ \E p \in Pod : AddStandby(p)
         \/ RemoveStandby
         \/ Swap
         \/ /\ UNCHANGED placed
            /\ row'.epoch = row.epoch /\ row'.primary = row.primary /\ row'.standby = row.standby
            /\ row.standby = NoPod => row'.synced = row.synced
<1> USE DEF pods, hub
<1>0. row \in Row
  BY DEF IInv, TypeOK
<1>1. ASSUME NEW p \in Pod, Write(p) \/ SetRole(p) \/ CacheExpires(p) PROVE UNCHANGED hub
  BY <1>1 DEF Write, SetRole, CacheExpires
<1>2. ASSUME NEW w \in Attempt, Imports(w) PROVE UNCHANGED hub
  BY <1>2 DEF Imports, Open, Place, ImportRecord, ImportDone, ImportEnds
<1>3. ASSUME NEW w \in Attempt, Attempts(w), ~Claim(w), ~Record(w) PROVE UNCHANGED hub
  BY <1>3 DEF Attempts, Pair, ReadRole, Proceeds, ReadPrimary, ReadStandby, Export,
              ReadAfter, Fails, Abandon
<1>4. ASSUME NEW w \in Attempt, Claim(w) \/ Record(w)
      PROVE  /\ UNCHANGED placed
             /\ row'.epoch = row.epoch /\ row'.primary = row.primary
             /\ row'.standby = row.standby
             /\ row.standby = NoPod => row'.synced = row.synced
  <2>1. /\ UNCHANGED placed
        /\ row'.epoch = row.epoch /\ row'.primary = row.primary
        /\ row'.standby = row.standby
    BY <1>0, <1>4 DEF Claim, Record, Row
  <2>2. CASE Claim(w)
    BY <1>0, <2>1, <2>2 DEF Claim, Row
  <2>3. CASE Record(w) /\ row.standby = NoPod
    <3>1. ~Fenced(w)
      BY <2>3, PodAssumption DEF IInv, AttemptIsSound, Record, Fenced
    <3> QED
      BY <2>1, <2>3, <3>1 DEF Record
  <2> QED
    BY <1>4, <2>1, <2>2, <2>3
<1> QED
  BY <1>1, <1>2, <1>3, <1>4 DEF Next, vars

LEMMA NextHubAdvances ==
  ASSUME IInv, [Next]_vars
  PROVE  HubAdvances
<1>0. row \in Row
  BY DEF IInv, TypeOK
<1>1. ASSUME NEW p \in Pod, AddStandby(p) PROVE HubAdvances
  BY <1>1 DEF AddStandby, Recorded, HubAdvances
<1>2. CASE RemoveStandby
  BY <1>2 DEF RemoveStandby, Recorded, HubAdvances
<1>3. CASE Swap
  BY <1>0, <1>3 DEF Swap, Exchanged, HubAdvances, Row
<1> QED
  BY <1>1, <1>2, <1>3, SamePlacement DEF HubAdvances

-----------------------------------------------------------------------------
(* Histories *)

\* An append keeps the histories when the record itself continues its writer's.
LEMMA AppendKeepsHistory ==
  ASSUME TypeOK, HistoryIsKept, NEW p \in Pod, NEW x \in Pod,
         log' = [log EXCEPT ![p] = Append(@, x)], LogsGrow,
         Len(log[p]) + 1 <= Len(log'[x]),
         \A i \in 1 .. Len(log[p]) + 1 : log'[x][i] = log'[p][i]
  PROVE  HistoryIsKept'
<1>1. ASSUME NEW q \in Pod, NEW n \in 1 .. Len(log'[q])
      PROVE  /\ n <= Len(log'[log'[q][n]])
             /\ \A i \in 1 .. n : log'[log'[q][n]][i] = log'[q][i]
  <2>0. log[q] \in Seq(Pod) /\ log[p] \in Seq(Pod) /\ Len(log'[p]) = Len(log[p]) + 1 /\ log'[p][Len(log[p]) + 1] = x
    BY DEF TypeOK
  <2>1. CASE q = p /\ n = Len(log[p]) + 1
    BY <2>0, <2>1
  <2>2. CASE ~(q = p /\ n = Len(log[p]) + 1)
    <3>1. n \in 1 .. Len(log[q])
      BY <2>0, <2>2 DEF TypeOK
    <3>2. PICK y \in Pod : y = log[q][n]
      BY <2>0, <3>1
    <3>3. n <= Len(log[y]) /\ \A i \in 1 .. n : log[y][i] = log[q][i]
      BY <3>1, <3>2 DEF HistoryIsKept
    <3>4. log[y] \sqsubseteq log'[y] /\ log[q] \sqsubseteq log'[q]
      BY DEF LogsGrow
    <3>5. log[y] \in Seq(Pod) /\ log'[y] \in Seq(Pod)
      BY PrefixAppend DEF TypeOK
    <3>6. log'[q][n] = y /\ n <= Len(log'[y])
      BY <2>0, <3>1, <3>2, <3>3, <3>4, <3>5 DEF \sqsubseteq
    <3>7. ASSUME NEW i \in 1 .. n PROVE log'[y][i] = log'[q][i]
      BY <2>0, <3>1, <3>3, <3>4, <3>5 DEF \sqsubseteq
    <3> QED
      BY <3>6, <3>7
  <2> QED
    BY <2>1, <2>2
<1> QED
  BY <1>1 DEF HistoryIsKept

LEMMA NextHistory ==
  ASSUME IInv, [Next]_vars
  PROVE  HistoryIsKept'
<1> USE DEF pods, hub
<1>0. TypeOK /\ HistoryIsKept /\ LogsGrow
  BY NextLogsGrow DEF IInv
<1>1. ASSUME NEW p \in Pod, Write(p) PROVE HistoryIsKept'
  <2>1. log' = [log EXCEPT ![p] = Append(@, p)]
    BY <1>1 DEF Write
  <2>2. Len(log[p]) + 1 <= Len(log'[p])
    BY <1>0, <2>1 DEF TypeOK
  <2> QED
    BY <1>0, <2>1, <2>2, AppendKeepsHistory
<1>2. ASSUME NEW w \in Attempt, ImportRecord(w) PROVE HistoryIsKept'
  <2> DEFINE range == import[w]
             n == range.next
  <2>1. /\ range \in Import /\ range.pod \in Pod /\ range.signer \in Pod
        /\ range.contents \sqsubseteq log[range.signer]
        /\ n \in 1 .. Len(range.contents)
        /\ \A i \in 1 .. n - 1 : log[range.pod][i] = range.contents[i]
        /\ Len(log[range.pod]) = n - 1
        /\ log' = [log EXCEPT ![range.pod] = Append(@, range.contents[n])]
    BY <1>0, <1>2 DEF IInv, ImportIsSound, ImportRecord, TypeOK, Import
  <2>2. PICK x \in Pod : x = range.contents[n]
    BY <2>1 DEF Import
  <2>3. log[range.signer] \in Seq(Pod) /\ log[range.pod] \in Seq(Pod) /\ log[x] \in Seq(Pod)
    BY <1>0, <2>1 DEF TypeOK
  <2>4. /\ n \in 1 .. Len(log[range.signer])
        /\ \A i \in 1 .. n : log[range.signer][i] = range.contents[i]
    BY <2>1, <2>3 DEF Import, \sqsubseteq
  <2>5. n <= Len(log[x]) /\ \A i \in 1 .. n : log[x][i] = log[range.signer][i]
    <3>1. x = log[range.signer][n]
      <4>1. n \in 1 .. n
        BY <2>4
      <4> HIDE DEF range, n
      <4> QED
        BY <2>2, <2>4, <4>1
    <3> QED
      BY <1>0, <2>1, <2>4, <3>1 DEF HistoryIsKept
  <2>6. log[x] \sqsubseteq log'[x] /\ log'[x] \in Seq(Pod)
    BY <1>0, <2>1, <2>2, <2>3, PrefixAppend DEF LogsGrow, TypeOK
  <2>7. n <= Len(log'[x]) /\ \A i \in 1 .. n : log'[x][i] = log[x][i]
    BY <2>1, <2>3, <2>5, <2>6 DEF \sqsubseteq
  <2>8. log'[range.pod] = Append(log[range.pod], x)
    BY <1>0, <2>1, <2>2 DEF TypeOK
  <2>9. ASSUME NEW i \in 1 .. n PROVE log'[range.pod][i] = range.contents[i]
    BY <2>1, <2>2, <2>3, <2>8
  <2>10. ASSUME NEW i \in 1 .. n PROVE log'[x][i] = log'[range.pod][i]
    BY <2>4, <2>5, <2>7, <2>9
  <2>11. Len(log[range.pod]) + 1 = n
    BY <2>1
  <2> HIDE DEF range, n
  <2>12. log' = [log EXCEPT ![range.pod] = Append(@, x)]
    BY <2>1, <2>2
  <2> QED
    BY <1>0, <2>1, <2>7, <2>10, <2>11, <2>12, AppendKeepsHistory
<1>3. ASSUME UNCHANGED log PROVE HistoryIsKept'
  BY <1>0, <1>3 DEF HistoryIsKept
<1>4. ASSUME NEW p \in Pod, SetRole(p) \/ CacheExpires(p) \/ AddStandby(p) PROVE UNCHANGED log
  BY <1>4 DEF SetRole, CacheExpires, AddStandby
<1>5. ASSUME RemoveStandby \/ Swap PROVE UNCHANGED log
  BY <1>5 DEF RemoveStandby, Swap
<1>6. ASSUME NEW w \in Attempt, Attempts(w) PROVE UNCHANGED log
  BY <1>6 DEF Attempts, Claim, Pair, ReadRole, Proceeds, ReadPrimary, ReadStandby, Export,
              ReadAfter, Fails, Record, Abandon
<1>7. ASSUME NEW w \in Attempt, Open(w) \/ Place(w) \/ ImportDone(w) \/ ImportEnds(w)
      PROVE  UNCHANGED log
  BY <1>7 DEF Open, Place, ImportDone, ImportEnds
<1> QED
  BY <1>1, <1>2, <1>3, <1>4, <1>5, <1>6, <1>7 DEF Next, Imports, vars

-----------------------------------------------------------------------------
(* The hub's progress *)

\* A result that the fences let through was read from the pair that is recorded.
LEMMA RecordedIsShared ==
  ASSUME IInv, NEW w \in Attempt, sync[w].pc = "record", Fenced(w)
  PROVE  /\ row.primary \in Pod /\ row.standby \in Pod
         /\ sync[w].primary = row.primary /\ sync[w].standby = row.standby
         /\ sync[w].target \in Seq(Pod)
         /\ sync[w].target \sqsubseteq log[row.primary]
         /\ sync[w].target \sqsubseteq log[row.standby]
<1>1. sync[w].pc \in Paired /\ sync[w].pc # "idle"
  BY DEF Paired
<1>2. AttemptIsSound(w) /\ sync[w] \in Sync
  BY DEF IInv, TypeOK
<1> QED
  BY <1>1, <1>2 DEF AttemptIsSound, Fenced, Sync

LEMMA GrownPrefix ==
  ASSUME TypeOK, TypeOK', LogsGrow, NEW s \in Seq(Pod), NEW p \in Pod, s \sqsubseteq log[p]
  PROVE  s \sqsubseteq log'[p]
BY PrefixTrans DEF TypeOK, LogsGrow

LEMMA NextSynced ==
  ASSUME IInv, [Next]_vars, TypeOK'
  PROVE  SyncedIsShared'
<1> USE DEF pods, hub
<1>0. TypeOK /\ SyncedIsShared /\ LogsGrow /\ row \in Row /\ row' \in Row
  BY NextLogsGrow DEF IInv, TypeOK
<1>1. ASSUME NEW p \in Pod, AddStandby(p) PROVE SyncedIsShared'
  BY <1>0, <1>1, PrefixEmpty DEF AddStandby, Recorded, SyncedIsShared, TypeOK, Row
<1>2. CASE RemoveStandby
  BY <1>0, <1>2, PrefixEmpty DEF RemoveStandby, Recorded, SyncedIsShared, TypeOK, Row
<1>3. CASE Swap
  BY <1>0, <1>3 DEF Swap, Exchanged, SyncedIsShared, Row
<1>4. ASSUME NEW w \in Attempt, sync[w].pc = "record", Fenced(w), Record(w)
      PROVE  SyncedIsShared'
  <2>1. UNCHANGED log /\ row'.primary = row.primary /\ row'.standby = row.standby
    BY <1>0, <1>4 DEF Record, Row
  <2>2. row'.synced = row.synced \/ row'.synced = sync[w].target
    BY <1>0, <1>4 DEF Record, Row
  <2> QED
    BY <1>0, <1>4, <2>1, <2>2, RecordedIsShared DEF SyncedIsShared
<1>5. ASSUME row'.primary = row.primary, row'.standby = row.standby, row'.synced = row.synced
      PROVE  SyncedIsShared'
  BY <1>0, <1>5, GrownPrefix DEF SyncedIsShared, Row
<1>6. ASSUME NEW w \in Attempt, Claim(w) \/ (Record(w) /\ ~(sync[w].pc = "record" /\ Fenced(w)))
      PROVE  row'.primary = row.primary /\ row'.standby = row.standby /\ row'.synced = row.synced
  BY <1>0, <1>6 DEF Claim, Record, Row
<1>7. ASSUME NEW w \in Attempt, Attempts(w), ~Claim(w), ~Record(w) PROVE UNCHANGED row
  BY <1>7 DEF Attempts, Pair, ReadRole, Proceeds, ReadPrimary, ReadStandby, Export,
              ReadAfter, Fails, Abandon
<1>8. ASSUME NEW w \in Attempt, Imports(w) PROVE UNCHANGED row
  BY <1>8 DEF Imports, Open, Place, ImportRecord, ImportDone, ImportEnds
<1>9. ASSUME NEW p \in Pod, Write(p) \/ SetRole(p) \/ CacheExpires(p) PROVE UNCHANGED row
  BY <1>9 DEF Write, SetRole, CacheExpires
<1> QED
  BY <1>1, <1>2, <1>3, <1>4, <1>5, <1>6, <1>7, <1>8, <1>9 DEF Next, vars

-----------------------------------------------------------------------------
(* The attempts and the imports *)

\* An attempt that a step leaves alone stays sound.
LEMMA UntouchedAttempt ==
  ASSUME IInv, [Next]_vars, TypeOK', NEW w \in Attempt, sync'[w] = sync[w]
  PROVE  AttemptIsSound(w)'
<1>0. /\ TypeOK /\ AttemptIsSound(w) /\ LogsGrow /\ RolesAdvance /\ HubAdvances
      /\ row \in Row /\ row' \in Row /\ sync[w] \in Sync
  BY NextLogsGrow, NextRolesAdvance, NextHubAdvances DEF IInv, TypeOK
<1>1. sync[w].pc # "idle" => sync[w].standby \in Pod
  BY <1>0 DEF AttemptIsSound
<1>2. ASSUME sync[w].pc \in Paired
      PROVE  /\ sync[w].primary \in Pod
             /\ sync[w].target \sqsubseteq log'[sync[w].primary]
             /\ sync[w].base \sqsubseteq log'[sync[w].standby]
             /\ sync[w].epoch = row'.epoch => sync[w].primary = row'.primary
  <2>1. sync[w].primary \in Pod /\ sync[w].standby \in Pod
    BY <1>0, <1>1, <1>2 DEF AttemptIsSound, Paired, Steps
  <2>2. sync[w].target \in Seq(Pod) /\ sync[w].base \in Seq(Pod)
    BY <1>0 DEF Sync
  <2>3. sync[w].target \sqsubseteq log'[sync[w].primary] /\ sync[w].base \sqsubseteq log'[sync[w].standby]
    BY <1>0, <1>2, <2>1, <2>2, GrownPrefix DEF AttemptIsSound
  <2>4. sync[w].epoch = row'.epoch => sync[w].primary = row'.primary
    BY <1>0, <1>2 DEF AttemptIsSound, HubAdvances, Row, Sync
  <2> QED
    BY <2>1, <2>3, <2>4
<1>3. ASSUME sync[w].pc \in Paired \ {"primary"}
      PROVE  role'[sync[w].primary].epoch >= sync[w].epoch
  <2>1. /\ sync[w].primary \in Pod /\ role[sync[w].primary].epoch >= sync[w].epoch
        /\ role'[sync[w].primary].epoch >= role[sync[w].primary].epoch
    BY <1>0, <1>3 DEF AttemptIsSound, RolesAdvance
  <2>2. role[sync[w].primary].epoch \in Nat /\ role'[sync[w].primary].epoch \in Nat /\ sync[w].epoch \in Nat
    BY <1>0, <2>1 DEF TypeOK, Role, Sync
  <2> QED
    BY <2>1, <2>2
<1>4. ASSUME sync[w].pc \in Paired \ {"primary", "primary_head", "standby"}
      PROVE  role'[sync[w].standby].epoch >= sync[w].epoch
  <2>1. /\ sync[w].standby \in Pod /\ role[sync[w].standby].epoch >= sync[w].epoch
        /\ role'[sync[w].standby].epoch >= role[sync[w].standby].epoch
    BY <1>0, <1>1, <1>4 DEF AttemptIsSound, RolesAdvance, Paired, Steps
  <2>2. role[sync[w].standby].epoch \in Nat /\ role'[sync[w].standby].epoch \in Nat /\ sync[w].epoch \in Nat
    BY <1>0, <2>1 DEF TypeOK, Role, Sync
  <2> QED
    BY <2>1, <2>2
<1>5. ASSUME sync[w].pc = "record" PROVE sync[w].target \sqsubseteq log'[sync[w].standby]
  <2>1. sync[w].standby \in Pod /\ sync[w].target \sqsubseteq log[sync[w].standby]
    BY <1>0, <1>1, <1>5 DEF AttemptIsSound
  <2> QED
    BY <1>0, <2>1, GrownPrefix DEF Sync
<1>6. sync[w].epoch <= row'.epoch
  BY <1>0 DEF AttemptIsSound, HubAdvances, Row, Sync
<1>7. sync[w].pc = "pair" => sync[w].base = <<>> /\ sync[w].target = <<>>
  BY <1>0 DEF AttemptIsSound
<1> QED
  BY <1>1, <1>2, <1>3, <1>4, <1>5, <1>6, <1>7 DEF AttemptIsSound

\* An attempt that is about to read the pods, or that is over, has nothing to keep.
LEMMA UnpairedAttempt ==
  ASSUME NEW w \in Attempt, sync'[w].pc \in {"idle", "pair", "failed"},
         sync'[w].pc # "idle" => sync'[w].standby \in Pod,
         sync'[w].pc = "pair" => sync'[w].base = <<>> /\ sync'[w].target = <<>>,
         sync'[w].epoch <= row'.epoch
  PROVE  AttemptIsSound(w)'
BY DEF AttemptIsSound, Paired, Steps

\* Only the step of the attempt moves, from one at which it knows its primary.
LEMMA MovedAttempt ==
  ASSUME IInv, NEW w \in Attempt, sync[w].pc \in Paired \ {"record"},
         NEW to \in Paired \ {"primary", "record"},
         sync' = [sync EXCEPT ![w].pc = to], UNCHANGED <<row, log, role>>,
         role[sync[w].primary].epoch >= sync[w].epoch,
         to \notin {"primary_head", "standby"} => role[sync[w].standby].epoch >= sync[w].epoch
  PROVE  AttemptIsSound(w)'
<1>0. AttemptIsSound(w) /\ sync[w] \in Sync /\ sync \in [Attempt -> Sync]
  BY DEF IInv, TypeOK
<1>1. /\ sync'[w].pc = to /\ sync'[w].standby = sync[w].standby
      /\ sync'[w].epoch = sync[w].epoch /\ sync'[w].primary = sync[w].primary
      /\ sync'[w].target = sync[w].target /\ sync'[w].base = sync[w].base
  BY <1>0 DEF Sync
<1>2. sync[w].pc # "idle" /\ to \notin {"idle", "pair", "record"}
  BY DEF Paired, Steps
<1> QED
  BY <1>0, <1>1, <1>2 DEF AttemptIsSound

\* What the pod answers of its role is what the invariant keeps of it.
LEMMA ReadRoleIsSound ==
  ASSUME IInv, NEW w \in Attempt, ReadRole(w)
  PROVE  AttemptIsSound(w)'
<1> USE DEF pods, hub, Paired, Steps
<1>0. AttemptIsSound(w)
  BY DEF IInv
<1>1. CASE Proceeds(w, "primary", "primary_head")
  <2>1. Speaks(sync[w].primary, "primary", sync[w].epoch)
    BY <1>1 DEF ReadRole, Proceeds
  <2> QED
    BY <1>1, <2>1, MovedAttempt DEF Proceeds, Speaks
<1>2. CASE Proceeds(w, "standby", "standby_head")
  <2>1. Speaks(sync[w].standby, "standby", sync[w].epoch)
    BY <1>2 DEF ReadRole, Proceeds
  <2> QED
    BY <1>0, <1>2, <2>1, MovedAttempt DEF Proceeds, Speaks, AttemptIsSound
<1>3. CASE Proceeds(w, "after", "after_head")
  BY <1>0, <1>3, MovedAttempt DEF Proceeds, AttemptIsSound
<1>4. CASE Proceeds(w, "export", "export_records")
  BY <1>0, <1>4, MovedAttempt DEF Proceeds, AttemptIsSound
<1> QED
  BY <1>1, <1>2, <1>3, <1>4 DEF ReadRole

LEMMA OwnAttempt ==
  ASSUME IInv, NEW w \in Attempt, Attempts(w), TypeOK'
  PROVE  AttemptIsSound(w)'
<1> USE DEF pods, hub
<1>0. /\ TypeOK /\ AttemptIsSound(w) /\ row \in Row /\ sync[w] \in Sync /\ PlacedIsSound
      /\ sync \in [Attempt -> Sync] /\ \A p \in Pod : log[p] \in Seq(Pod)
  BY DEF IInv, TypeOK
<1>1. CASE Claim(w)
  <2>1. /\ sync'[w].pc = "pair" /\ sync'[w].standby = row.standby /\ sync'[w].epoch = row.epoch
        /\ row'.epoch = row.epoch /\ row.standby \in Pod
        /\ sync'[w].base = <<>> /\ sync'[w].target = <<>>
    BY <1>0, <1>1 DEF Claim, NoSync, Row
  <2> QED
    BY <1>0, <2>1, UnpairedAttempt DEF Row
<1>2. CASE Pair(w)
  <2>1. /\ sync'[w].pc = "primary" /\ sync'[w].standby = sync[w].standby
        /\ sync'[w].epoch = row.epoch /\ sync'[w].primary = row.primary
        /\ sync'[w].target = sync[w].target /\ sync'[w].base = sync[w].base
        /\ UNCHANGED <<row, log>> /\ sync[w].standby \in Pod /\ row.primary \in Pod
    BY <1>0, <1>2 DEF Pair, AttemptIsSound, Sync, Row
  <2>2. sync[w].target = <<>> /\ sync[w].base = <<>>
    BY <1>0, <1>2 DEF Pair, AttemptIsSound
  <2> QED
    BY <1>0, <2>1, <2>2, PrefixEmpty DEF AttemptIsSound, Row
<1>3. CASE ReadPrimary(w)
  <2> DEFINE p == sync[w].primary
  <2>1. /\ sync'[w].pc = "standby" /\ sync'[w].standby = sync[w].standby
        /\ sync'[w].epoch = sync[w].epoch /\ sync'[w].primary = p
        /\ sync'[w].target = log[p] /\ sync'[w].base = sync[w].base
        /\ UNCHANGED <<row, log, role>>
    BY <1>0, <1>3 DEF ReadPrimary, Sync
  <2>2. /\ sync[w].pc \in Paired \ {"primary"} /\ sync[w].pc # "idle"
        /\ role[p].epoch >= sync[w].epoch
    BY <1>0, <1>3 DEF ReadPrimary, Paired, Steps, AttemptIsSound
  <2> QED
    BY <1>0, <2>1, <2>2, PrefixRefl DEF AttemptIsSound
<1>4. CASE ReadStandby(w)
  <2> DEFINE q == sync[w].standby
  <2>1. /\ sync[w].pc = "standby_head"
        /\ sync[w].pc \in Paired \ {"primary", "primary_head", "standby"}
        /\ role[q].epoch >= sync[w].epoch /\ UNCHANGED <<row, log, role>>
    BY <1>0, <1>4 DEF ReadStandby, Paired, Steps, AttemptIsSound
  <2>2. q \in Pod /\ log[q] \sqsubseteq log[q]
    BY <1>0, <2>1, PrefixRefl DEF AttemptIsSound
  <2>3. CASE sync' = [sync EXCEPT ![w].pc = "record"] /\ log[q] = sync[w].target
    <3>1. /\ sync'[w].pc = "record" /\ sync'[w].standby = q
          /\ sync'[w].epoch = sync[w].epoch /\ sync'[w].primary = sync[w].primary
          /\ sync'[w].target = sync[w].target /\ sync'[w].base = sync[w].base
      BY <1>0, <2>3 DEF Sync
    <3> QED
      BY <1>0, <2>1, <2>2, <2>3, <3>1 DEF AttemptIsSound
  <2>4. CASE sync' = [sync EXCEPT ![w].pc = "export", ![w].base = log[q]]
    <3>1. /\ sync'[w].pc = "export" /\ sync'[w].standby = q
          /\ sync'[w].epoch = sync[w].epoch /\ sync'[w].primary = sync[w].primary
          /\ sync'[w].target = sync[w].target /\ sync'[w].base = log[q]
      BY <1>0, <2>4 DEF Sync
    <3> QED
      BY <1>0, <2>1, <2>2, <3>1 DEF AttemptIsSound
  <2> QED
    BY <1>4, <2>3, <2>4 DEF ReadStandby
<1>5. CASE Export(w)
  <2> DEFINE p == sync[w].primary
  <2>1. /\ sync[w].pc \in Paired \ {"primary", "primary_head", "standby"} /\ sync[w].pc # "idle"
        /\ UNCHANGED <<row, log, role>>
    BY <1>5 DEF Export, Paired, Steps
  <2>2. p \in Pod /\ log[p] \sqsubseteq log[p]
    BY <1>0, <2>1, PrefixRefl DEF AttemptIsSound
  <2>3. CASE /\ sync' = [sync EXCEPT ![w].pc = "record", ![w].target = log[p]]
             /\ log[p] = sync[w].base
    <3>1. /\ sync'[w].pc = "record" /\ sync'[w].standby = sync[w].standby
          /\ sync'[w].epoch = sync[w].epoch /\ sync'[w].primary = p
          /\ sync'[w].target = log[p] /\ sync'[w].base = sync[w].base
      BY <1>0, <2>3 DEF Sync
    <3> QED
      BY <1>0, <2>1, <2>2, <2>3, <3>1 DEF AttemptIsSound
  <2>4. CASE sync' = [sync EXCEPT ![w].pc = "await", ![w].target = log[p]]
    <3>1. /\ sync'[w].pc = "await" /\ sync'[w].standby = sync[w].standby
          /\ sync'[w].epoch = sync[w].epoch /\ sync'[w].primary = p
          /\ sync'[w].target = log[p] /\ sync'[w].base = sync[w].base
      BY <1>0, <2>4 DEF Sync
    <3> QED
      BY <1>0, <2>1, <2>2, <3>1 DEF AttemptIsSound
  <2> QED
    BY <1>5, <2>3, <2>4 DEF Export
<1>6. CASE ReadAfter(w)
  <2> DEFINE q == sync[w].standby
  <2>1. /\ sync[w].pc \in Paired \ {"primary", "primary_head", "standby"} /\ UNCHANGED <<row, log, role>>
        /\ log[q] = sync[w].target /\ sync[w].pc # "idle"
    BY <1>6 DEF ReadAfter, Paired, Steps
  <2>2. q \in Pod /\ log[q] \sqsubseteq log[q]
    BY <1>0, <2>1, PrefixRefl DEF AttemptIsSound
  <2>3. /\ sync'[w].pc = "record" /\ sync'[w].standby = q
        /\ sync'[w].epoch = sync[w].epoch /\ sync'[w].primary = sync[w].primary
        /\ sync'[w].target = sync[w].target /\ sync'[w].base = sync[w].base
    BY <1>0, <1>6 DEF ReadAfter, Sync
  <2> QED
    BY <1>0, <2>1, <2>2, <2>3 DEF AttemptIsSound
<1>7. CASE Fails(w)
  <2>1. /\ sync'[w].pc = "failed" /\ sync'[w].standby = sync[w].standby
        /\ sync'[w].epoch = sync[w].epoch /\ UNCHANGED row /\ sync[w].pc # "idle"
    BY <1>0, <1>7 DEF Fails, NoSync, Steps
  <2> QED
    BY <1>0, <2>1, UnpairedAttempt DEF AttemptIsSound
<1>8. ASSUME sync'[w] = NoSync, row'.epoch \in Nat PROVE AttemptIsSound(w)'
  BY <1>8, UnpairedAttempt DEF NoSync
<1>9. row'.epoch \in Nat
  BY DEF TypeOK, Row
<1>10. CASE Record(w)
  <2>1. CASE sync' = [sync EXCEPT ![w] = NoSync]
    BY <1>0, <1>8, <1>9, <2>1
  <2>2. CASE /\ sync[w].pc = "record" /\ sync' = [sync EXCEPT ![w].pc = "failed"]
             /\ UNCHANGED row
    <3>1. /\ sync'[w].pc = "failed" /\ sync'[w].standby = sync[w].standby
          /\ sync'[w].epoch = sync[w].epoch
      BY <1>0, <2>2 DEF Sync
    <3> QED
      BY <1>0, <2>2, <3>1, UnpairedAttempt DEF AttemptIsSound
  <2> QED
    BY <1>10, <2>1, <2>2 DEF Record
<1>11. CASE Abandon(w)
  BY <1>0, <1>8, <1>9, <1>11 DEF Abandon
<1>12. CASE ReadRole(w)
  BY <1>12, ReadRoleIsSound
<1> QED
  BY <1>1, <1>2, <1>3, <1>4, <1>5, <1>6, <1>7, <1>10, <1>11, <1>12 DEF Attempts

LEMMA AwaitedAttempt ==
  ASSUME IInv, NEW w \in Attempt, ImportDone(w), TypeOK'
  PROVE  AttemptIsSound(w)'
<1> USE DEF pods, hub
<1>0. /\ TypeOK /\ AttemptIsSound(w) /\ sync[w] \in Sync /\ sync \in [Attempt -> Sync]
      /\ UNCHANGED <<row, log, role>>
  BY DEF IInv, TypeOK, ImportDone
<1>1. CASE sync' = sync
  BY <1>0, <1>1 DEF AttemptIsSound
<1>2. CASE sync[w].pc = "await" /\ sync' = [sync EXCEPT ![w].pc = "after"]
  <2>1. /\ sync'[w].pc = "after" /\ sync'[w].standby = sync[w].standby
        /\ sync'[w].epoch = sync[w].epoch /\ sync'[w].primary = sync[w].primary
        /\ sync'[w].target = sync[w].target /\ sync'[w].base = sync[w].base
    BY <1>0, <1>2 DEF Sync
  <2>2. {"await", "after"} \subseteq Paired \ {"primary", "primary_head", "standby"}
    BY DEF Paired, Steps
  <2> QED
    BY <1>0, <1>2, <2>1, <2>2 DEF AttemptIsSound
<1> QED
  BY <1>1, <1>2 DEF ImportDone

LEMMA NextAttempts ==
  ASSUME IInv, [Next]_vars, TypeOK', NEW w \in Attempt
  PROVE  AttemptIsSound(w)'
<1> USE DEF pods, hub
<1>0. sync \in [Attempt -> Sync]
  BY DEF IInv, TypeOK
<1>1. ASSUME NEW p \in Pod, Write(p) \/ SetRole(p) \/ CacheExpires(p) \/ AddStandby(p)
      PROVE  UNCHANGED sync
  BY <1>1 DEF Write, SetRole, CacheExpires, AddStandby
<1>2. ASSUME RemoveStandby \/ Swap PROVE UNCHANGED sync
  BY <1>2 DEF RemoveStandby, Swap
<1>3. ASSUME NEW v \in Attempt, Attempts(v), v # w PROVE sync'[w] = sync[w]
  BY <1>0, <1>3 DEF Attempts, Claim, Pair, ReadRole, Proceeds, ReadPrimary, ReadStandby, Export,
              ReadAfter, Fails, Record, Abandon
<1>4. ASSUME NEW v \in Attempt, Imports(v), ~(v = w /\ ImportDone(v)) PROVE sync'[w] = sync[w]
  BY <1>0, <1>4 DEF Imports, Open, Place, ImportRecord, ImportDone, ImportEnds
<1> QED
  BY <1>1, <1>2, <1>3, <1>4, UntouchedAttempt, OwnAttempt, AwaitedAttempt DEF Next, vars

LEMMA UntouchedImport ==
  ASSUME IInv, [Next]_vars, TypeOK', NEW w \in Attempt, import'[w] = import[w]
  PROVE  ImportIsSound(w)'
<1>0. TypeOK /\ ImportIsSound(w) /\ LogsGrow /\ import[w] \in Import
  BY NextLogsGrow DEF IInv, TypeOK
<1>1. ASSUME import[w].pc # "idle"
      PROVE  /\ import[w].pod \in Pod /\ import[w].signer \in Pod
             /\ import[w].contents \sqsubseteq log'[import[w].signer]
  <2>1. /\ import[w].pod \in Pod /\ import[w].signer \in Pod
        /\ import[w].contents \sqsubseteq log[import[w].signer]
    BY <1>0, <1>1 DEF ImportIsSound
  <2> QED
    BY <1>0, <2>1, GrownPrefix DEF Import
<1>2. ASSUME import[w].pc = "append"
      PROVE  /\ import[w].next - 1 <= Len(log'[import[w].pod])
             /\ import[w].next \in 1 .. Len(import[w].contents) + 1
             /\ \A i \in 1 .. import[w].next - 1 :
                  log'[import[w].pod][i] = import[w].contents[i]
  <2>1. /\ import[w].pod \in Pod /\ import[w].next - 1 <= Len(log[import[w].pod])
        /\ import[w].next \in 1 .. Len(import[w].contents) + 1
        /\ \A i \in 1 .. import[w].next - 1 : log[import[w].pod][i] = import[w].contents[i]
    BY <1>0, <1>2 DEF ImportIsSound
  <2>2. /\ log[import[w].pod] \sqsubseteq log'[import[w].pod]
        /\ log[import[w].pod] \in Seq(Pod) /\ log'[import[w].pod] \in Seq(Pod)
    BY <1>0, <2>1 DEF LogsGrow, TypeOK
  <2> QED
    BY <1>0, <2>1, <2>2 DEF \sqsubseteq, Import
<1> QED
  BY <1>1, <1>2 DEF ImportIsSound

LEMMA OwnImport ==
  ASSUME IInv, [Next]_vars, TypeOK', NEW w \in Attempt, Export(w) \/ Imports(w)
  PROVE  ImportIsSound(w)'
<1> USE DEF pods, hub
<1>0. /\ TypeOK /\ ImportIsSound(w) /\ AttemptIsSound(w) /\ import \in [Attempt -> Import]
      /\ import[w] \in Import /\ LogsGrow
  BY NextLogsGrow DEF IInv, TypeOK
<1>1. CASE Export(w)
  <2>1. CASE UNCHANGED import
    BY <2>1, UntouchedImport
  <2>2. CASE ~UNCHANGED import
    <3>1. /\ import'[w].pc = "open" /\ import'[w].pod = sync[w].standby
          /\ import'[w].signer = sync[w].primary /\ import'[w].contents = log[sync[w].primary]
          /\ UNCHANGED log
      BY <1>0, <1>1, <2>2 DEF Export
    <3>2. sync[w].standby \in Pod /\ sync[w].primary \in Pod
      BY <1>0, <1>1 DEF Export, AttemptIsSound, Paired, Steps
    <3>3. log[sync[w].primary] \sqsubseteq log[sync[w].primary]
      BY <1>0, <3>2, PrefixRefl DEF TypeOK
    <3> QED
      BY <3>1, <3>2, <3>3 DEF ImportIsSound
  <2> QED
    BY <2>1, <2>2
<1>2. CASE Place(w)
  <2> DEFINE q == import[w].pod
             n == Len(log[q]) + 1
  <2>1. /\ q \in Pod /\ import[w].signer \in Pod /\ log[q] \sqsubseteq import[w].contents
        /\ import[w].contents \sqsubseteq log[import[w].signer] /\ UNCHANGED log
    BY <1>0, <1>2 DEF Place, ImportIsSound
  <2>2. /\ import'[w].pc = "append" /\ import'[w].pod = q /\ import'[w].next = n
        /\ import'[w].signer = import[w].signer /\ import'[w].contents = import[w].contents
    BY <1>0, <1>2 DEF Place, Import
  <2>3. /\ n \in 1 .. Len(import[w].contents) + 1 /\ n - 1 <= Len(log[q])
        /\ \A i \in 1 .. n - 1 : log[q][i] = import[w].contents[i]
    BY <1>0, <2>1 DEF \sqsubseteq, Import, TypeOK
  <2> HIDE DEF q, n
  <2> QED
    BY <2>1, <2>2, <2>3 DEF ImportIsSound
<1>3. CASE ImportRecord(w)
  <2> DEFINE q == import[w].pod
             n == import[w].next
             x == import[w].contents[n]
  <2>1. /\ q \in Pod /\ import[w].signer \in Pod /\ import[w].pc = "append"
        /\ import[w].contents \sqsubseteq log[import[w].signer]
        /\ n \in 1 .. Len(import[w].contents) /\ Len(log[q]) = n - 1
        /\ \A i \in 1 .. n - 1 : log[q][i] = import[w].contents[i]
    BY <1>0, <1>3 DEF ImportRecord, ImportIsSound, Import
  <2>2. /\ import'[w].pc = "append" /\ import'[w].pod = q /\ import'[w].next = n + 1
        /\ import'[w].signer = import[w].signer /\ import'[w].contents = import[w].contents
    BY <1>0, <1>3, <2>1 DEF ImportRecord, Import
  <2>3. import[w].contents \sqsubseteq log'[import[w].signer]
    BY <1>0, <2>1, GrownPrefix DEF Import
  <2>4. log[q] \in Seq(Pod) /\ log'[q] = Append(log[q], x)
    BY <1>0, <1>3, <2>1 DEF ImportRecord, TypeOK
  <2>5. Len(log'[q]) = n /\ \A i \in 1 .. n : log'[q][i] = import[w].contents[i]
    <3>1. n \in Nat /\ n >= 1
      BY <2>1
    <3>2. Len(log'[q]) = n
      BY <2>1, <2>4, <3>1
    <3>3. ASSUME NEW i \in 1 .. n - 1 PROVE log'[q][i] = import[w].contents[i]
      BY <2>1, <2>4, <3>1
    <3>4. log'[q][n] = x
      <4>1. n = Len(log[q]) + 1
        BY <2>1, <2>4, <3>1
      <4> HIDE DEF x
      <4> QED
        BY <2>4, <4>1
    <3>5. ASSUME NEW i \in 1 .. n PROVE i \in 1 .. n - 1 \/ i = n
      BY <3>1
    <3> QED
      BY <3>2, <3>3, <3>4, <3>5
  <2>6. (n + 1) - 1 = n /\ n + 1 \in 1 .. Len(import[w].contents) + 1 /\ n <= n
    BY <1>0, <2>1 DEF Import
  <2> HIDE DEF q, n, x
  <2> QED
    BY <2>1, <2>2, <2>3, <2>5, <2>6 DEF ImportIsSound
<1>4. CASE ImportDone(w) \/ ImportEnds(w)
  <2>1. import'[w] = NoImport
    BY <1>0, <1>4 DEF ImportDone, ImportEnds
  <2> QED
    BY <2>1 DEF NoImport, ImportIsSound
<1>5. CASE Open(w)
  <2>1. /\ import'[w].pc = "place" /\ import'[w].pod = import[w].pod
        /\ import'[w].signer = import[w].signer /\ import'[w].contents = import[w].contents
        /\ UNCHANGED log /\ import[w].pc # "idle"
    BY <1>0, <1>5 DEF Open, Import
  <2> QED
    BY <1>0, <2>1 DEF ImportIsSound
<1> QED
  BY <1>1, <1>2, <1>3, <1>4, <1>5 DEF Imports

LEMMA NextImports ==
  ASSUME IInv, [Next]_vars, TypeOK', NEW w \in Attempt
  PROVE  ImportIsSound(w)'
<1> USE DEF pods, hub
<1>0. import \in [Attempt -> Import]
  BY DEF IInv, TypeOK
<1>1. ASSUME NEW p \in Pod, Write(p) \/ SetRole(p) \/ CacheExpires(p) \/ AddStandby(p)
      PROVE  UNCHANGED import
  BY <1>1 DEF Write, SetRole, CacheExpires, AddStandby
<1>2. ASSUME RemoveStandby \/ Swap PROVE UNCHANGED import
  BY <1>2 DEF RemoveStandby, Swap
<1>3. ASSUME NEW v \in Attempt, Attempts(v), ~(v = w /\ Export(v)) PROVE import'[w] = import[w]
  BY <1>0, <1>3 DEF Attempts, Claim, Pair, ReadRole, Proceeds, ReadPrimary, ReadStandby, Export,
              ReadAfter, Fails, Record, Abandon
<1>4. ASSUME NEW v \in Attempt, Imports(v), v # w PROVE import'[w] = import[w]
  BY <1>0, <1>4 DEF Imports, Open, Place, ImportRecord, ImportDone, ImportEnds
<1> QED
  BY <1>1, <1>2, <1>3, <1>4, UntouchedImport, OwnImport DEF Next, vars

-----------------------------------------------------------------------------
(* The placements and the roles *)

LEMMA NextPlaced ==
  ASSUME IInv, [Next]_vars, TypeOK'
  PROVE  PlacedIsSound'
<1>0. /\ PlacedIsSound /\ row \in Row /\ row' \in Row /\ TypeOK
      /\ \A x \in placed : x \in Placement
  BY DEF IInv, TypeOK
<1>1. PICK now \in placed : now.epoch = row.epoch /\ now.primary = row.primary
                          /\ row.standby \in {now.standby, NoPod}
  BY <1>0 DEF PlacedIsSound
<1>2. ASSUME NEW p \in Pod, AddStandby(p) PROVE PlacedIsSound'
  <2> DEFINE new == Placements(Recorded(p))
  <2>1. /\ row' = Recorded(p) /\ placed' = placed \cup {new} /\ p # row.primary
    BY <1>2 DEF AddStandby
  <2>2. /\ new.epoch = row.epoch /\ new.primary = row.primary /\ new.standby = p
        /\ row'.epoch = row.epoch /\ row'.primary = row.primary /\ row'.standby = p
        /\ row'.synced = <<>>
    BY <2>1 DEF Placements, Recorded
  <2> HIDE DEF new
  <2>3. new \in placed'
    BY <2>1
  <2>4. ASSUME NEW x \in placed', NEW y \in placed', x.epoch = y.epoch PROVE x.primary = y.primary
    BY <1>0, <1>1, <2>1, <2>2, <2>4 DEF PlacedIsSound
  <2>5. ASSUME NEW x \in placed' PROVE x.epoch <= row'.epoch
    BY <1>0, <2>1, <2>2 DEF PlacedIsSound, Row
  <2> QED
    BY <2>1, <2>2, <2>3, <2>4, <2>5 DEF PlacedIsSound
<1>3. CASE RemoveStandby
  <2>1. /\ row'.epoch = row.epoch /\ row'.primary = row.primary /\ row'.standby = NoPod
        /\ row'.synced = <<>> /\ UNCHANGED placed
    BY <1>3 DEF RemoveStandby, Recorded
  <2>2. row.primary # NoPod
    BY <1>0, PodAssumption DEF Row
  <2> QED
    BY <1>0, <1>1, <2>1, <2>2 DEF PlacedIsSound
<1>4. CASE Swap
  <2> DEFINE new == Placements(Exchanged)
  <2>1. row' = Exchanged /\ placed' = placed \cup {new} /\ row.standby # NoPod
    BY <1>4 DEF Swap
  <2>2. /\ new.epoch = row.epoch + 1 /\ new.primary = row.standby /\ new.standby = row.primary
        /\ row'.epoch = row.epoch + 1 /\ row'.primary = row.standby
        /\ row'.standby = row.primary
    BY <2>1 DEF Placements, Exchanged
  <2> HIDE DEF new
  <2>3. row.epoch \in Nat /\ row.primary \in Pod /\ row.primary # NoPod
    BY <1>0, PodAssumption DEF Row
  <2>4. ASSUME NEW x \in placed PROVE x.epoch \in Nat /\ x.epoch <= row.epoch
    BY <1>0 DEF PlacedIsSound, Placement
  <2>5. ASSUME NEW x \in placed', NEW y \in placed', x.epoch = y.epoch PROVE x.primary = y.primary
    BY <1>0, <2>1, <2>2, <2>3, <2>4, <2>5 DEF PlacedIsSound
  <2>6. ASSUME NEW x \in placed' PROVE x.epoch <= row'.epoch
    BY <2>1, <2>2, <2>3, <2>4
  <2>7. new \in placed' /\ row'.standby # row'.primary
    BY <1>0, <2>1, <2>2 DEF PlacedIsSound
  <2> QED
    BY <2>2, <2>3, <2>5, <2>6, <2>7 DEF PlacedIsSound
<1>5. CASE /\ UNCHANGED placed
           /\ row'.epoch = row.epoch /\ row'.primary = row.primary /\ row'.standby = row.standby
           /\ row.standby = NoPod => row'.synced = row.synced
  BY <1>0, <1>1, <1>5 DEF PlacedIsSound
<1> QED
  BY <1>2, <1>3, <1>4, <1>5, SamePlacement

\* The pods that the rows name are known.
LEMMA RowIsKnown ==
  ASSUME IInv
  PROVE  Known(row.primary) /\ (row.standby # NoPod => Known(row.standby))
BY DEF IInv, PlacedIsSound, Known

LEMMA NextRoles ==
  ASSUME IInv, [Next]_vars, TypeOK'
  PROVE  RolesArePlaced'
<1> USE DEF pods, hub
<1>0. RolesArePlaced /\ TypeOK
  BY DEF IInv
<1>1. ASSUME NEW p \in Pod, SetRole(p) PROVE RolesArePlaced'
  <2>1. PICK x \in placed : p \in {x.primary, x.standby} /\ role' = [role EXCEPT ![p] = RoleIn(x, p)]
    BY <1>1 DEF SetRole
  <2>2. UNCHANGED placed
    BY <1>1 DEF SetRole
  <2>3. ASSUME NEW q \in Pod
        PROVE  IF Known(q)'
                 THEN \E y \in placed' : q \in {y.primary, y.standby} /\ role'[q] = RoleIn(y, q)
                 ELSE role'[q].epoch = 0
    <3>1. Known(q)' <=> Known(q)
      BY <2>2 DEF Known
    <3>2. CASE q = p
      BY <1>0, <2>1, <2>2, <3>1, <3>2 DEF Known, TypeOK
    <3>3. CASE q # p
      BY <1>0, <2>1, <2>2, <3>1, <3>3 DEF RolesArePlaced, TypeOK
    <3> QED
      BY <3>2, <3>3
  <2> QED
    BY <2>3 DEF RolesArePlaced, RoleIn
<1>2. ASSUME NEW p \in Pod, AddStandby(p) PROVE RolesArePlaced'
  <2> DEFINE new == Placements(Recorded(p))
  <2>1. /\ placed' = placed \cup {new} /\ new.primary = row.primary /\ new.standby = p
        /\ role' = IF Known(p) THEN role ELSE [role EXCEPT ![p] = RoleIn(new, p)]
    BY <1>2 DEF AddStandby, Placements, Recorded
  <2> HIDE DEF new
  <2>2. ASSUME NEW q \in Pod
        PROVE  IF Known(q)'
                 THEN \E y \in placed' : q \in {y.primary, y.standby} /\ role'[q] = RoleIn(y, q)
                 ELSE role'[q].epoch = 0
    <3>1. Known(q)' <=> Known(q) \/ q = p
      BY <2>1, RowIsKnown DEF Known
    <3>2. CASE q = p /\ ~Known(p)
      BY <1>0, <2>1, <3>1, <3>2 DEF TypeOK
    <3>3. CASE Known(q)
      <4>1. role'[q] = role[q]
        BY <1>0, <2>1, <3>3 DEF TypeOK
      <4> QED
        BY <1>0, <2>1, <3>1, <3>3, <4>1 DEF RolesArePlaced
    <3>4. CASE q # p /\ ~Known(q)
      <4>1. role'[q] = role[q]
        BY <1>0, <2>1, <3>4 DEF TypeOK
      <4> QED
        BY <1>0, <3>1, <3>4, <4>1 DEF RolesArePlaced
    <3> QED
      BY <3>2, <3>3, <3>4
  <2> QED
    BY <2>2 DEF RolesArePlaced, RoleIn
<1>3. ASSUME UNCHANGED role, placed \subseteq placed', \A q \in Pod : Known(q)' <=> Known(q)
      PROVE  RolesArePlaced'
  <2>1. ASSUME NEW q \in Pod
        PROVE  IF Known(q)'
                 THEN \E y \in placed' : q \in {y.primary, y.standby} /\ role'[q] = RoleIn(y, q)
                 ELSE role'[q].epoch = 0
    BY <1>0, <1>3 DEF RolesArePlaced
  <2> QED
    BY <2>1 DEF RolesArePlaced, RoleIn
<1>4. CASE Swap
  <2>1. /\ placed' = placed \cup {Placements(Exchanged)} /\ UNCHANGED role /\ row.standby # NoPod
        /\ Placements(Exchanged).primary = row.standby
        /\ Placements(Exchanged).standby = row.primary
    BY <1>4 DEF Swap, Placements, Exchanged
  <2>2. ASSUME NEW q \in Pod PROVE Known(q)' <=> Known(q)
    BY <2>1, RowIsKnown DEF Known
  <2> QED
    BY <1>3, <2>1, <2>2
<1>5. ASSUME UNCHANGED <<role, placed>> PROVE RolesArePlaced'
  <2>1. \A q \in Pod : Known(q)' <=> Known(q)
    BY <1>5 DEF Known
  <2> QED
    BY <1>3, <1>5, <2>1
<1>6. ASSUME NEW p \in Pod, Write(p) \/ CacheExpires(p) PROVE UNCHANGED <<role, placed>>
  BY <1>6 DEF Write, CacheExpires
<1>7. RemoveStandby => UNCHANGED <<role, placed>>
  BY DEF RemoveStandby
<1>8. ASSUME NEW w \in Attempt, Attempts(w) PROVE UNCHANGED <<role, placed>>
  BY <1>8 DEF Attempts, Claim, Pair, ReadRole, Proceeds, ReadPrimary, ReadStandby, Export,
              ReadAfter, Fails, Record, Abandon
<1>9. ASSUME NEW w \in Attempt, Imports(w) PROVE UNCHANGED <<role, placed>>
  BY <1>9 DEF Imports, Open, Place, ImportRecord, ImportDone, ImportEnds
<1> QED
  BY <1>1, <1>2, <1>4, <1>5, <1>6, <1>7, <1>8, <1>9 DEF Next, vars

-----------------------------------------------------------------------------
(* The theorems *)

LEMMA InitIInv == Init => IInv
<1> SUFFICES ASSUME Init PROVE IInv
  OBVIOUS
<1>1. TypeOK
  BY InitTypeOK
<1>2. HistoryIsKept /\ SyncedIsShared
  <2>1. \A p \in Pod : log[p] = <<>>
    BY DEF Init
  <2>2. HistoryIsKept
    <3>1. \A p \in Pod : Len(log[p]) = 0
      BY <2>1
    <3> QED
      BY <3>1 DEF HistoryIsKept
  <2>3. row.synced = <<>> /\ row.primary \in Pod /\ row.standby = NoPod
    BY PodAssumption DEF Init
  <2>4. <<>> \in Seq(Pod) /\ <<>> \sqsubseteq <<>>
    BY DEF \sqsubseteq
  <2> QED
    BY <2>1, <2>2, <2>3, <2>4 DEF SyncedIsShared
<1>3. ASSUME NEW w \in Attempt PROVE AttemptIsSound(w) /\ ImportIsSound(w)
  <2>1. sync[w] = NoSync /\ import[w] = NoImport /\ row.epoch = 0
    BY DEF Init
  <2> QED
    BY <2>1 DEF AttemptIsSound, ImportIsSound, NoSync, NoImport, Paired, Steps
<1>4. PlacedIsSound
  BY PodAssumption DEF Init, PlacedIsSound, Placements
<1>5. RolesArePlaced
  <2>1. placed = {Placements(row)} /\ Placements(row).primary = First
        /\ Placements(row).standby = NoPod /\ Placements(row).epoch = 0
    BY DEF Init, Placements
  <2>2. ASSUME NEW p \in Pod PROVE role[p] = PrimaryAtZero /\ PrimaryAtZero.epoch = 0
    BY DEF Init, PrimaryAtZero
  <2>3. RoleIn(Placements(row), First) = PrimaryAtZero
    BY <2>1 DEF RoleIn, PrimaryAtZero
  <2> QED
    BY <2>1, <2>2, <2>3, PodAssumption DEF RolesArePlaced, Known
<1> QED
  BY <1>1, <1>2, <1>3, <1>4, <1>5 DEF IInv

LEMMA NextIInv == IInv /\ [Next]_vars => IInv'
<1> SUFFICES ASSUME IInv, [Next]_vars PROVE IInv'
  OBVIOUS
<1>1. TypeOK'
  BY NextTypes
<1>2. HistoryIsKept' /\ SyncedIsShared' /\ PlacedIsSound' /\ RolesArePlaced'
  BY <1>1, NextHistory, NextSynced, NextPlaced, NextRoles
<1>3. ASSUME NEW w \in Attempt PROVE AttemptIsSound(w)' /\ ImportIsSound(w)'
  BY <1>1, NextAttempts, NextImports
<1> QED
  BY <1>1, <1>2, <1>3 DEF IInv

\* The inductive invariant holds of every reachable state.
THEOREM Inductive == Spec => []IInv
<1>1. Init => IInv
  BY InitIInv
<1>2. IInv /\ [Next]_vars => IInv'
  BY NextIInv
<1> QED
  BY <1>1, <1>2, PTL DEF Spec

\* Type correctness of the hub's rows, the attempts and the pods.
THEOREM Types == Spec => []TypeOK
<1>1. IInv => TypeOK
  BY DEF IInv
<1> QED
  BY <1>1, Inductive, PTL

\* No import (api/routes/one/pod_sync.py) joins two histories, however many
\* attempts and promotions there are.
THEOREM HistoriesAreKept == Spec => []HistoryIsKept
<1>1. IInv => HistoryIsKept
  BY DEF IInv
<1> QED
  BY <1>1, Inductive, PTL

\* Both pods of the pair have everything up to the head that RECORD_SQL keeps.
THEOREM ProgressIsShared == Spec => []SyncedIsShared
<1>1. IInv => SyncedIsShared
  BY DEF IInv
<1> QED
  BY <1>1, Inductive, PTL

\* A role of a known pod is that of one placement, and an epoch has one primary.
THEOREM OnePrimary == Spec => []OnePrimaryPerEpoch
<1>1. IInv => OnePrimaryPerEpoch
  <2> SUFFICES ASSUME IInv, NEW p \in Pod, NEW q \in Pod, Known(p), Known(q),
                      role[p].role = "primary", role[q].role = "primary",
                      role[p].epoch = role[q].epoch
               PROVE  p = q
    BY DEF OnePrimaryPerEpoch
  <2>1. PICK x \in placed : role[p] = RoleIn(x, p)
    BY DEF IInv, RolesArePlaced
  <2>2. PICK y \in placed : role[q] = RoleIn(y, q)
    BY DEF IInv, RolesArePlaced
  <2>3. p = x.primary /\ q = y.primary /\ x.epoch = y.epoch
    BY <2>1, <2>2 DEF RoleIn
  <2> QED
    BY <2>3 DEF IInv, PlacedIsSound
<1> QED
  BY <1>1, Inductive, PTL

\* The only step that writes progress while a standby stays recorded.
LEMMA ProgressWrites ==
  ASSUME IInv, [Next]_vars, row'.synced # row.synced, row'.ever
  PROVE  \E w \in Attempt :
           /\ sync[w].pc = "record" /\ Fenced(w) /\ Forward(w)
           /\ row' = [row EXCEPT !.lease = NoAttempt, !.synced = sync[w].target, !.ever = TRUE]
           /\ UNCHANGED <<log, role>>
<1> USE DEF pods, hub
<1>0. row \in Row
  BY DEF IInv, TypeOK
<1>1. \A p \in Pod : ~AddStandby(p)
  BY DEF AddStandby, Recorded
<1>2. ~RemoveStandby /\ ~Swap
  BY DEF RemoveStandby, Swap, Recorded, Exchanged
<1>3. ASSUME NEW w \in Attempt, Attempts(w), ~Claim(w), ~Record(w) PROVE UNCHANGED row
  BY <1>3 DEF Attempts, Pair, ReadRole, Proceeds, ReadPrimary, ReadStandby, Export,
              ReadAfter, Fails, Abandon
<1>4. ASSUME NEW w \in Attempt, Imports(w) PROVE UNCHANGED row
  BY <1>4 DEF Imports, Open, Place, ImportRecord, ImportDone, ImportEnds
<1>5. ASSUME NEW p \in Pod, Write(p) \/ SetRole(p) \/ CacheExpires(p) PROVE UNCHANGED row
  BY <1>5 DEF Write, SetRole, CacheExpires
<1>6. ASSUME NEW w \in Attempt, Claim(w) PROVE FALSE
  BY <1>0, <1>6 DEF Claim, Row
<1>7. PICK w \in Attempt : Record(w)
  BY <1>1, <1>2, <1>3, <1>4, <1>5, <1>6 DEF Next, vars
<1>8. sync[w].pc = "record" /\ Fenced(w) /\ Forward(w)
  BY <1>0, <1>7 DEF Record, Row
<1> QED
  BY <1>7, <1>8 DEF Record

\* Progress that stays recorded is only ever extended.
THEOREM ProgressOnlyGrows == Spec => ProgressIsKept
<1>1. IInv /\ [Next]_vars => [row.ever /\ row'.ever => row.synced \sqsubseteq row'.synced]_vars
  <2> SUFFICES ASSUME IInv, [Next]_vars, row.ever, row'.ever
               PROVE  row.synced \sqsubseteq row'.synced
    OBVIOUS
  <2>0. row \in Row /\ SyncedIsShared /\ TypeOK
    BY DEF IInv, TypeOK
  <2>1. CASE row'.synced = row.synced
    BY <2>0, <2>1, PrefixRefl DEF Row
  <2>2. CASE row'.synced # row.synced
    <3>1. PICK w \in Attempt :
            /\ sync[w].pc = "record" /\ Fenced(w) /\ Forward(w)
            /\ row' = [row EXCEPT !.lease = NoAttempt, !.synced = sync[w].target, !.ever = TRUE]
      BY <2>2, ProgressWrites
    <3>2. row'.synced = sync[w].target
      BY <2>0, <3>1 DEF Row
    <3>3. /\ row.primary \in Pod /\ sync[w].target \in Seq(Pod)
          /\ sync[w].target \sqsubseteq log[row.primary]
      BY <3>1, RecordedIsShared
    <3>4. row.synced \in Seq(Pod) /\ log[row.primary] \in Seq(Pod)
          /\ row.synced \sqsubseteq log[row.primary]
      BY <2>0, <3>3 DEF Row, SyncedIsShared, TypeOK
    <3>5. Len(row.synced) <= Len(sync[w].target)
      BY <2>2, <3>1, <3>2, <3>3, <3>4 DEF Forward
    <3> QED
      BY <3>2, <3>3, <3>4, <3>5, PrefixComparable
  <2> QED
    BY <2>1, <2>2
<1> QED
  BY <1>1, Inductive, PTL DEF Spec, ProgressIsKept

\* A pod of the pair that was told of the epoch has its role of that epoch.
LEMMA PairHasItsRoles ==
  ASSUME IInv, NEW p \in {row.primary, row.standby}, p \in Pod, role[p].epoch >= row.epoch
  PROVE  role[p] = RoleIn(Placements(row), p)
<1>1. row \in Row /\ row.standby # row.primary /\ Known(p)
  BY RowIsKnown, PodAssumption DEF IInv, TypeOK, PlacedIsSound
<1>2. PICK x \in placed : role[p] = RoleIn(x, p)
  BY <1>1 DEF IInv, RolesArePlaced
<1>3. x \in Placement /\ x.epoch <= row.epoch /\ role[p].epoch = x.epoch
  BY <1>2, RoleInType DEF IInv, TypeOK, PlacedIsSound
<1>4. x.epoch = row.epoch
  BY <1>1, <1>3 DEF Placement, Row
<1>5. x.primary = row.primary
  BY <1>4 DEF IInv, PlacedIsSound
<1> QED
  BY <1>2, <1>4, <1>5 DEF RoleIn, Placements

\* check_pod_head makes progress wait for the roles of the epoch.
THEOREM RolesBeforeProgress == Spec => ProgressNeedsRoles
<1>1. ASSUME IInv, [Next]_vars, row'.epoch = row.epoch, row'.synced # row.synced, row'.ever,
             NEW p \in {row.primary, row.standby}
      PROVE  role[p] = RoleIn(Placements(row), p)
  <2>1. PICK w \in Attempt : sync[w].pc = "record" /\ Fenced(w)
    BY <1>1, ProgressWrites
  <2>2. sync[w].pc \in Paired \ {"primary", "primary_head", "standby"}
    BY <2>1 DEF Paired
  <2>3. /\ row.primary \in Pod /\ row.standby \in Pod
        /\ sync[w].primary = row.primary /\ sync[w].standby = row.standby
        /\ sync[w].epoch = row.epoch
    BY <1>1, <2>1, RecordedIsShared DEF Fenced
  <2>4. role[row.primary].epoch >= row.epoch /\ role[row.standby].epoch >= row.epoch
    BY <1>1, <2>2, <2>3 DEF IInv, AttemptIsSound
  <2> QED
    BY <1>1, <2>3, <2>4, PairHasItsRoles
<1>2. IInv /\ [Next]_vars =>
        [row'.epoch = row.epoch /\ row'.synced # row.synced /\ row'.ever =>
           \A p \in {row.primary, row.standby} : role[p] = RoleIn(Placements(row), p)]_vars
  BY <1>1
<1> QED
  BY <1>2, Inductive, PTL DEF Spec, ProgressNeedsRoles
=============================================================================
