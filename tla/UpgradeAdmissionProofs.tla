----------------------- MODULE UpgradeAdmissionProofs -----------------------
(***************************************************************************)
(* Proofs about UpgradeAdmission, for any tasks, operations, processes and *)
(* lengths of the log: Sound is inductive for every store, and with        *)
(* Settled for the stores that settle before they are read.                *)
(***************************************************************************)
EXTENDS UpgradeAdmission, FiniteSetTheorems, WellFoundedInduction, TLAPS

USE TaskAssumption, OperationAssumption, HookedAssumption, SettlesAssumption,
    CallsAssumption, BoundsAssumption

-----------------------------------------------------------------------------
(* First and last positions exist *)

Less == {x \in Nat \X Nat : x[1] < x[2]}

LEMMA LessIsWellFounded == IsWellFoundedOn(Less, Nat)
<1>1. OpToRel(<, Nat) = Less
  BY Zenon DEF OpToRel, Less
<1> QED BY <1>1, NatLessThanWellFounded, Zenon

LEMMA LeastExists ==
  ASSUME NEW S, S \subseteq Nat, S # {}
  PROVE  \E x \in S : \A y \in S : x <= y
<1>1. PICK x \in S : \A y \in S : ~ (<<y, x>> \in Less)
  BY LessIsWellFounded, WFMin
<1>2. ASSUME NEW y \in S PROVE x <= y
  <2>1. x \in Nat /\ y \in Nat
    OBVIOUS
  <2>2. CASE y < x
    <3>1. <<y, x>> \in Less
      BY <2>1, <2>2 DEF Less
    <3> QED BY <3>1, <1>1
  <2> QED BY <2>1, <2>2
<1> QED BY <1>2

LEMMA GreatestExists ==
  ASSUME NEW n \in Nat, NEW S, S \subseteq 1 .. n, S # {}
  PROVE  \E x \in S : \A y \in S : y <= x
<1> DEFINE Mirrored == {n - y : y \in S}
<1>1. Mirrored \subseteq Nat /\ Mirrored # {}
  <2>1. \A y \in S : n - y \in Nat
    OBVIOUS
  <2>2. PICK y \in S : TRUE
    OBVIOUS
  <2>3. n - y \in Mirrored
    OBVIOUS
  <2> QED BY <2>1, <2>3
<1>2. PICK z \in Mirrored : \A y \in Mirrored : z <= y
  BY <1>1, LeastExists
<1>3. PICK x \in S : z = n - x
  OBVIOUS
<1>4. ASSUME NEW y \in S PROVE y <= x
  <2>1. n - x <= n - y
    BY <1>2, <1>3
  <2> QED BY <2>1
<1> QED BY <1>4

LEMMA FirstIsFirst ==
  ASSUME NEW S, S \subseteq Nat, S # {}
  PROVE  IsFirst(FirstOf(S), S)
<1>1. \E x \in S : IsFirst(x, S)
  BY LeastExists DEF IsFirst
<1> QED BY <1>1 DEF FirstOf

LEMMA LastIsLast ==
  ASSUME NEW n \in Nat, NEW S, S \subseteq 1 .. n, S # {}
  PROVE  IsLast(LastOf(S), S)
<1>1. \E x \in S : IsLast(x, S)
  BY GreatestExists DEF IsLast
<1> QED BY <1>1 DEF LastOf

LEMMA FirstIsUnique ==
  ASSUME NEW S, S \subseteq Nat, NEW n, IsFirst(n, S)
  PROVE  FirstOf(S) = n
<1> DEFINE first == FirstOf(S)
<1>1. n \in S /\ first \in S /\ n <= first /\ first <= n
  BY FirstIsFirst DEF IsFirst
<1> HIDE DEF first
<1>2. n \in Nat /\ first \in Nat
  BY <1>1
<1>3. n = first
  BY <1>1, <1>2
<1> QED BY <1>3 DEF first

LEMMA LastIsUnique ==
  ASSUME NEW m \in Nat, NEW S, S \subseteq 1 .. m, NEW n, IsLast(n, S)
  PROVE  LastOf(S) = n
<1>1. IsLast(LastOf(S), S)
  BY LastIsLast DEF IsLast
<1> DEFINE last == LastOf(S)
<1>2. n \in S /\ last \in S /\ n <= last /\ last <= n
  BY <1>1 DEF IsLast
<1> HIDE DEF last
<1>3. n \in Nat /\ last \in Nat
  BY <1>2
<1>4. n = last
  BY <1>2, <1>3
<1> QED BY <1>4 DEF last

-----------------------------------------------------------------------------
(* Control: positions in the code, the condition, the calls *)

NamesOperation(c) ==
  c.do \in {"prepare", "finish", "wait", "release"} => c.operation \in Operation

Control ==
  /\ pc \in [Task -> Pc] /\ call \in [Task -> Call] /\ cursor \in [Task -> Nat]
  /\ lock \in Task \cup {Free}
  /\ LockIsHeld
  /\ \A t \in Task : NamesOperation(call[t])

\* What the code relies on where it stands
Relies(t) ==
  /\ pc[t] \in {"body", "fence", "release"} => state.hydrated = "yes"
  /\ pc[t] = "fence" => state.operation \in Operation /\ call[t].do = "prepare"
  /\ pc[t] = "idle" => state.fence # 0
  /\ pc[t] = "release" =>
       /\ state.operation \in Operation
       /\ call[t].expected # 0 => call[t].expected = state.retained
  /\ pc[t] \in {"cursor", "idle", "release"} => state.active = 0

Alone(t) == lock = t \/ lock = Free

LEMMA SoundGivesControl ==
  Sound => Control /\ (\A t \in Task : Relies(t))
BY DEF Sound, Control, Relies, TypeOK, StateIsRead, CallsNameOperations, NoneIsCounted, NamesOperation

LEMMA AloneInside ==
  ASSUME Control, NEW t \in Task, Alone(t), NEW u \in Task, u # t
  PROVE  pc[u] \notin Inside
BY DEF Control, Alone, LockIsHeld

LEMMA MoveKeeps ==
  ASSUME Control, NEW t \in Task, NEW label \in Pc, Move(t, label),
         pc[t] \in Inside <=> label \in Inside
  PROVE  Control' /\ pc' = [pc EXCEPT ![t] = label]
BY DEF Control, Move, Goto, LockIsHeld

LEMMA TakeKeeps ==
  ASSUME Control, NEW t \in Task, lock = Free, NEW label \in Pc, label \in Inside, Take(t, label)
  PROVE  Control' /\ pc' = [pc EXCEPT ![t] = label]
BY DEF Control, Take, Goto, LockIsHeld

LEMMA LeaveKeeps ==
  ASSUME Control, NEW t \in Task, Alone(t), NEW label \in Pc, label \notin Inside,
         NEW wakes \in BOOLEAN, Leave(t, label, wakes)
  PROVE  /\ Control' /\ pc'[t] = label
         /\ \A u \in Task \ {t} : /\ pc'[u] \notin Inside
                                  /\ pc'[u] \in {"holding", "return"} <=> pc[u] \in {"holding", "return"}
<1>1. pc' = [u \in Task |-> IF u = t THEN label
                            ELSE IF wakes /\ pc[u] = "waiting" THEN "awake" ELSE pc[u]]
  BY DEF Leave
<1>2. pc' \in [Task -> Pc]
  BY <1>1 DEF Control, Pc
<1>3. call' \in [Task -> Call] /\ \A u \in Task : NamesOperation(call'[u])
  <2>1. NoCall \in Call /\ NamesOperation(NoCall)
    BY DEF NoCall, Call, NamesOperation
  <2> QED BY <2>1 DEF Leave, Control
<1>4. \A u \in Task \ {t} : pc[u] \notin Inside /\ pc'[u] \notin Inside
  BY <1>1, AloneInside DEF Inside
<1>5. LockIsHeld'
  BY <1>1, <1>4 DEF LockIsHeld, Leave
<1>6. lock' = Free /\ cursor' \in [Task -> Nat]
  BY DEF Leave, Control
<1>7. \A u \in Task \ {t} :
        pc'[u] \in {"holding", "return"} <=> pc[u] \in {"holding", "return"}
  BY <1>1
<1> QED BY <1>1, <1>2, <1>3, <1>4, <1>5, <1>6, <1>7 DEF Control

LEMMA EndKeeps ==
  ASSUME Control, NEW t \in Task, pc[t] \notin Inside, NEW label \in Pc, label \notin Inside,
         Goto(t, label), UNCHANGED <<lock, cursor>>,
         call' = [call EXCEPT ![t] = NoCall] \/ call' = call
  PROVE  Control'
<1>1. NoCall \in Call /\ NamesOperation(NoCall)
  BY DEF NoCall, Call, NamesOperation
<1>2. call' \in [Task -> Call] /\ \A u \in Task : NamesOperation(call'[u])
  BY <1>1 DEF Control
<1>3. pc' \in [Task -> Pc] /\ LockIsHeld'
  BY DEF Control, Goto, LockIsHeld
<1> QED BY <1>2, <1>3 DEF Control

LEMMA RunHooksKeeps ==
  ASSUME Control, NEW t \in Task, Alone(t), RunHooks(t), call[t].operation \in Operation
  PROVE  Control' /\ pc' = [pc EXCEPT ![t] = "hooks"]
<1>1. pc' = [pc EXCEPT ![t] = "hooks"] /\ lock' = Free /\ cursor' = [cursor EXCEPT ![t] = 0]
  BY DEF RunHooks, Goto
<1>2. pc' \in [Task -> Pc] /\ cursor' \in [Task -> Nat]
  BY <1>1 DEF Control, Pc
<1>3. call' = [call EXCEPT ![t].do = "finish"]
  BY DEF RunHooks
<1>4. call[t] \in Call /\ call'[t] = [call[t] EXCEPT !.do = "finish"]
  BY <1>3 DEF Control
<1>5. call'[t] \in Call /\ NamesOperation(call'[t])
  BY <1>4 DEF Call, NamesOperation
<1>6. call' \in [Task -> Call] /\ \A u \in Task : NamesOperation(call'[u])
  BY <1>3, <1>5 DEF Control
<1>7. LockIsHeld'
  BY <1>1, AloneInside DEF LockIsHeld, Inside, Control
<1> QED BY <1>1, <1>2, <1>6, <1>7 DEF Control

-----------------------------------------------------------------------------
(* What a process makes of the log *)

Typed ==
  /\ log \in Seq(Record) /\ late \subseteq Record
  /\ epoch \in 1 .. MaxEpoch /\ state \in State
  /\ closing \subseteq Task /\ closed \in BOOLEAN

\* The lifecycle part of a state, and what is true of it in the log
FenceOf(s) ==
  s.fence # 0 =>
    /\ s.fence \in Positions
    /\ log[s.fence].kind \in {"fence", "idle"} /\ log[s.fence].operation = s.operation

RetainedOf(s) ==
  s.retained # 0 =>
    /\ s.retained \in Positions
    /\ log[s.retained].kind = "idle" /\ log[s.retained].operation = s.operation

ReceiptOf(s) ==
  s.receipt # 0 =>
    /\ s.receipt \in Positions
    /\ log[s.receipt].kind = "idle" /\ log[s.receipt].epoch = epoch
    /\ log[s.receipt].operation = s.operation /\ log[s.receipt].prefix = s.receipt - 1

LEMMA OfState ==
  /\ FenceIsLogged <=> FenceOf(state) /\ RetainedOf(state)
  /\ ReceiptIsExact <=> ReceiptOf(state)
BY DEF FenceIsLogged, FenceOf, RetainedOf, ReceiptIsExact, ReceiptOf

LEMMA PositionsTyped ==
  ASSUME Typed
  PROVE  /\ Len(log) \in Nat
         /\ Positions \subseteq 1 .. Len(log)
         /\ \A i \in Positions : log[i] \in Record /\ i # 0
         /\ Releases \subseteq Positions /\ Open \subseteq Positions
         /\ Open \cap Releases = {}
<1>1. Len(log) \in Nat /\ \A i \in 1 .. Len(log) : log[i] \in Record
  BY DEF Typed
<1>2. Positions \subseteq 1 .. Len(log) /\ Releases \subseteq Positions /\ Open \subseteq Positions
  BY DEF Positions, Releases, Open
<1>3. ASSUME NEW i \in Open PROVE i \notin Releases
  <2>1. i \in Int /\ \A j \in Releases : j < i
    BY <1>1, <1>2 DEF Open
  <2> QED BY <2>1
<1>4. ASSUME NEW i \in Positions PROVE log[i] \in Record /\ i # 0
  <2>1. i \in 1 .. Len(log)
    BY <1>2
  <2> QED BY <1>1, <2>1
<1> QED BY <1>1, <1>2, <1>3, <1>4

LEMMA RecordTyped ==
  ASSUME NEW r \in Record
  PROVE  /\ r.kind \in Lifecycle \cup {"data"} /\ r.operation \in Operation \cup {NoOperation}
         /\ r.epoch \in Nat /\ r.prefix \in Nat /\ r.retained \in Nat /\ r.expected \in Nat
BY DEF Record

LEMMA StateTyped ==
  ASSUME NEW s \in State
  PROVE  /\ s.operation \in Operation \cup {NoOperation} /\ s.active \in Nat /\ s.receipt \in Nat
         /\ s.fence \in Nat /\ s.hydrated \in {"never", "stale", "yes"} /\ s.hooks \in BOOLEAN
         /\ s.retained \in Nat /\ s.released \in Nat
BY DEF State

\* The state before the open markers are read
Before ==
  IF LastOf(Releases) = 0 THEN state
  ELSE [state EXCEPT !.operation = NoOperation, !.receipt = 0, !.fence = 0,
                     !.retained = 0, !.released = LastOf(Releases)]

LEMMA BeforeFacts ==
  ASSUME Sound, Typed
  PROVE  /\ Before \in State
         /\ Before.active = state.active /\ Before.hooks = state.hooks
         /\ FenceOf(Before) /\ RetainedOf(Before) /\ ReceiptOf(Before)
         /\ Before.retained # 0 => Releases = {}
         /\ Releases # {} => Before.operation = NoOperation
<1>1. CASE Releases = {}
  <2>1. Before = state
    BY <1>1 DEF Before, LastOf
  <2> QED BY <1>1, <2>1, OfState DEF Sound, Typed
<1>2. CASE Releases # {}
  <2>1. LastOf(Releases) \in Releases
    BY <1>2, LastIsLast, PositionsTyped DEF IsLast
  <2>2. LastOf(Releases) \in Nat \ {0}
    BY <2>1, PositionsTyped
  <2>3. Before = [state EXCEPT !.operation = NoOperation, !.receipt = 0, !.fence = 0,
                               !.retained = 0, !.released = LastOf(Releases)]
    BY <2>2 DEF Before
  <2>4. Before \in State /\ Before.active = state.active /\ Before.hooks = state.hooks
    BY <2>2, <2>3 DEF Typed, State
  <2>5. /\ Before.fence = 0 /\ Before.retained = 0 /\ Before.receipt = 0
        /\ Before.operation = NoOperation
    BY <2>3 DEF Typed, State
  <2> QED BY <2>4, <2>5 DEF FenceOf, RetainedOf, ReceiptOf
<1> QED BY <1>1, <1>2

LEMMA RestoredFacts ==
  ASSUME Sound, Typed
  PROVE  /\ Restored \in State
         /\ Restored.active = state.active /\ Restored.hooks = state.hooks
         /\ FenceOf(Restored) /\ RetainedOf(Restored) /\ ReceiptOf(Restored)
         /\ \A q \in Releases : Restored.retained # 0 => q < Restored.retained
         /\ Open # {} => Restored.operation \in Operation
<1> DEFINE last   == LastOf(Open)
           ours   == {i \in Open : \A j \in Open : j >= i => log[j].operation = log[last].operation}
           same   == ours = Open /\ log[last].operation = Before.operation
           idles  == {i \in ours : log[i].kind = "idle"}
           latest == LastOf(idles)
<1>1. CASE Open = {}
  <2>1. Restored = Before
    BY <1>1 DEF Restored, Before
  <2> QED BY <1>1, <2>1, BeforeFacts
<1>2. CASE Open # {}
  <2>1. last \in Open /\ IsLast(last, Open)
    BY <1>2, LastIsLast, PositionsTyped DEF IsLast
  <2>2. /\ last \in Positions /\ log[last].kind \in {"fence", "idle"}
        /\ log[last].operation \in Operation /\ last \in Nat
    <3>1. last \in Positions /\ last \notin Releases
      BY <2>1, PositionsTyped
    <3> QED BY <3>1, PositionsTyped DEF Positions, Releases, Lifecycle, Sound, MarkersAreSound
  <2> DEFINE retained == IF same /\ Before.retained # 0 THEN Before.retained ELSE FirstOf(idles)
             receipt  == IF idles # {} THEN IF log[latest].epoch = epoch THEN latest ELSE 0
                         ELSE IF same THEN Before.receipt ELSE 0
  <2>3. Restored = [Before EXCEPT !.operation = log[last].operation, !.fence = last,
                                  !.released = 0, !.retained = retained, !.receipt = receipt]
    BY <1>2 DEF Restored, Before
  <2>4. idles \subseteq Open /\ idles \subseteq Nat
    BY PositionsTyped
  <2>5. \A i \in idles : /\ i \in Positions /\ log[i].kind = "idle"
                         /\ log[i].operation = log[last].operation /\ log[i].prefix = i - 1
                         /\ \A q \in Releases : q < i
    <3> SUFFICES ASSUME NEW i \in idles
                 PROVE  /\ i \in Positions /\ log[i].kind = "idle"
                        /\ log[i].operation = log[last].operation /\ log[i].prefix = i - 1
                        /\ \A q \in Releases : q < i
      OBVIOUS
    <3>1. i \in Open /\ i \in Positions /\ log[i].kind = "idle"
      BY PositionsTyped
    <3>2. log[i].prefix = i - 1
      BY <3>1 DEF Sound, MarkersAreSound
    <3>3. \A q \in Releases : q < i
      BY <3>1 DEF Open
    <3>4. i \in Nat
      BY <3>1, PositionsTyped
    <3>5. log[i].operation = log[last].operation
      BY <3>4
    <3> QED BY <3>1, <3>2, <3>3, <3>5
  <2>6. idles # {} => latest \in idles
    BY <2>4, LastIsLast, PositionsTyped DEF IsLast
  <2>7. idles # {} => FirstOf(idles) \in idles
    BY <2>4, FirstIsFirst DEF IsFirst
  <2>8. idles = {} => FirstOf(idles) = 0
    BY DEF FirstOf
  <2>9. /\ retained \in Nat
        /\ retained # 0 => /\ retained \in Positions /\ log[retained].kind = "idle"
                           /\ log[retained].operation = log[last].operation
                           /\ \A q \in Releases : q < retained
    <3>1. CASE same /\ Before.retained # 0
      BY <3>1, BeforeFacts, StateTyped DEF RetainedOf
    <3>2. CASE ~(same /\ Before.retained # 0)
      <4>1. retained = FirstOf(idles)
        BY <3>2
      <4>2. CASE idles = {}
        BY <4>1, <4>2, <2>8
      <4>3. CASE idles # {}
        <5>1. retained \in idles
          BY <4>1, <4>3, <2>7
        <5> HIDE DEF retained, idles
        <5> QED BY <5>1, <2>4, <2>5
      <4> QED BY <4>2, <4>3
    <3> QED BY <3>1, <3>2
  <2>10. /\ receipt \in Nat
         /\ receipt # 0 => /\ receipt \in Positions /\ log[receipt].kind = "idle"
                           /\ log[receipt].epoch = epoch
                           /\ log[receipt].operation = log[last].operation
                           /\ log[receipt].prefix = receipt - 1
    <3>1. CASE idles # {}
      BY <3>1, <2>4, <2>5, <2>6
    <3>2. CASE idles = {} /\ same
      BY <3>2, BeforeFacts, StateTyped DEF ReceiptOf
    <3>3. CASE idles = {} /\ ~same
      BY <3>3
    <3> QED BY <3>1, <3>2, <3>3
  <2> HIDE DEF last, ours, same, idles, latest, retained, receipt
  <2>11. Before \in State
    BY BeforeFacts
  <2>12. /\ Restored \in State
         /\ Restored.active = Before.active /\ Restored.hooks = Before.hooks
         /\ Restored.operation = log[last].operation /\ Restored.fence = last
         /\ Restored.retained = retained /\ Restored.receipt = receipt
    BY <2>2, <2>3, <2>9, <2>10, <2>11 DEF State
  <2>13. FenceOf(Restored)
    BY <2>2, <2>12 DEF FenceOf
  <2>14. RetainedOf(Restored) /\ \A q \in Releases : Restored.retained # 0 => q < Restored.retained
    BY <2>9, <2>12 DEF RetainedOf
  <2>15. ReceiptOf(Restored)
    BY <2>10, <2>12 DEF ReceiptOf
  <2> QED BY <2>2, <2>12, <2>13, <2>14, <2>15, BeforeFacts
<1> QED BY <1>1, <1>2

-----------------------------------------------------------------------------
(* Steps that leave the log and the handoff as they are *)

LEMMA SoundParts ==
  Sound <=> /\ Typed /\ Control /\ (\A t \in Task : Relies(t))
            /\ MarkersAreSound /\ FenceIsLogged /\ WorkIsCounted
            /\ ReceiptIsExact /\ IdleFollowsFence
BY DEF Sound, Typed, Control, Relies, TypeOK, StateIsRead, CallsNameOperations, NoneIsCounted,
       NamesOperation

LEMMA SoundPartsNext ==
  ASSUME Typed', Control', \A t \in Task : Relies(t)', MarkersAreSound', FenceIsLogged',
         WorkIsCounted', ReceiptIsExact', IdleFollowsFence'
  PROVE  Sound'
BY DEF Sound, Typed, Control, Relies, TypeOK, StateIsRead, CallsNameOperations, NoneIsCounted,
       NamesOperation

\* The log goes on where it ended, and what the process knows of it is as before
\* or forgotten.
Continues ==
  /\ Positions \subseteq Positions'
  /\ \A i \in Positions : log'[i] = log[i]

Remembers ==
  /\ epoch' = epoch
  /\ state'.fence = 0 \/ (state'.fence = state.fence /\ state'.operation = state.operation)
  /\ state'.retained = 0 \/ (state'.retained = state.retained /\ state'.operation = state.operation)
  /\ state'.receipt = 0 \/ (state'.receipt = state.receipt /\ state'.operation = state.operation)

LEMMA RemembersKeeps ==
  ASSUME FenceIsLogged, ReceiptIsExact, Continues, Remembers
  PROVE  FenceIsLogged' /\ ReceiptIsExact'
<1>1. FenceIsLogged'
  BY DEF FenceIsLogged, Continues, Remembers
<1>2. ReceiptIsExact'
  BY DEF ReceiptIsExact, Continues, Remembers
<1> QED BY <1>1, <1>2

SameLog == log' = log /\ late' \subseteq late

LEMMA SameLogKeeps ==
  ASSUME SameLog
  PROVE  /\ Continues /\ Positions' = Positions /\ Releases' = Releases
         /\ MarkersAreSound => MarkersAreSound'
         /\ IdleFollowsFence => IdleFollowsFence'
         /\ ReleaseMatchesIdle => ReleaseMatchesIdle'
<1>1. Positions' = Positions /\ Releases' = Releases
  BY DEF SameLog, Positions, Releases
<1>2. MarkersAreSound => MarkersAreSound'
  BY <1>1 DEF SameLog, MarkersAreSound, FencedBefore
<1>3. IdleFollowsFence => IdleFollowsFence'
  BY <1>1 DEF SameLog, IdleFollowsFence
<1>4. ReleaseMatchesIdle => ReleaseMatchesIdle'
  BY <1>1 DEF SameLog, ReleaseMatchesIdle, Retains
<1> QED BY <1>1, <1>2, <1>3, <1>4 DEF SameLog, Continues

SameHandoff ==
  /\ state'.operation = state.operation /\ state'.fence = state.fence
  /\ state'.retained = state.retained /\ state'.receipt = state.receipt

Reading ==
  state'.hydrated = "yes" => state.hydrated = "yes"

LEMMA QuietStep ==
  ASSUME IInv, SameLog, epoch' = epoch, SameHandoff, Reading,
         WorkingTasks' \subseteq WorkingTasks,
         Typed', Control', \A t \in Task : Relies(t)', WorkIsCounted'
  PROVE  IInv'
<1>1. Sound
  BY DEF IInv
<1>2. FenceIsLogged' /\ ReceiptIsExact'
  BY <1>1, SameLogKeeps, RemembersKeeps DEF Sound, Remembers, SameHandoff
<1>3. MarkersAreSound' /\ IdleFollowsFence'
  BY <1>1, SameLogKeeps DEF Sound
<1>4. Sound'
  BY <1>2, <1>3, SoundPartsNext
<1>5. ASSUME Settles, Settled PROVE Settled'
  <2>1. Positions' = Positions /\ Releases' = Releases /\ log' = log
    BY SameLogKeeps DEF SameLog
  <2>2. ReadMeansRefusing'
    BY <1>5, <2>1 DEF Settled, ReadMeansRefusing, Reading, SameHandoff, SameLog, Draining
  <2>3. LateIdleMeansNoWork'
    BY <1>5 DEF Settled, LateIdleMeansNoWork, SameLog
  <2>4. ReleasesAreOwn'
    BY <1>5, <2>1 DEF Settled, ReleasesAreOwn, Retains, SameHandoff, SameLog
  <2>5. IdleMeansNoWork'
    BY <1>5, <2>1 DEF Settled, IdleMeansNoWork
  <2>6. ReleaseMatchesIdle'
    BY <1>5, SameLogKeeps DEF Settled
  <2> QED BY <2>2, <2>3, <2>4, <2>5, <2>6 DEF Settled
<1> QED BY <1>4, <1>5 DEF IInv

\* No task counts but those that the state counts.
LEMMA WorkersTyped ==
  ASSUME Sound
  PROVE  /\ IsFiniteSet(WorkingTasks) /\ Cardinality(WorkingTasks) \in Nat
         /\ state.active = 0 => WorkingTasks = {}
<1>1. WorkingTasks \subseteq Task
  BY DEF WorkingTasks
<1>2. IsFiniteSet(WorkingTasks) /\ Cardinality(WorkingTasks) \in Nat
  BY <1>1, FS_Subset, FS_CardinalityType
<1>3. ASSUME state.active = 0 PROVE WorkingTasks = {}
  <2>1. Cardinality(WorkingTasks) = 0
    BY <1>2, <1>3 DEF Sound, WorkIsCounted
  <2> QED BY <1>2, <2>1, FS_EmptySet
<1> QED BY <1>2, <1>3

LEMMA FewerWorkers ==
  ASSUME Sound, WorkingTasks' \subseteq WorkingTasks, state'.active = state.active
  PROVE  WorkIsCounted'
<1>1. /\ Cardinality(WorkingTasks') <= Cardinality(WorkingTasks)
      /\ Cardinality(WorkingTasks') \in Nat
  BY WorkersTyped, FS_Subset, FS_CardinalityType
<1>2. state.active \in Nat
  BY StateTyped DEF Sound, TypeOK
<1> QED BY <1>1, <1>2, WorkersTyped DEF Sound, WorkIsCounted

\* What is left of the workers when only the position of t changes for them
LEMMA WorkersOf ==
  ASSUME NEW t \in Task, pc'[t] \notin {"holding", "return"},
         \A u \in Task \ {t} :
           pc'[u] \in {"holding", "return"} <=> pc[u] \in {"holding", "return"}
  PROVE  WorkingTasks' = WorkingTasks \ {t}
BY DEF WorkingTasks

LEMMA ReliesInside ==
  ASSUME NEW u \in Task, pc'[u] \notin Inside
  PROVE  Relies(u)'
BY DEF Relies, Inside

LEMMA ReliesAlone ==
  ASSUME Control, NEW t \in Task, Alone(t), Relies(t)',
         \A u \in Task \ {t} : pc'[u] = pc[u]
  PROVE  \A u \in Task : Relies(u)'
BY AloneInside, ReliesInside

-----------------------------------------------------------------------------
(* The actions that leave the log and the handoff as they are *)

Unmoved == state' = state /\ SameLog /\ epoch' = epoch /\ closing' \subseteq Task /\ closed' \in BOOLEAN

LEMMA UnmovedFacts ==
  ASSUME Sound, Unmoved
  PROVE  SameHandoff /\ Reading /\ Typed' /\ SameLog /\ epoch' = epoch /\ state'.active = state.active
<1>1. Typed
  BY SoundParts
<1>2. Typed'
  BY <1>1 DEF Unmoved, SameLog, Typed
<1> QED BY <1>2 DEF Unmoved, SameHandoff, Reading

LEMMA UnloggedUnseen ==
  ASSUME Sound, Unlogged, Unseen, UNCHANGED <<epoch, state>>
  PROVE  Unmoved
BY DEF Unlogged, Unseen, Unmoved, SameLog, Sound, TypeOK

\* A call ends, or waits, and nothing else happens.
LEMMA LeaveUnmoved ==
  ASSUME IInv, NEW t \in Task, Alone(t), NEW label \in Pc, label \notin Inside,
         label \notin {"holding", "return"}, NEW wakes \in BOOLEAN,
         Leave(t, label, wakes), SameLog, epoch' = epoch, SameHandoff, Reading, Typed',
         state'.active = state.active
  PROVE  IInv'
<1>1. Sound /\ Control
  BY SoundParts DEF IInv
<1>2. /\ Control' /\ pc'[t] = label
      /\ \A u \in Task \ {t} : /\ pc'[u] \notin Inside
                               /\ pc'[u] \in {"holding", "return"} <=> pc[u] \in {"holding", "return"}
  BY <1>1, LeaveKeeps
<1>3. WorkingTasks' = WorkingTasks \ {t}
  BY <1>2, WorkersOf
<1>4. \A u \in Task : Relies(u)'
  BY <1>2, ReliesInside
<1>5. WorkIsCounted'
  BY <1>1, <1>3, FewerWorkers
<1> QED BY <1>1, <1>2, <1>3, <1>4, <1>5, QuietStep

LEMMA FailUnmoved ==
  ASSUME IInv, NEW t \in Task, Alone(t), Fail(t), UNCHANGED <<epoch, state>>, Unlogged, Unseen
  PROVE  IInv'
<1>1. Sound /\ Unmoved
  BY UnloggedUnseen DEF IInv
<1>2. "none" \in Pc /\ "none" \notin Inside
  BY DEF Pc, Inside
<1> QED BY <1>1, <1>2, UnmovedFacts, LeaveUnmoved DEF Fail

\* A task that does not need the condition goes on or ends.
LEMMA EndUnmoved ==
  ASSUME IInv, NEW t \in Task, pc[t] \notin Inside, NEW label \in Pc, label \notin Inside,
         label \in {"holding", "return"} => pc[t] \in {"holding", "return"},
         Goto(t, label), UNCHANGED <<lock, cursor>>,
         call' = [call EXCEPT ![t] = NoCall] \/ call' = call, Unmoved
  PROVE  IInv'
<1>1. Sound /\ Control /\ \A u \in Task : Relies(u)
  BY SoundParts DEF IInv
<1>2. Control'
  BY <1>1, EndKeeps
<1>3. pc' = [pc EXCEPT ![t] = label] /\ pc \in [Task -> Pc]
  BY <1>1 DEF Goto, Control
<1>4. WorkingTasks' \subseteq WorkingTasks
  BY <1>3 DEF WorkingTasks
<1>5. \A u \in Task : Relies(u)'
  <2>1. ASSUME NEW u \in Task, u # t PROVE Relies(u)'
    <3>1. pc'[u] = pc[u] /\ call'[u] = call[u] /\ state' = state
      BY <1>1, <1>3, <2>1 DEF Unmoved, Control
    <3> QED BY <1>1, <3>1 DEF Relies
  <2>2. Relies(t)'
    BY <1>3, ReliesInside
  <2> QED BY <2>1, <2>2
<1>6. SameHandoff /\ Reading /\ Typed' /\ SameLog /\ epoch' = epoch /\ state'.active = state.active
  BY <1>1, UnmovedFacts
<1>7. WorkIsCounted'
  BY <1>1, <1>4, <1>6, FewerWorkers
<1> QED BY <1>2, <1>4, <1>5, <1>6, <1>7, QuietStep

\* A task that has the condition, or takes it, goes on with it.
LEMMA MoveUnmoved ==
  ASSUME IInv, NEW t \in Task, Alone(t), NEW label \in Pc, pc[t] \notin {"holding", "return"},
         pc' = [pc EXCEPT ![t] = label], label \notin {"holding", "return"},
         Control', Relies(t)', SameLog, epoch' = epoch, SameHandoff, Reading, Typed',
         state'.active = state.active
  PROVE  IInv'
<1>1. Sound /\ Control /\ pc \in [Task -> Pc]
  BY SoundParts DEF IInv, Control
<1>2. \A u \in Task : Relies(u)'
  BY <1>1, ReliesAlone
<1>3. WorkingTasks' \subseteq WorkingTasks
  BY <1>1 DEF WorkingTasks
<1>4. WorkIsCounted'
  BY <1>1, <1>3, FewerWorkers
<1> QED BY <1>2, <1>3, <1>4, QuietStep

\* Whoever begins a call takes the condition, and does not look at the log yet.
LEMMA BeginCallKeeps ==
  ASSUME IInv, NEW t \in Task, NEW do \in {"turn", "prepare", "status", "wait", "release"},
         NEW operation \in Operation \cup {NoOperation}, NEW expected \in Nat,
         do \in {"turn", "status"} <=> operation = NoOperation,
         BeginCall(t, do, operation, expected)
  PROVE  IInv'
<1> DEFINE c == [do |-> do, operation |-> operation, expected |-> expected]
           label == IF state.hydrated = "yes" THEN "body" ELSE "hydrate"
<1>2. Sound /\ Control /\ Typed /\ state \in State
  BY SoundParts DEF IInv, Typed
<1>3. c \in Call /\ NamesOperation(c)
  BY DEF Call, NamesOperation
<1>4. /\ pc[t] = "none" /\ lock = Free /\ Alone(t)
      /\ call' = [call EXCEPT ![t] = c] /\ lock' = t
      /\ state' = [state EXCEPT !.hydrated = IF @ = "never" THEN "stale" ELSE @]
      /\ pc' = [pc EXCEPT ![t] = label]
      /\ epoch' = epoch /\ cursor' = cursor
      /\ log' = log /\ late' = late /\ closing' = closing /\ closed' = closed
  BY DEF BeginCall, Goto, Unlogged, Unseen, Alone
<1>5. label \in Pc /\ label \in Inside /\ label \in {"body", "hydrate"}
  BY DEF Pc, Inside
<1>6. /\ state' \in State /\ SameHandoff /\ Reading /\ state'.active = state.active
      /\ state.hydrated = "yes" => state'.hydrated = "yes"
  BY <1>2, <1>4 DEF State, SameHandoff, Reading
<1>7. Typed' /\ SameLog
  BY <1>2, <1>4, <1>6 DEF Typed, SameLog
<1> HIDE DEF c, label
<1>8. Control'
  <2>1. pc' \in [Task -> Pc] /\ LockIsHeld'
    BY <1>2, <1>4, <1>5, AloneInside DEF Control, LockIsHeld
  <2>2. call' \in [Task -> Call] /\ \A u \in Task : NamesOperation(call'[u])
    BY <1>2, <1>3, <1>4 DEF Control
  <2> QED BY <1>2, <1>4, <2>1, <2>2 DEF Control
<1>9. Relies(t)'
  BY <1>2, <1>4, <1>5, <1>6 DEF Relies, label, Control
<1> QED BY <1>4, <1>5, <1>6, <1>7, <1>8, <1>9, MoveUnmoved

LEMMA BeginKeeps ==
  ASSUME IInv, NEW t \in Task, Begin(t)
  PROVE  IInv'
<1>1. PICK do \in Calls, operation \in Operation \cup {NoOperation}, expected \in 0 .. Len(log) :
        /\ do \in {"turn", "status"} <=> operation = NoOperation
        /\ BeginCall(t, do, operation, expected)
  BY DEF Begin
<1>2. expected \in Nat
  BY SoundParts, PositionsTyped DEF IInv
<1> QED BY <1>1, <1>2, BeginCallKeeps

LEMMA InsideAlone ==
  ASSUME Control, NEW t \in Task, pc[t] \in Inside
  PROVE  Alone(t)
BY DEF Control, LockIsHeld, Alone

\* Steps of the kinds above that only choose where to go
LEMMA TakeCursorKeeps ==
  ASSUME IInv, NEW t \in Task, lock = Free, pc[t] \notin {"holding", "return"},
         Take(t, "cursor"), state.active = 0, Unseen, Unlogged, epoch' = epoch,
         SameHandoff, Reading, Typed', state'.active = state.active
  PROVE  IInv'
<1>1. Control
  BY SoundParts DEF IInv
<1>2. "cursor" \in Pc /\ "cursor" \in Inside
  BY DEF Pc, Inside
<1>3. Control' /\ pc' = [pc EXCEPT ![t] = "cursor"]
  BY <1>1, <1>2, TakeKeeps
<1>4. Relies(t)'
  BY <1>1, <1>3 DEF Relies, Control
<1>5. SameLog /\ Alone(t)
  BY DEF Unlogged, SameLog, Alone
<1> QED BY <1>2, <1>3, <1>4, <1>5, MoveUnmoved

LEMMA MoveInsideKeeps ==
  ASSUME IInv, NEW t \in Task, pc[t] \in Inside, NEW label \in Pc, label \in Inside,
         Move(t, label), UNCHANGED <<epoch, state>>, Unlogged, Unseen, Relies(t)'
  PROVE  IInv'
<1>1. Control /\ Sound
  BY SoundParts DEF IInv
<1>2. Control' /\ pc' = [pc EXCEPT ![t] = label]
  BY <1>1, MoveKeeps
<1>3. Alone(t) /\ Unmoved
  BY <1>1, InsideAlone, UnloggedUnseen
<1>4. pc[t] \notin {"holding", "return"} /\ label \notin {"holding", "return"}
  BY DEF Inside
<1> QED BY <1>1, <1>2, <1>3, <1>4, UnmovedFacts, MoveUnmoved

LEMMA LeaveInsideKeeps ==
  ASSUME IInv, NEW t \in Task, pc[t] \in Inside \/ lock = Free, NEW label \in {"none", "waiting"},
         Leave(t, label, FALSE), UNCHANGED <<epoch, state>>, Unlogged, Unseen
  PROVE  IInv'
<1>1. Control /\ Sound
  BY SoundParts DEF IInv
<1>2. Alone(t) /\ Unmoved
  BY <1>1, InsideAlone, UnloggedUnseen DEF Alone
<1>3. label \in Pc /\ label \notin Inside
  BY DEF Pc, Inside
<1> QED BY <1>1, <1>2, <1>3, UnmovedFacts, LeaveUnmoved

LEMMA StatusKeeps ==
  ASSUME IInv, NEW t \in Task, Status(t)
  PROVE  IInv'
BY LeaveInsideKeeps DEF Status, Inside

LEMMA WaitKeeps ==
  ASSUME IInv, NEW t \in Task, Wait(t)
  PROVE  IInv'
<1>1. pc[t] = "body" /\ pc[t] \in Inside /\ UNCHANGED <<epoch, state>> /\ Unlogged /\ Unseen
  BY DEF Wait, Inside
<1>2. CASE Leave(t, "none", FALSE) \/ Leave(t, "waiting", FALSE)
  BY <1>1, <1>2, LeaveInsideKeeps
<1>3. CASE Drained(state) /\ Move(t, "cursor")
  <2>1. "cursor" \in Pc /\ "cursor" \in Inside
    BY DEF Pc, Inside
  <2>2. pc \in [Task -> Pc]
    BY SoundParts DEF IInv, Control
  <2>3. Relies(t)'
    BY <1>1, <1>3, <2>2 DEF Relies, Drained, Move, Goto
  <2> QED BY <1>1, <1>3, <2>1, <2>3, MoveInsideKeeps
<1> QED BY <1>2, <1>3 DEF Wait, Fail

LEMMA AwakeKeeps ==
  ASSUME IInv, NEW t \in Task, Awake(t)
  PROVE  IInv'
<1>1. /\ pc[t] = "awake" /\ lock = Free
      /\ UNCHANGED <<epoch, state>> /\ Unlogged /\ Unseen
  BY DEF Awake
<1>2. CASE Leave(t, "none", FALSE) \/ Leave(t, "waiting", FALSE)
  BY <1>1, <1>2, LeaveInsideKeeps
<1>3. CASE Drained(state) /\ Take(t, "cursor")
  <2>1. Sound /\ Unmoved
    BY <1>1, UnloggedUnseen DEF IInv
  <2> QED BY <1>1, <1>3, <2>1, UnmovedFacts, TakeCursorKeeps DEF Drained
<1> QED BY <1>2, <1>3 DEF Awake

LEMMA ReleaseKeeps ==
  ASSUME IInv, NEW t \in Task, Release(t)
  PROVE  IInv'
<1>1. /\ pc[t] = "body" /\ call[t].do = "release" /\ pc[t] \in Inside
      /\ UNCHANGED <<epoch, state>> /\ Unlogged /\ Unseen
  BY DEF Release, Inside
<1>2. CASE Fail(t)
  BY <1>1, <1>2, LeaveInsideKeeps DEF Fail
<1>3. CASE ~RefusesRelease(call[t]) /\ Move(t, "release")
  <2>1. "release" \in Pc /\ "release" \in Inside
    BY DEF Pc, Inside
  <2>2. Control /\ Relies(t) /\ state \in State
    BY SoundParts DEF IInv, Typed
  <2>3. call[t].operation \in Operation
    BY <1>1, <2>2 DEF Control, NamesOperation
  <2>4. /\ state.operation = call[t].operation /\ state.active = 0
        /\ call[t].expected # 0 => call[t].expected = state.retained
    BY <1>3 DEF RefusesRelease, Drained
  <2>5. pc'[t] = "release" /\ call' = call /\ state' = state
    BY <1>1, <1>3, <2>2 DEF Move, Goto, Control
  <2>6. Relies(t)'
    BY <1>1, <2>2, <2>3, <2>4, <2>5 DEF Relies
  <2> QED BY <1>1, <1>3, <2>1, <2>6, MoveInsideKeeps
<1> QED BY <1>2, <1>3 DEF Release

LEMMA ReadCursorKeeps ==
  ASSUME IInv, NEW t \in Task, ReadCursor(t)
  PROVE  IInv'
<1>1. /\ pc[t] = "cursor" /\ pc[t] \in Inside
      /\ UNCHANGED <<epoch, state>> /\ Unlogged /\ Unseen
  BY DEF ReadCursor, Inside
<1>2. CASE Fail(t)
  BY <1>1, <1>2, LeaveInsideKeeps DEF Fail
<1>3. CASE /\ state.fence # 0
           /\ cursor' = [cursor EXCEPT ![t] = Len(log)]
           /\ Goto(t, "idle")
           /\ UNCHANGED <<lock, call>>
  <2>1. Sound /\ Control /\ Typed /\ Relies(t)
    BY SoundParts DEF IInv
  <2>2. "idle" \in Pc /\ "idle" \in Inside /\ Len(log) \in Nat
    BY <2>1, PositionsTyped DEF Pc, Inside
  <2>3. pc' = [pc EXCEPT ![t] = "idle"] /\ pc'[t] = "idle"
    BY <1>3, <2>1 DEF Goto, Control
  <2>4. Control'
    BY <1>1, <1>3, <2>1, <2>2, <2>3 DEF Control, LockIsHeld
  <2>5. Relies(t)'
    BY <1>1, <1>3, <2>1, <2>3 DEF Relies
  <2>6. Alone(t) /\ Unmoved
    BY <1>1, <2>1, InsideAlone, UnloggedUnseen
  <2> QED BY <1>1, <2>1, <2>2, <2>3, <2>4, <2>5, <2>6, UnmovedFacts, MoveUnmoved
<1> QED BY <1>2, <1>3 DEF ReadCursor

LEMMA FinishKeeps ==
  ASSUME IInv, NEW t \in Task, Finish(t)
  PROVE  IInv'
<1>1. /\ pc[t] = "finish" /\ lock = Free /\ epoch' = epoch /\ Unlogged /\ Unseen
      /\ state' = [state EXCEPT !.hooks = TRUE]
  BY DEF Finish
<1>2. Sound /\ Typed /\ state \in State
  BY SoundParts DEF IInv, Typed
<1>3. state' \in State /\ SameHandoff /\ Reading /\ state'.active = state.active
  BY <1>1, <1>2 DEF State, SameHandoff, Reading
<1>4. Typed' /\ SameLog /\ Alone(t)
  BY <1>1, <1>2, <1>3 DEF Typed, Unlogged, Unseen, SameLog, Alone
<1>5. CASE state.active = 0 /\ Take(t, "cursor")
  BY <1>1, <1>3, <1>4, <1>5, TakeCursorKeeps
<1>6. CASE Leave(t, "none", TRUE)
  <2>1. "none" \in Pc /\ "none" \notin Inside
    BY DEF Pc, Inside
  <2> QED BY <1>1, <1>3, <1>4, <1>6, <2>1, LeaveUnmoved
<1> QED BY <1>5, <1>6 DEF Finish

LEMMA TaskAsideKeeps ==
  ASSUME IInv, NEW t \in Task, EndTurn(t) \/ CancelReturn(t) \/ Timeout(t) \/ Hooks(t)
  PROVE  IInv'
<1>1. Sound /\ Typed
  BY SoundParts DEF IInv
<1>2. CASE EndTurn(t)
  <2>1. Unmoved
    BY <1>1, <1>2, UnloggedUnseen DEF EndTurn
  <2> QED BY <1>2, <2>1, EndUnmoved DEF EndTurn, Move, Inside, Pc
<1>3. CASE CancelReturn(t)
  <2>1. Unmoved
    BY <1>1, <1>3, UnloggedUnseen DEF CancelReturn
  <2> QED BY <1>3, <2>1, EndUnmoved DEF CancelReturn, Inside, Pc
<1>4. CASE Timeout(t)
  <2>1. Unmoved
    BY <1>1, <1>4, UnloggedUnseen DEF Timeout
  <2> QED BY <1>4, <2>1, EndUnmoved DEF Timeout, Inside, Pc
<1>5. CASE Hooks(t)
  <2>1. Unmoved
    BY <1>1, <1>5 DEF Hooks, Unmoved, Unlogged, SameLog, Typed
  <2>2. pc[t] = "hooks" /\ pc[t] \notin Inside
    BY <1>5 DEF Hooks, Inside
  <2>3. CASE Move(t, "finish")
    BY <2>1, <2>2, <2>3, EndUnmoved DEF Move, Inside, Pc
  <2>4. CASE /\ Goto(t, "none")
             /\ call' = [call EXCEPT ![t] = NoCall]
             /\ UNCHANGED <<lock, cursor>>
    BY <2>1, <2>2, <2>4, EndUnmoved DEF Inside, Pc
  <2> QED BY <1>5, <2>3, <2>4 DEF Hooks
<1> QED BY <1>2, <1>3, <1>4, <1>5

LEMMA ReturnKeeps ==
  ASSUME IInv, NEW t \in Task, Return(t)
  PROVE  IInv'
<1> DEFINE returned == [state EXCEPT !.active = IF @ = 0 THEN 0 ELSE @ - 1]
<1>1. /\ pc[t] = "return" /\ lock = Free /\ Alone(t)
      /\ state' = returned /\ epoch' = epoch /\ SameLog
      /\ closing' = closing /\ closed' = closed
  BY DEF Return, Unlogged, Unseen, SameLog, Alone
<1>2. Sound /\ Typed /\ Control /\ state \in State
  BY SoundParts DEF IInv, Typed
<1>3. /\ state' \in State /\ SameHandoff /\ Reading
      /\ state'.active = IF state.active = 0 THEN 0 ELSE state.active - 1
  BY <1>1, <1>2 DEF State, SameHandoff, Reading
<1>4. Typed'
  BY <1>1, <1>2, <1>3 DEF Typed, SameLog
<1>5. /\ Control' /\ (\A u \in Task : Relies(u)')
      /\ WorkingTasks' = WorkingTasks \ {t}
  <2>1. CASE /\ Drained(returned) /\ Draining(state) /\ state.receipt = 0
             /\ Take(t, "cursor")
    <3>1. "cursor" \in Pc /\ "cursor" \in Inside
      BY DEF Pc, Inside
    <3>2. Control' /\ pc' = [pc EXCEPT ![t] = "cursor"] /\ pc \in [Task -> Pc]
      BY <1>1, <1>2, <2>1, <3>1, TakeKeeps DEF Control
    <3>3. Relies(t)'
      BY <1>1, <2>1, <3>2 DEF Relies, Drained
    <3>4. \A u \in Task : Relies(u)'
      BY <1>1, <1>2, <3>2, <3>3, ReliesAlone
    <3>5. WorkingTasks' = WorkingTasks \ {t}
      BY <3>2, WorkersOf
    <3> QED BY <3>2, <3>4, <3>5
  <2>2. CASE Leave(t, "none", returned.active = 0)
    <3>1. "none" \in Pc /\ "none" \notin Inside /\ (returned.active = 0) \in BOOLEAN
      BY DEF Pc, Inside
    <3> HIDE DEF returned
    <3>2. /\ Control' /\ pc'[t] = "none"
          /\ \A u \in Task \ {t} :
               /\ pc'[u] \notin Inside
               /\ pc'[u] \in {"holding", "return"} <=> pc[u] \in {"holding", "return"}
      BY <1>1, <1>2, <2>2, <3>1, LeaveKeeps
    <3>3. \A u \in Task : Relies(u)'
      BY <3>1, <3>2, ReliesInside
    <3> QED BY <3>2, <3>3, WorkersOf
  <2> QED BY <2>1, <2>2 DEF Return
<1>6. WorkIsCounted'
  <2>1. t \in WorkingTasks /\ IsFiniteSet(WorkingTasks) /\ Cardinality(WorkingTasks) \in Nat
    BY <1>1, <1>2, WorkersTyped DEF WorkingTasks
  <2>2. Cardinality(WorkingTasks') = Cardinality(WorkingTasks) - 1
    BY <1>5, <2>1, FS_RemoveElement
  <2>3. state.active >= Cardinality(WorkingTasks) /\ state.active \in Nat
    BY <1>2, StateTyped DEF Sound, WorkIsCounted
  <2>4. state'.active >= Cardinality(WorkingTasks')
    BY <1>3, <2>1, <2>2, <2>3
  <2> QED BY <2>4 DEF WorkIsCounted
<1> QED BY <1>1, <1>3, <1>4, <1>5, <1>6, QuietStep

\* A turn is admitted: the only step that adds work.
LEMMA AdmitKeeps ==
  ASSUME IInv, NEW t \in Task, Admit(t)
  PROVE  IInv'
<1>1. /\ pc[t] = "body" /\ pc[t] \in Inside /\ epoch' = epoch /\ Unlogged /\ Unseen
  BY DEF Admit, Inside
<1>2. CASE Fail(t) /\ UNCHANGED state
  BY <1>1, <1>2, LeaveInsideKeeps DEF Fail
<1>3. CASE /\ ~Draining(state)
           /\ state' = [state EXCEPT !.active = @ + 1]
           /\ Leave(t, "holding", FALSE)
  <2>1. Sound /\ Typed /\ Control /\ state \in State /\ Relies(t)
    BY SoundParts DEF IInv, Typed
  <2>2. /\ state' \in State /\ SameHandoff /\ state'.active = state.active + 1
        /\ state'.hydrated = state.hydrated /\ state.hydrated = "yes"
    BY <1>1, <1>3, <2>1 DEF State, SameHandoff, Relies
  <2>3. Typed' /\ SameLog /\ Alone(t)
    BY <1>1, <2>1, <2>2, InsideAlone DEF Typed, Unlogged, Unseen, SameLog
  <2>4. "holding" \in Pc /\ "holding" \notin Inside
    BY DEF Pc, Inside
  <2>5. /\ Control' /\ pc'[t] = "holding"
        /\ \A u \in Task \ {t} :
             /\ pc'[u] \notin Inside
             /\ pc'[u] \in {"holding", "return"} <=> pc[u] \in {"holding", "return"}
    BY <1>3, <2>1, <2>3, <2>4, LeaveKeeps
  <2>6. \A u \in Task : Relies(u)'
    BY <2>4, <2>5, ReliesInside
  <2>7. WorkingTasks' = WorkingTasks \cup {t} /\ t \notin WorkingTasks
    BY <1>1, <2>5 DEF WorkingTasks
  <2>8. WorkIsCounted'
    <3>1. IsFiniteSet(WorkingTasks) /\ Cardinality(WorkingTasks) \in Nat
      BY <2>1, WorkersTyped
    <3>2. Cardinality(WorkingTasks') = Cardinality(WorkingTasks) + 1
      BY <2>7, <3>1, FS_AddElement
    <3>3. state.active >= Cardinality(WorkingTasks) /\ state.active \in Nat
      BY <2>1, StateTyped DEF Sound, WorkIsCounted
    <3>4. state'.active >= Cardinality(WorkingTasks')
      BY <2>2, <3>1, <3>2, <3>3
    <3> QED BY <3>4 DEF WorkIsCounted
  <2>9. MarkersAreSound' /\ IdleFollowsFence' /\ FenceIsLogged' /\ ReceiptIsExact'
    BY <1>1, <2>1, <2>2, <2>3, SameLogKeeps, RemembersKeeps DEF Sound, Remembers, SameHandoff
  <2>10. Sound'
    BY <2>3, <2>5, <2>6, <2>8, <2>9, SoundPartsNext
  <2>11. ASSUME Settles, Settled PROVE Settled'
    <3>1. /\ Positions' = Positions /\ Releases' = Releases /\ log' = log /\ late' = late
      BY <1>1, <2>3, SameLogKeeps DEF Unlogged
    <3>2. /\ \A i \in Positions : IsLast(i, Positions) => log[i].kind = "release"
          /\ late = {}
      BY <1>3, <2>2, <2>11 DEF Settled, ReadMeansRefusing
    <3>3. ReadMeansRefusing'
      BY <3>1, <3>2 DEF ReadMeansRefusing
    <3>4. LateIdleMeansNoWork' /\ IdleMeansNoWork'
      BY <3>1, <3>2 DEF LateIdleMeansNoWork, IdleMeansNoWork
    <3>5. ReleasesAreOwn'
      BY <2>2, <2>11, <3>1 DEF Settled, ReleasesAreOwn, Retains, SameHandoff
    <3>6. ReleaseMatchesIdle'
      BY <2>3, <2>11, SameLogKeeps DEF Settled
    <3> QED BY <3>3, <3>4, <3>5, <3>6 DEF Settled
  <2> QED BY <2>10, <2>11 DEF IInv
<1> QED BY <1>2, <1>3 DEF Admit

\* The log is read: a process that knows what it says refuses turns if it has to.
LEMMA HydrateKeeps ==
  ASSUME IInv, NEW t \in Task, Hydrate(t)
  PROVE  IInv'
<1>1. pc[t] = "hydrate" /\ pc[t] \in Inside /\ log' = log /\ epoch' = epoch /\ Unseen
  BY DEF Hydrate, Inside
<1>2. CASE Fail(t) /\ UNCHANGED <<state, late>>
  BY <1>1, <1>2, LeaveInsideKeeps DEF Fail, Unlogged
<1>3. CASE /\ state' = [Restored EXCEPT !.hydrated = "yes"]
           /\ late' = IF Settles THEN {} ELSE late
           /\ Move(t, "body")
  <2>1. Sound /\ Typed /\ Control
    BY SoundParts DEF IInv
  <2>2. /\ Restored \in State /\ Restored.active = state.active
        /\ FenceOf(Restored) /\ RetainedOf(Restored) /\ ReceiptOf(Restored)
        /\ \A q \in Releases : Restored.retained # 0 => q < Restored.retained
        /\ Open # {} => Restored.operation \in Operation
    BY <2>1, RestoredFacts
  <2>3. /\ state' \in State /\ state'.hydrated = "yes" /\ state'.active = state.active
        /\ state'.operation = Restored.operation /\ state'.fence = Restored.fence
        /\ state'.retained = Restored.retained /\ state'.receipt = Restored.receipt
    BY <1>3, <2>2 DEF State
  <2>4. SameLog /\ Typed' /\ Positions' = Positions /\ Releases' = Releases
    <3>1. SameLog
      BY <1>1, <1>3 DEF SameLog
    <3>2. Typed'
      BY <1>1, <1>3, <2>1, <2>3, <3>1 DEF Typed, SameLog, Unseen
    <3> QED BY <3>1, <3>2, SameLogKeeps
  <2>5. "body" \in Pc /\ "body" \in Inside
    BY DEF Pc, Inside
  <2>6. Control' /\ pc' = [pc EXCEPT ![t] = "body"] /\ pc \in [Task -> Pc]
    BY <1>1, <1>3, <2>1, <2>5, MoveKeeps DEF Control
  <2>7. Relies(t)'
    BY <2>3, <2>6 DEF Relies
  <2>8. \A u \in Task : Relies(u)'
    BY <1>1, <2>1, <2>6, <2>7, InsideAlone, ReliesAlone
  <2>9. WorkingTasks' \subseteq WorkingTasks
    BY <2>6 DEF WorkingTasks
  <2>10. WorkIsCounted'
    BY <2>1, <2>3, <2>9, FewerWorkers
  <2>11. FenceIsLogged' /\ ReceiptIsExact'
    <3>1. FenceIsLogged'
      BY <1>1, <2>2, <2>3, <2>4 DEF FenceIsLogged, FenceOf, RetainedOf
    <3>2. ReceiptIsExact'
      BY <1>1, <2>2, <2>3, <2>4 DEF ReceiptIsExact, ReceiptOf
    <3> QED BY <3>1, <3>2
  <2>12. MarkersAreSound' /\ IdleFollowsFence'
    BY <2>1, <2>4, SameLogKeeps DEF Sound
  <2>13. Sound'
    BY <2>4, <2>6, <2>8, <2>10, <2>11, <2>12, SoundPartsNext
  <2>14. ASSUME Settles, Settled PROVE Settled'
    <3>1. late' = {}
      BY <1>3, <2>14
    <3>2. ReadMeansRefusing'
      <4>1. ASSUME NEW i \in Positions, IsLast(i, Positions), log[i].kind # "release"
            PROVE  i \in Open
        <5>1. \A j \in Releases : j \in Positions /\ j <= i /\ j # i
          BY <4>1 DEF IsLast, Releases
        <5>2. \A j \in Releases : j \in Nat /\ i \in Nat
          BY <2>1, <4>1, PositionsTyped
        <5> QED BY <4>1, <5>1, <5>2 DEF Open
      <4>2. \A i \in Positions : IsLast(i, Positions) /\ log[i].kind # "release" => state'.operation # NoOperation
        BY <2>2, <2>3, <4>1
      <4> QED BY <1>1, <2>4, <3>1, <4>2 DEF ReadMeansRefusing, Draining
    <3>3. LateIdleMeansNoWork'
      BY <3>1 DEF LateIdleMeansNoWork
    <3>4. ReleasesAreOwn'
      <4>1. ASSUME state'.retained # 0
            PROVE  Retains(state.retained, state.operation, Len(log) + 1)'
        <5>1. \A q \in Releases : q < state'.retained /\ q \in Nat /\ state'.retained \in Nat
          BY <2>1, <2>2, <2>3, <4>1, PositionsTyped, StateTyped
        <5> QED BY <1>1, <2>2, <2>3, <2>4, <4>1, <5>1 DEF Retains, RetainedOf
      <4> QED BY <3>1, <4>1 DEF ReleasesAreOwn
    <3>5. IdleMeansNoWork'
      BY <1>1, <2>4, <2>9, <2>14 DEF Settled, IdleMeansNoWork
    <3>6. ReleaseMatchesIdle'
      BY <2>4, <2>14, SameLogKeeps DEF Settled
    <3> QED BY <3>2, <3>3, <3>4, <3>5, <3>6 DEF Settled
  <2> QED BY <2>13, <2>14 DEF IInv
<1> QED BY <1>2, <1>3 DEF Hydrate

\* A handoff begins or goes on: turns are refused from here on.
LEMMA PrepareKeeps ==
  ASSUME IInv, NEW t \in Task, Prepare(t)
  PROVE  IInv'
<1> DEFINE operation == call[t].operation
           drains == [state EXCEPT !.operation = operation,
                                   !.hooks = IF Hooked THEN FALSE ELSE @,
                                   !.receipt = IF Hooked THEN 0 ELSE @]
<1>1. /\ pc[t] = "body" /\ pc[t] \in Inside /\ call[t].do = "prepare"
      /\ epoch' = epoch /\ Unlogged
  BY DEF Prepare, Inside
<1>2. CASE Fail(t) /\ UNCHANGED state /\ Unseen
  BY <1>1, <1>2, LeaveInsideKeeps DEF Fail
<1>3. CASE /\ state.operation \in {NoOperation, operation}
           /\ \/ /\ state.fence = 0
                 /\ state' = [drains EXCEPT !.released = 0, !.retained = 0]
                 /\ Move(t, "fence") /\ Unseen
              \/ /\ state.fence # 0
                 /\ state' = drains
                 /\ PersistOrRunHooks(t, drains)
  <2>1. /\ Sound /\ Typed /\ Control /\ state \in State /\ state.hydrated = "yes"
        /\ pc \in [Task -> Pc]
    BY <1>1, SoundParts DEF IInv, Typed, Relies, Control
  <2>2. operation \in Operation /\ operation # NoOperation
    BY <1>1, <2>1 DEF Control, NamesOperation
  <2>3. drains \in State /\ drains.operation = operation /\ drains.active = state.active
        /\ drains.hydrated = "yes" /\ drains.fence = state.fence
        /\ drains.retained = state.retained /\ drains.receipt \in {0, state.receipt}
    BY <2>1, <2>2 DEF State
  <2> HIDE DEF drains
  <2>4. /\ state' \in State /\ state'.operation = operation /\ state'.active = state.active
        /\ state'.hydrated = "yes" /\ state'.fence = state.fence
        /\ state'.retained \in {0, state.retained} /\ state'.receipt \in {0, state.receipt}
    <3>1. CASE state' = [drains EXCEPT !.released = 0, !.retained = 0]
      BY <2>3, <3>1 DEF State
    <3>2. CASE state' = drains
      BY <2>3, <3>2
    <3> QED BY <1>3, <3>1, <3>2
  <2>5. SameLog /\ log' = log /\ late' = late /\ Alone(t)
    BY <1>1, <2>1, InsideAlone DEF Unlogged, SameLog
  <2>6. Remembers
    <3>1. state.fence # 0 => state.operation = operation
      BY <1>3, <2>1, <2>2 DEF Sound, FenceIsLogged, MarkersAreSound
    <3>2. state.retained # 0 => state.operation = operation
      BY <1>3, <2>1, <2>2 DEF Sound, FenceIsLogged, MarkersAreSound
    <3>3. state.receipt # 0 => state.operation = operation
      BY <1>3, <2>1, <2>2 DEF Sound, ReceiptIsExact, MarkersAreSound
    <3> QED BY <1>1, <2>4, <3>1, <3>2, <3>3 DEF Remembers
  <2> DEFINE Goal == Control' /\ (\A u \in Task : Relies(u)') /\ WorkingTasks' \subseteq WorkingTasks
  <2>7. ASSUME Move(t, "fence") \/ (Move(t, "cursor") /\ drains.active = 0 /\ state' = drains)
        PROVE  Goal
    <3>1. PICK label \in {"fence", "cursor"} :
            Move(t, label) /\ (label = "cursor" => state'.active = 0)
      BY <2>7
    <3>2. label \in Pc /\ label \in Inside
      BY DEF Pc, Inside
    <3>3. Control' /\ pc' = [pc EXCEPT ![t] = label] /\ call' = call
      BY <1>1, <2>1, <3>1, <3>2, MoveKeeps DEF Move
    <3>4. Relies(t)'
      BY <1>1, <2>1, <2>2, <2>4, <3>1, <3>3 DEF Relies
    <3>5. \A u \in Task : Relies(u)'
      BY <2>1, <2>5, <3>3, <3>4, ReliesAlone
    <3>6. WorkingTasks' \subseteq WorkingTasks
      BY <2>1, <3>3 DEF WorkingTasks
    <3> QED BY <3>3, <3>5, <3>6
  <2>8. ASSUME RunHooks(t) PROVE Goal
    <3>1. Control' /\ pc' = [pc EXCEPT ![t] = "hooks"]
      BY <2>1, <2>2, <2>5, <2>8, RunHooksKeeps
    <3>2. Relies(t)'
      BY <2>1, <3>1, ReliesInside DEF Inside
    <3>3. \A u \in Task : Relies(u)'
      BY <2>1, <2>5, <3>1, <3>2, ReliesAlone
    <3>4. WorkingTasks' \subseteq WorkingTasks
      BY <2>1, <3>1 DEF WorkingTasks
    <3> QED BY <3>1, <3>3, <3>4
  <2>9. Goal
    BY <1>3, <2>7, <2>8 DEF PersistOrRunHooks, Drained
  <2>10. Typed'
    BY <1>1, <1>3, <2>1, <2>4, <2>5 DEF Typed, Unseen, PersistOrRunHooks, RunHooks
  <2>11. WorkIsCounted'
    BY <2>1, <2>4, <2>9, FewerWorkers
  <2>12. MarkersAreSound' /\ IdleFollowsFence' /\ FenceIsLogged' /\ ReceiptIsExact'
    BY <2>1, <2>5, <2>6, SameLogKeeps, RemembersKeeps DEF Sound
  <2>13. Sound'
    BY <2>9, <2>10, <2>11, <2>12, SoundPartsNext
  <2>14. ASSUME Settles, Settled PROVE Settled'
    <3>1. Positions' = Positions /\ Releases' = Releases
      BY <2>5, SameLogKeeps
    <3>2. \A r \in late : r.kind = "fence"
      BY <2>1, <2>14 DEF Settled, ReadMeansRefusing
    <3>3. ReadMeansRefusing'
      BY <2>2, <2>4, <2>5, <3>2 DEF ReadMeansRefusing, Draining
    <3>4. LateIdleMeansNoWork' /\ IdleMeansNoWork'
      BY <2>5, <2>9, <2>14, <3>1 DEF Settled, LateIdleMeansNoWork, IdleMeansNoWork
    <3>5. ReleasesAreOwn'
      BY <2>5, <2>6, <2>14, <3>1, <3>2 DEF Settled, ReleasesAreOwn, Retains, Remembers
    <3>6. ReleaseMatchesIdle'
      BY <2>5, <2>14, SameLogKeeps DEF Settled
    <3> QED BY <3>3, <3>4, <3>5, <3>6 DEF Settled
  <2> QED BY <2>13, <2>14 DEF IInv
<1>4. state.operation \in {NoOperation, operation} <=> ~(state.operation \notin {NoOperation, operation})
  OBVIOUS
<1> QED BY <1>2, <1>3, <1>4 DEF Prepare

-----------------------------------------------------------------------------
(* Steps that append to the log *)

Grows(record) == log' = Append(log, record) /\ late' = {}

\* What a record must satisfy to be appended
SoundRecord(record) ==
  record.kind \in Lifecycle =>
    /\ record.operation \in Operation
    /\ record.kind = "idle" => record.prefix = Len(log) /\ FencedBefore(record)

LEMMA GrowsFacts ==
  ASSUME Typed, NEW record \in Record, Grows(record)
  PROVE  /\ Continues
         /\ log' \in Seq(Record) /\ Len(log) \in Nat
         /\ Len(log)' = Len(log) + 1 /\ log'[Len(log) + 1] = record
         /\ Positions' = IF record.kind \in Lifecycle THEN Positions \cup {Len(log) + 1} ELSE Positions
         /\ Releases' = IF record.kind = "release" THEN Releases \cup {Len(log) + 1} ELSE Releases
         /\ \A i \in Positions : i \in Nat /\ i # 0 /\ i < Len(log) + 1
<1>1. /\ log \in Seq(Record) /\ Len(log) \in Nat /\ log' \in Seq(Record)
      /\ Len(log') = Len(log) + 1 /\ log'[Len(log) + 1] = record
      /\ \A i \in 1 .. Len(log) : log'[i] = log[i]
  BY DEF Typed, Grows
<1>2. Positions \subseteq 1 .. Len(log)
  BY PositionsTyped
<1>3. \A i \in Positions : i \in Nat /\ i # 0 /\ i < Len(log) + 1
  BY <1>1, <1>2
<1>4. Positions' = IF record.kind \in Lifecycle THEN Positions \cup {Len(log) + 1} ELSE Positions
  <2>1. 1 .. Len(log') = (1 .. Len(log)) \cup {Len(log) + 1}
    BY <1>1
  <2>2. Positions' = {j \in 1 .. Len(log') : log'[j].kind \in Lifecycle}
    BY DEF Positions
  <2>3. ASSUME NEW j PROVE j \in Positions' <=> j \in Positions \/ (j = Len(log) + 1 /\ record.kind \in Lifecycle)
    <3>1. Len(log) + 1 \notin 1 .. Len(log)
      BY <1>1
    <3> QED BY <1>1, <2>1, <2>2, <3>1 DEF Positions
  <2> QED BY <2>3
<1>5. \A i \in Positions : i \in Positions' /\ log'[i] = log[i]
  BY <1>1, <1>2, <1>4
<1>6. Releases' = IF record.kind = "release" THEN Releases \cup {Len(log) + 1} ELSE Releases
  <2>1. Releases' = {j \in Positions' : log'[j].kind = "release"}
    BY DEF Releases
  <2>2. ASSUME NEW j PROVE j \in Releases' <=> j \in Releases \/ (j = Len(log) + 1 /\ record.kind = "release")
    <3>1. Len(log) + 1 \notin Positions
      BY <1>1, <1>3
    <3> QED BY <1>1, <1>4, <1>5, <2>1, <3>1 DEF Releases, Lifecycle
  <2> QED BY <2>2
<1> QED BY <1>1, <1>3, <1>4, <1>5, <1>6 DEF Continues

LEMMA GrowsSound ==
  ASSUME Sound, Typed, NEW record \in Record, Grows(record), SoundRecord(record)
  PROVE  MarkersAreSound' /\ IdleFollowsFence'
<1> DEFINE n == Len(log) + 1
<1>1. /\ Len(log) \in Nat /\ log'[n] = record
      /\ Positions' = IF record.kind \in Lifecycle THEN Positions \cup {n} ELSE Positions
      /\ \A i \in Positions : i \in Nat /\ i < n /\ log'[i] = log[i]
  BY GrowsFacts DEF Continues
<1>2. MarkersAreSound /\ IdleFollowsFence /\ late' = {}
  BY DEF Sound, Grows
<1>3. n - 1 = Len(log)
  BY <1>1
<1> HIDE DEF n
<1>4. ASSUME NEW i \in Positions'
      PROVE  /\ log'[i].operation \in Operation
             /\ log'[i].kind = "idle" => log'[i].prefix = i - 1
             /\ log'[i].kind = "idle" =>
                  \E f \in Positions' : f < i /\ log'[f].kind = "fence" /\ log'[f].operation = log'[i].operation
  <2>1. CASE i \in Positions
    <3>1. log'[i] = log[i]
      BY <1>1, <2>1
    <3>2. log[i].operation \in Operation /\ (log[i].kind = "idle" => log[i].prefix = i - 1)
      BY <1>2, <2>1 DEF MarkersAreSound
    <3>3. ASSUME log[i].kind = "idle"
          PROVE  \E f \in Positions' : f < i /\ log'[f].kind = "fence" /\ log'[f].operation = log'[i].operation
      <4>1. PICK f \in Positions : f < i /\ log[f].kind = "fence" /\ log[f].operation = log[i].operation
        BY <1>2, <2>1, <3>3 DEF IdleFollowsFence
      <4>2. f \in Positions' /\ log'[f] = log[f]
        BY <1>1
      <4> QED BY <3>1, <4>1, <4>2
    <3> QED BY <3>1, <3>2, <3>3
  <2>2. CASE i \notin Positions
    <3>1. i = n /\ record.kind \in Lifecycle /\ log'[i] = record
      BY <1>1, <2>2
    <3>2. record.operation \in Operation
          /\ (record.kind = "idle" => record.prefix = i - 1 /\ FencedBefore(record))
      BY <1>3, <3>1 DEF SoundRecord
    <3>3. ASSUME record.kind = "idle"
          PROVE  \E f \in Positions' : f < i /\ log'[f].kind = "fence" /\ log'[f].operation = log'[i].operation
      <4>1. PICK f \in Positions : log[f].kind = "fence" /\ log[f].operation = record.operation
        BY <3>2, <3>3 DEF FencedBefore
      <4>2. f \in Positions' /\ log'[f] = log[f] /\ f < i
        BY <1>1, <3>1
      <4> QED BY <3>1, <4>1, <4>2
    <3> QED BY <3>1, <3>2, <3>3
  <2> QED BY <2>1, <2>2
<1>5. MarkersAreSound'
  BY <1>2, <1>4 DEF MarkersAreSound
<1>6. IdleFollowsFence'
  BY <1>4 DEF IdleFollowsFence
<1> QED BY <1>5, <1>6

\* An idle marker that is retained is so after a record that releases nothing,
\* or releases the same operation.
LEMMA GrowsRetains ==
  ASSUME Typed, NEW record \in Record, Grows(record), NEW i \in Nat, NEW operation,
         Retains(i, operation, Len(log) + 1),
         record.kind = "release" => record.operation = operation
  PROVE  /\ i < Len(log) + 1
         /\ Retains(i, operation, Len(log) + 1)'
<1> DEFINE n == Len(log) + 1
<1>1. /\ Len(log) \in Nat /\ log'[n] = record
      /\ \A j \in Positions : j \in Positions' /\ j \in Nat /\ j < n /\ log'[j] = log[j]
      /\ Releases' = IF record.kind = "release" THEN Releases \cup {n} ELSE Releases
  BY GrowsFacts DEF Continues
<1>2. Releases \subseteq Positions
  BY DEF Releases
<1>3. \A q \in Releases' : i < q => log'[q].operation = operation
  BY <1>1, <1>2 DEF Retains
<1> QED BY <1>1, <1>3 DEF Retains

LEMMA GrowsSettled ==
  ASSUME Settled, Typed, NEW record \in Record, Grows(record),
         WorkingTasks' \subseteq WorkingTasks,
         record.kind = "idle" => WorkingTasks = {},
         record.kind = "release" /\ record.expected # 0 =>
           Retains(record.expected, record.operation, Len(log) + 1),
         state'.retained # 0 => Retains(state.retained, state.operation, Len(log) + 1)',
         state'.hydrated = "yes" =>
           IF record.kind \in Lifecycle THEN record.kind = "release" \/ Draining(state)'
           ELSE state.hydrated = "yes" /\ state'.operation = state.operation
  PROVE  Settled'
<1> DEFINE n == Len(log) + 1
<1>1. /\ Len(log) \in Nat /\ log'[n] = record
      /\ Positions' = IF record.kind \in Lifecycle THEN Positions \cup {n} ELSE Positions
      /\ Releases' = IF record.kind = "release" THEN Releases \cup {n} ELSE Releases
      /\ \A i \in Positions : i \in Positions' /\ i \in Nat /\ i < n /\ log'[i] = log[i]
      /\ late' = {}
  BY GrowsFacts DEF Continues, Grows
<1>2. Releases \subseteq Positions /\ n \in Nat
  BY <1>1 DEF Releases
<1> HIDE DEF n
<1>3. ASSUME NEW i, IsLast(i, Positions') PROVE
        IF record.kind \in Lifecycle THEN i = n /\ log'[i] = record
        ELSE IsLast(i, Positions) /\ log'[i] = log[i]
  <2>1. CASE record.kind \in Lifecycle
    <3>1. n \in Positions' /\ n <= i /\ i \in Positions'
      BY <1>1, <1>3, <2>1 DEF IsLast
    <3>2. i = n
      BY <1>1, <1>2, <3>1
    <3> QED BY <1>1, <2>1, <3>2
  <2>2. CASE record.kind \notin Lifecycle
    BY <1>1, <1>3, <2>2 DEF IsLast
  <2> QED BY <2>1, <2>2
<1>4. ReadMeansRefusing'
  BY <1>1, <1>3 DEF ReadMeansRefusing, Settled, Draining
<1>5. LateIdleMeansNoWork'
  BY <1>1 DEF LateIdleMeansNoWork
<1>6. ReleasesAreOwn'
  BY <1>1 DEF ReleasesAreOwn
<1>7. IdleMeansNoWork'
  BY <1>1, <1>3 DEF IdleMeansNoWork, Settled, Lifecycle
<1>8. ReleaseMatchesIdle'
  <2>1. ASSUME NEW r \in Releases, log[r].expected # 0
        PROVE  log'[r].expected < r /\ Retains(log[r].expected, log[r].operation, r)'
    <3>1. log[r].expected < r /\ Retains(log[r].expected, log[r].operation, r)
      BY <2>1 DEF Settled, ReleaseMatchesIdle
    <3>2. r \in Nat /\ r < n /\ log'[r] = log[r]
      BY <1>1, <1>2
    <3>3. \A q \in Releases' : q < r => q \in Releases
      BY <1>1, <1>2, <3>2
    <3>4. \A q \in Releases : q < r => log'[q] = log[q]
      BY <1>1, <1>2
    <3>5. log[r].expected \in Positions
      BY <3>1 DEF Retains
    <3>6. Retains(log[r].expected, log[r].operation, r)'
      BY <1>1, <3>1, <3>2, <3>3, <3>4, <3>5 DEF Retains
    <3> QED BY <3>1, <3>2, <3>6
  <2>2. ASSUME NEW r, r = n, record.kind = "release", record.expected # 0
        PROVE  log'[r].expected < r /\ Retains(log[r].expected, log[r].operation, r)'
    <3>1. Retains(record.expected, record.operation, r)
      BY <2>2 DEF n
    <3>2. \A q \in Releases' : q < r => q \in Releases
      BY <1>1, <1>2, <2>2
    <3>3. log'[r] = record /\ record.expected < r
      BY <1>1, <2>2, <3>1 DEF Retains
    <3> QED BY <1>1, <1>2, <3>1, <3>2, <3>3 DEF Retains
  <2>3. \A r \in Releases' : r \in Releases \/ (r = n /\ record.kind = "release" /\ log'[r] = record)
    BY <1>1
  <2>4. \A r \in Releases : log'[r] = log[r]
    BY <1>1, <1>2
  <2> QED BY <2>1, <2>2, <2>3, <2>4 DEF ReleaseMatchesIdle
<1> QED BY <1>4, <1>5, <1>6, <1>7, <1>8 DEF Settled

\* What a task appends is a sound record of the operation in force.
LEMMA MarkerFacts ==
  ASSUME Sound, NEW t \in Task, pc[t] \in {"fence", "idle", "release"}, Place(t) = Len(log)
  PROVE  /\ MarkerOf(t) \in Record /\ SoundRecord(MarkerOf(t))
         /\ MarkerOf(t).kind = pc[t] /\ MarkerOf(t).kind \in Lifecycle
         /\ MarkerOf(t).operation = state.operation
         /\ MarkerOf(t).epoch = epoch /\ state.operation \in Operation
         /\ pc[t] = "idle" => MarkerOf(t).prefix = Len(log)
         /\ pc[t] = "release" => MarkerOf(t).expected = call[t].expected
<1>1. /\ Typed /\ Control /\ Relies(t) /\ state \in State /\ epoch \in Nat
      /\ cursor[t] \in Nat /\ call[t] \in Call /\ Len(log) \in Nat
  BY SoundParts, PositionsTyped DEF Typed, Control
<1>2. /\ state.operation \in Operation \cup {NoOperation} /\ state.retained \in Nat
      /\ call[t].expected \in Nat
  BY <1>1, StateTyped DEF Call
<1>3. CASE pc[t] = "fence"
  <2>1. MarkerOf(t) = Marker("fence", state.operation)
    BY <1>3 DEF MarkerOf
  <2> QED BY <1>1, <1>2, <1>3, <2>1 DEF Marker, Record, Relies, SoundRecord, Lifecycle
<1>4. CASE pc[t] = "idle"
  <2>1. MarkerOf(t) = [Marker("idle", state.operation) EXCEPT !.prefix = cursor[t]]
    BY <1>4 DEF MarkerOf
  <2>2. cursor[t] = Len(log)
    BY <1>4 DEF Place
  <2>3. /\ MarkerOf(t) \in Record /\ MarkerOf(t).kind = "idle" /\ MarkerOf(t).operation = state.operation
        /\ MarkerOf(t).epoch = epoch /\ MarkerOf(t).prefix = Len(log)
    BY <1>1, <1>2, <2>1, <2>2 DEF Marker, Record, Lifecycle
  <2>4. /\ state.fence \in Positions /\ log[state.fence].kind \in {"fence", "idle"}
        /\ log[state.fence].operation = state.operation
    BY <1>1, <1>4 DEF Relies, Sound, FenceIsLogged
  <2>5. state.operation \in Operation
    BY <2>4 DEF Sound, MarkersAreSound
  <2>6. FencedBefore(MarkerOf(t))
    <3>1. CASE log[state.fence].kind = "fence"
      BY <2>3, <2>4, <3>1 DEF FencedBefore
    <3>2. CASE log[state.fence].kind = "idle"
      BY <2>3, <2>4, <3>2 DEF FencedBefore, Sound, IdleFollowsFence
    <3> QED BY <2>4, <3>1, <3>2
  <2> QED BY <1>4, <2>3, <2>5, <2>6 DEF SoundRecord, Lifecycle
<1>5. CASE pc[t] = "release"
  <2>1. MarkerOf(t) = [Marker("release", state.operation) EXCEPT
                         !.retained = state.retained, !.expected = call[t].expected]
    BY <1>5 DEF MarkerOf
  <2>2. /\ MarkerOf(t) \in Record /\ MarkerOf(t).kind = "release"
        /\ MarkerOf(t).operation = state.operation /\ MarkerOf(t).epoch = epoch
        /\ MarkerOf(t).expected = call[t].expected
    <3>1. MarkerOf(t) = [kind |-> "release", operation |-> state.operation, epoch |-> epoch,
                         prefix |-> 0, retained |-> state.retained, expected |-> call[t].expected]
      BY <2>1 DEF Marker
    <3>2. /\ epoch \in Nat /\ state.retained \in Nat /\ call[t].expected \in Nat
          /\ state.operation \in Operation \cup {NoOperation}
      BY <1>1, <1>2
    <3> QED BY <3>1, <3>2 DEF Record, Lifecycle
  <2>3. state.operation \in Operation
    BY <1>1, <1>5 DEF Relies
  <2> QED BY <1>5, <2>2, <2>3 DEF SoundRecord, Lifecycle
<1> QED BY <1>3, <1>4, <1>5

LEMMA AppendsFacts ==
  ASSUME Sound, NEW t \in Task, pc[t] \in {"fence", "idle", "release"}, Appends(t)
  PROVE  /\ MarkerOf(t) \in Record /\ Grows(MarkerOf(t)) /\ epoch' = epoch
         /\ MarkersAreSound' /\ IdleFollowsFence'
         /\ MarkerOf(t).kind = pc[t] /\ MarkerOf(t).kind \in Lifecycle
         /\ MarkerOf(t).operation = state.operation
         /\ MarkerOf(t).epoch = epoch /\ state.operation \in Operation
         /\ pc[t] = "idle" => MarkerOf(t).prefix = Len(log)
         /\ pc[t] = "release" => MarkerOf(t).expected = call[t].expected
         /\ Len(log) + 1 \in Positions' /\ log'[Len(log) + 1] = MarkerOf(t)
         /\ Continues /\ Len(log) \in Nat
         /\ log' \in Seq(Record) /\ late' \subseteq Record
<1>1. Place(t) = Len(log) /\ Grows(MarkerOf(t)) /\ epoch' = epoch /\ Typed
  BY SoundParts DEF Appends, Grows
<1>2. MarkerOf(t) \in Record /\ SoundRecord(MarkerOf(t)) /\ MarkerOf(t).kind \in Lifecycle
  BY <1>1, MarkerFacts
<1>3. MarkersAreSound' /\ IdleFollowsFence'
  BY <1>1, <1>2, GrowsSound
<1>4. /\ Len(log) + 1 \in Positions' /\ log'[Len(log) + 1] = MarkerOf(t)
      /\ Continues /\ Len(log) \in Nat /\ log' \in Seq(Record)
  BY <1>1, <1>2, GrowsFacts
<1> QED BY <1>1, <1>2, <1>3, <1>4, MarkerFacts DEF Grows

LEMMA AppendFenceKeeps ==
  ASSUME IInv, NEW t \in Task, AppendFence(t)
  PROVE  IInv'
<1> DEFINE n == Len(log) + 1
           fenced == [state EXCEPT !.fence = n]
           record == MarkerOf(t)
<1>1. /\ pc[t] = "fence" /\ pc[t] \in Inside /\ Appends(t)
      /\ state' = fenced /\ PersistOrRunHooks(t, fenced)
  BY DEF AppendFence, Inside
<1>2. Sound /\ Typed /\ Control /\ Relies(t) /\ state \in State /\ pc \in [Task -> Pc] /\ Alone(t)
  BY <1>1, SoundParts, InsideAlone DEF IInv, Typed, Control
<1>3. /\ record \in Record /\ Grows(record) /\ epoch' = epoch
      /\ MarkersAreSound' /\ IdleFollowsFence'
      /\ record.kind = "fence" /\ record.kind \in Lifecycle
      /\ record.operation = state.operation /\ state.operation \in Operation
      /\ n \in Positions' /\ log'[n] = record /\ Continues /\ Len(log) \in Nat
      /\ log' \in Seq(Record) /\ late' \subseteq Record
  BY <1>1, <1>2, AppendsFacts
<1> HIDE DEF record
<1>4. /\ fenced \in State /\ fenced.fence = n /\ fenced.active = state.active
      /\ fenced.operation = state.operation /\ fenced.retained = state.retained
      /\ fenced.receipt = state.receipt /\ fenced.hydrated = "yes"
  <2>1. n \in Nat
    BY <1>3
  <2>2. state.hydrated = "yes"
    BY <1>1, <1>2 DEF Relies
  <2> QED BY <1>2, <2>1, <2>2 DEF State
<1> HIDE DEF n, fenced
<1>5. ASSUME Move(t, "cursor"), fenced.active = 0
      PROVE  Control' /\ pc' = [pc EXCEPT ![t] = "cursor"] /\ Relies(t)'
  <2>1. "cursor" \in Pc /\ "cursor" \in Inside
    BY DEF Pc, Inside
  <2>2. Control' /\ pc' = [pc EXCEPT ![t] = "cursor"]
    BY <1>1, <1>2, <1>5, <2>1, MoveKeeps
  <2> QED BY <1>1, <1>2, <1>5, <2>2 DEF Relies
<1>6. ASSUME RunHooks(t)
      PROVE  Control' /\ pc' = [pc EXCEPT ![t] = "hooks"] /\ Relies(t)'
  <2>1. call[t].operation \in Operation
    BY <1>1, <1>2 DEF Relies, Control, NamesOperation
  <2>2. Control' /\ pc' = [pc EXCEPT ![t] = "hooks"]
    BY <1>2, <1>6, <2>1, RunHooksKeeps
  <2> QED BY <1>2, <2>2 DEF Relies
<1>7. PICK label \in {"cursor", "hooks"} : Control' /\ pc' = [pc EXCEPT ![t] = label] /\ Relies(t)'
  BY <1>1, <1>5, <1>6 DEF PersistOrRunHooks, Drained
<1>8. \A u \in Task : Relies(u)'
  BY <1>2, <1>7, ReliesAlone
<1>9. WorkingTasks' \subseteq WorkingTasks
  BY <1>2, <1>7 DEF WorkingTasks
<1>10. WorkIsCounted'
  BY <1>1, <1>2, <1>4, <1>9, FewerWorkers
<1>11. Typed'
  BY <1>1, <1>2, <1>3, <1>4 DEF Typed, PersistOrRunHooks, RunHooks, Unseen
<1>12. FenceIsLogged'
  BY <1>1, <1>2, <1>3, <1>4 DEF Sound, FenceIsLogged, Continues
<1>13. ReceiptIsExact'
  BY <1>1, <1>2, <1>3, <1>4 DEF Sound, ReceiptIsExact, Continues
<1>14. Sound'
  BY <1>3, <1>7, <1>8, <1>10, <1>11, <1>12, <1>13, SoundPartsNext
<1>15. ASSUME Settles, Settled PROVE Settled'
  <2>1. state'.retained # 0 => Retains(state.retained, state.operation, Len(log) + 1)'
    <3>1. ASSUME state'.retained # 0 PROVE Retains(state.retained, state.operation, Len(log) + 1)'
      <4>1. Retains(state.retained, state.operation, Len(log) + 1) /\ state.retained \in Nat
        BY <1>1, <1>2, <1>4, <1>15, <3>1, StateTyped DEF Settled, ReleasesAreOwn
      <4>2. ASSUME NEW i, NEW operation, i = state.retained, operation = state.operation
            PROVE Retains(i, operation, Len(log) + 1)'
        BY <1>2, <1>3, <4>1, <4>2, GrowsRetains
      <4> QED BY <1>1, <1>4, <4>2
    <3> QED BY <3>1
  <2>2. Draining(state)'
    BY <1>1, <1>3, <1>4 DEF Draining
  <2> QED BY <1>2, <1>3, <1>9, <1>15, <2>1, <2>2, GrowsSettled
<1> QED BY <1>14, <1>15 DEF IInv

\* The idle marker is written: the condition was never given up since the count
\* was found to be zero.
LEMMA AppendIdleKeeps ==
  ASSUME IInv, NEW t \in Task, AppendIdle(t)
  PROVE  IInv'
<1> DEFINE n == Len(log) + 1
           record == MarkerOf(t)
<1>1. /\ pc[t] = "idle" /\ pc[t] \in Inside /\ Appends(t)
      /\ state' = [state EXCEPT !.receipt = n, !.retained = IF @ = 0 THEN n ELSE @]
      /\ \/ call[t].do = "prepare" /\ RunHooks(t)
         \/ \E wakes \in BOOLEAN : Leave(t, "none", wakes) /\ Unseen
  BY DEF AppendIdle, Inside
<1>2. Sound /\ Typed /\ Control /\ Relies(t) /\ state \in State /\ pc \in [Task -> Pc] /\ Alone(t)
  BY <1>1, SoundParts, InsideAlone DEF IInv, Typed, Control
<1>3. /\ record \in Record /\ Grows(record) /\ epoch' = epoch
      /\ MarkersAreSound' /\ IdleFollowsFence'
      /\ record.kind = "idle" /\ record.kind \in Lifecycle
      /\ record.operation = state.operation /\ state.operation \in Operation
      /\ record.epoch = epoch /\ record.prefix = Len(log)
      /\ n \in Positions' /\ log'[n] = record /\ Continues /\ Len(log) \in Nat
      /\ log' \in Seq(Record) /\ late' \subseteq Record
  BY <1>1, <1>2, AppendsFacts
<1>4. n \in Nat /\ n # 0 /\ n - 1 = Len(log)
  BY <1>3
<1> HIDE DEF record, n
<1>5. /\ state' \in State /\ state'.active = state.active /\ state'.fence = state.fence
      /\ state'.operation = state.operation /\ state'.receipt = n
      /\ state'.retained = IF state.retained = 0 THEN n ELSE state.retained
      /\ state'.hydrated = state.hydrated
  BY <1>1, <1>2, <1>4 DEF State
<1>6. WorkingTasks = {}
  BY <1>1, <1>2, WorkersTyped DEF Relies
<1> DEFINE Goal == Control' /\ (\A u \in Task : Relies(u)') /\ WorkingTasks' = {}
                   /\ closing' \subseteq Task /\ closed' \in BOOLEAN
<1>7. ASSUME call[t].do = "prepare", RunHooks(t) PROVE Goal
  <2>1. call[t].operation \in Operation
    BY <1>2, <1>7 DEF Control, NamesOperation
  <2>2. Control' /\ pc' = [pc EXCEPT ![t] = "hooks"]
    BY <1>2, <1>7, <2>1, RunHooksKeeps
  <2>3. Relies(t)'
    BY <1>2, <2>2 DEF Relies
  <2>4. \A u \in Task : Relies(u)'
    BY <1>2, <2>2, <2>3, ReliesAlone
  <2>5. WorkingTasks' = {}
    BY <1>2, <1>6, <2>2 DEF WorkingTasks
  <2> QED BY <1>2, <1>7, <2>2, <2>4, <2>5 DEF Typed, RunHooks
<1>8. ASSUME NEW wakes \in BOOLEAN, Leave(t, "none", wakes), Unseen PROVE Goal
  <2>1. "none" \in Pc /\ "none" \notin Inside
    BY DEF Pc, Inside
  <2>2. /\ Control' /\ pc'[t] = "none"
        /\ \A u \in Task \ {t} : /\ pc'[u] \notin Inside
                                 /\ pc'[u] \in {"holding", "return"} <=> pc[u] \in {"holding", "return"}
    BY <1>2, <1>8, <2>1, LeaveKeeps
  <2>3. \A u \in Task : Relies(u)'
    BY <2>1, <2>2, ReliesInside
  <2>4. WorkingTasks' = {}
    BY <1>6, <2>2, WorkersOf
  <2> QED BY <1>2, <1>8, <2>2, <2>3, <2>4 DEF Typed, Unseen
<1>9. Goal
  BY <1>1, <1>7, <1>8
<1>10. WorkIsCounted'
  BY <1>2, <1>5, <1>6, <1>9, FewerWorkers
<1>11. Typed'
  BY <1>2, <1>3, <1>5, <1>9 DEF Typed
<1>12. FenceIsLogged'
  <2>1. \A i \in Positions : i \in Positions' /\ log'[i] = log[i]
    BY <1>3 DEF Continues
  <2>2. FenceOf(state) /\ RetainedOf(state)
    BY <1>2, OfState DEF Sound
  <2> QED BY <1>3, <1>5, <2>1, <2>2 DEF FenceIsLogged, FenceOf, RetainedOf
<1>13. ReceiptIsExact'
  BY <1>3, <1>4, <1>5 DEF ReceiptIsExact
<1>14. Sound'
  BY <1>3, <1>9, <1>10, <1>11, <1>12, <1>13, SoundPartsNext
<1>15. ASSUME Settles, Settled PROVE Settled'
  <2>1. Retains(state.retained, state.operation, Len(log) + 1)'
    <3>1. CASE state.retained # 0
      <4>1. Retains(state.retained, state.operation, Len(log) + 1) /\ state.retained \in Nat
        BY <1>2, <1>15, <3>1, StateTyped DEF Settled, ReleasesAreOwn
      <4>2. ASSUME NEW i, NEW operation, i = state.retained, operation = state.operation
            PROVE Retains(i, operation, Len(log) + 1)'
        BY <1>2, <1>3, <4>1, <4>2, GrowsRetains
      <4> QED BY <1>5, <3>1, <4>2
    <3>2. CASE state.retained = 0
      <4>1. \A q \in Releases' : q <= n
        <5>1. /\ \A i \in Positions : i \in Nat /\ i < Len(log) + 1
              /\ Releases' = Releases
          BY <1>2, <1>3, GrowsFacts
        <5> QED BY <5>1 DEF Releases, n
      <4>2. state'.retained = n
        BY <1>5, <3>2
      <4>3. \A q \in Releases' : ~(n < q)
        <5>1. Releases' = Releases /\ \A q \in Releases : q \in Nat
          BY <1>2, <1>3, GrowsFacts DEF Releases
        <5> QED BY <1>4, <4>1, <5>1
      <4> QED BY <1>3, <1>5, <4>2, <4>3 DEF Retains
    <3> QED BY <3>1, <3>2
  <2>2. Draining(state)'
    BY <1>3, <1>5 DEF Draining
  <2> QED BY <1>2, <1>3, <1>6, <1>9, <1>15, <2>1, <2>2, GrowsSettled
<1> QED BY <1>14, <1>15 DEF IInv

\* The release ends the handoff whose idle record it names.
LEMMA AppendReleaseKeeps ==
  ASSUME IInv, NEW t \in Task, AppendRelease(t)
  PROVE  IInv'
<1> DEFINE n == Len(log) + 1
           record == MarkerOf(t)
<1>1. /\ pc[t] = "release" /\ pc[t] \in Inside /\ Appends(t)
      /\ state' = [Fresh EXCEPT !.hydrated = "yes", !.released = n]
      /\ closing' = {} /\ closed' = FALSE /\ Leave(t, "none", FALSE)
  BY DEF AppendRelease, Inside
<1>2. Sound /\ Typed /\ Control /\ Relies(t) /\ state \in State /\ Alone(t)
  BY <1>1, SoundParts, InsideAlone DEF IInv, Typed, Control
<1>3. /\ record \in Record /\ Grows(record) /\ epoch' = epoch
      /\ MarkersAreSound' /\ IdleFollowsFence'
      /\ record.kind = "release" /\ record.kind \in Lifecycle
      /\ record.operation = state.operation /\ record.expected = call[t].expected
      /\ Len(log) \in Nat /\ log' \in Seq(Record) /\ late' \subseteq Record
  BY <1>1, <1>2, AppendsFacts
<1> HIDE DEF record
<1>4. n \in Nat
  BY <1>3
<1> HIDE DEF n
<1>5. /\ state' \in State /\ state'.active = 0 /\ state'.fence = 0 /\ state'.retained = 0
      /\ state'.receipt = 0
  BY <1>1, <1>4 DEF State, Fresh
<1>6. WorkingTasks = {} /\ state.active = 0
  BY <1>1, <1>2, WorkersTyped DEF Relies
<1>7. "none" \in Pc /\ "none" \notin Inside
  BY DEF Pc, Inside
<1>8. /\ Control' /\ pc'[t] = "none"
      /\ \A u \in Task \ {t} : /\ pc'[u] \notin Inside
                               /\ pc'[u] \in {"holding", "return"} <=> pc[u] \in {"holding", "return"}
  BY <1>1, <1>2, <1>7, LeaveKeeps
<1>9. \A u \in Task : Relies(u)'
  BY <1>7, <1>8, ReliesInside
<1>10. WorkingTasks' = {}
  BY <1>6, <1>8, WorkersOf
<1>11. WorkIsCounted'
  BY <1>2, <1>5, <1>6, <1>10, FewerWorkers
<1>12. Typed'
  BY <1>1, <1>2, <1>3, <1>5 DEF Typed
<1>13. FenceIsLogged' /\ ReceiptIsExact'
  BY <1>5 DEF FenceIsLogged, ReceiptIsExact
<1>14. Sound'
  BY <1>3, <1>8, <1>9, <1>11, <1>12, <1>13, SoundPartsNext
<1>15. ASSUME Settles, Settled PROVE Settled'
  <2>1. ASSUME record.expected # 0
        PROVE  Retains(record.expected, record.operation, Len(log) + 1)
    BY <1>1, <1>2, <1>3, <1>15, <2>1 DEF Relies, Settled, ReleasesAreOwn
  <2> QED BY <1>2, <1>3, <1>5, <1>6, <1>10, <1>15, <2>1, GrowsSettled
<1> QED BY <1>14, <1>15 DEF IInv

\* The append fails for the task; its record may still be committed.
LEMMA AppendFailsKeeps ==
  ASSUME IInv, NEW t \in Task, AppendFails(t)
  PROVE  IInv'
<1> DEFINE record == MarkerOf(t)
<1>1. /\ pc[t] \in {"fence", "idle", "release"} /\ pc[t] \in Inside
      /\ Fail(t) /\ log' = log /\ epoch' = epoch /\ Unseen
      /\ state' = IF pc[t] = "fence" THEN state ELSE [state EXCEPT !.hydrated = "stale"]
      /\ late' = late \/ (late' = late \cup {record} /\ Place(t) = Len(log))
  BY DEF AppendFails, Inside
<1>2. Sound /\ Typed /\ Control /\ Relies(t) /\ state \in State /\ Alone(t)
  BY <1>1, SoundParts, InsideAlone DEF IInv, Typed, Control
<1>3. /\ state' \in State /\ SameHandoff /\ Reading /\ state'.active = state.active
      /\ state'.hydrated = "yes" => pc[t] = "fence"
  BY <1>1, <1>2 DEF State, SameHandoff, Reading
<1>4. "none" \in Pc /\ "none" \notin Inside
  BY DEF Pc, Inside
<1>5. /\ Control' /\ pc'[t] = "none"
      /\ \A u \in Task \ {t} : /\ pc'[u] \notin Inside
                               /\ pc'[u] \in {"holding", "return"} <=> pc[u] \in {"holding", "return"}
  BY <1>1, <1>2, <1>4, LeaveKeeps DEF Fail
<1>6. /\ \A u \in Task : Relies(u)'
      /\ WorkingTasks' \subseteq WorkingTasks
  BY <1>4, <1>5, ReliesInside, WorkersOf
<1>7. CASE late' = late
  <2>1. SameLog /\ Typed'
    BY <1>1, <1>2, <1>3, <1>7 DEF SameLog, Typed, Unseen
  <2>2. WorkIsCounted'
    BY <1>2, <1>3, <1>6, FewerWorkers
  <2> QED BY <1>1, <1>3, <1>5, <1>6, <2>1, <2>2, QuietStep
<1>8. CASE late' = late \cup {record} /\ Place(t) = Len(log)
  <2>1. /\ record \in Record /\ SoundRecord(record)
        /\ record.kind = pc[t] /\ record.kind \in Lifecycle
        /\ record.operation = state.operation /\ state.operation \in Operation
        /\ pc[t] = "release" => record.expected = call[t].expected
    BY <1>1, <1>2, <1>8, MarkerFacts
  <2> HIDE DEF record
  <2>2. Typed'
    BY <1>1, <1>2, <1>3, <1>8, <2>1 DEF Typed, Unseen
  <2>3. Positions' = Positions /\ Releases' = Releases
    BY <1>1 DEF Positions, Releases
  <2>4. MarkersAreSound'
    <3>1. MarkersAreSound
      BY <1>2 DEF Sound
    <3>2. \A r \in late' : /\ r.kind \in Lifecycle /\ r.operation \in Operation
                           /\ r.kind = "idle" => r.prefix = Len(log) /\ FencedBefore(r)
      BY <1>8, <2>1, <3>1 DEF MarkersAreSound, SoundRecord
    <3> QED BY <1>1, <2>3, <3>1, <3>2 DEF MarkersAreSound, FencedBefore
  <2>5. IdleFollowsFence'
    BY <1>1, <1>2, <2>3 DEF Sound, IdleFollowsFence
  <2>6. FenceIsLogged' /\ ReceiptIsExact'
    <3>1. Continues /\ Remembers
      BY <1>1, <1>3, <2>3 DEF Continues, Remembers, SameHandoff
    <3> QED BY <1>2, <3>1, RemembersKeeps DEF Sound
  <2>7. WorkIsCounted'
    BY <1>2, <1>3, <1>6, FewerWorkers
  <2>8. Sound'
    BY <1>5, <1>6, <2>2, <2>4, <2>5, <2>6, <2>7, SoundPartsNext
  <2>9. ASSUME Settles, Settled PROVE Settled'
    <3>1. ReadMeansRefusing'
      BY <1>1, <1>3, <1>8, <2>1, <2>3, <2>9
      DEF Settled, ReadMeansRefusing, Reading, SameHandoff, Draining
    <3>2. LateIdleMeansNoWork'
      <4>1. pc[t] = "idle" => WorkingTasks = {}
        BY <1>2, WorkersTyped DEF Relies
      <4> QED BY <1>6, <1>8, <2>1, <2>9, <4>1 DEF Settled, LateIdleMeansNoWork
    <3>3. ReleasesAreOwn'
      <4>1. \A i, operation : Retains(i, operation, Len(log) + 1) =>
              /\ i \in Positions'
              /\ log'[i].kind = "idle" /\ log'[i].operation = operation
              /\ \A q \in Releases' : i < q /\ q < Len(log') + 1 => log'[q].operation = operation
        BY <1>1, <2>3 DEF Retains
      <4>2. state.retained # 0 =>
              /\ Retains(state.retained, state.operation, Len(log) + 1)
              /\ \A r \in late' : r.kind = "release" => r.operation = state.operation
        BY <1>8, <2>1, <2>9 DEF Settled, ReleasesAreOwn
      <4>3. record.kind = "release" /\ record.expected # 0 =>
              Retains(record.expected, record.operation, Len(log) + 1)
        BY <1>2, <2>1, <4>2 DEF Relies
      <4>4. \A r \in late' : r.kind = "release" /\ r.expected # 0 =>
              Retains(r.expected, r.operation, Len(log) + 1)
        BY <1>8, <2>9, <4>3 DEF Settled, ReleasesAreOwn
      <4> QED BY <1>1, <1>3, <2>3, <4>2, <4>4 DEF ReleasesAreOwn, Retains, SameHandoff
    <3>4. IdleMeansNoWork'
      BY <1>1, <1>6, <2>3, <2>9 DEF Settled, IdleMeansNoWork
    <3>5. ReleaseMatchesIdle'
      BY <1>1, <2>3, <2>9 DEF Settled, ReleaseMatchesIdle, Retains
    <3> QED BY <3>1, <3>2, <3>3, <3>4, <3>5 DEF Settled
  <2> QED BY <2>8, <2>9 DEF IInv
<1> QED BY <1>1, <1>7, <1>8

-----------------------------------------------------------------------------
(* The environment *)

LEMMA CommitsKeeps ==
  ASSUME IInv, NEW record \in Record, Commits(record), SoundRecord(record),
         record.kind \in Lifecycle \cup {"data"},
         record.kind \in Lifecycle => record \in late
  PROVE  IInv'
<1>1. /\ Grows(record) /\ epoch' = epoch /\ state' = state
      /\ UNCHANGED <<lock, pc, call, cursor, closing, closed>>
  BY DEF Commits, Grows, Unseen
<1>2. Sound /\ Typed /\ Control /\ (\A t \in Task : Relies(t)) /\ state \in State
  BY SoundParts DEF IInv, Typed
<1>3. Continues /\ log' \in Seq(Record) /\ MarkersAreSound' /\ IdleFollowsFence'
  BY <1>1, <1>2, GrowsFacts, GrowsSound
<1>4. Typed'
  BY <1>1, <1>2, <1>3 DEF Typed, Grows
<1>5. Control' /\ WorkingTasks' = WorkingTasks
  BY <1>1, <1>2 DEF Control, LockIsHeld, WorkingTasks
<1>6. \A t \in Task : Relies(t)'
  BY <1>1, <1>2 DEF Relies
<1>7. FenceIsLogged' /\ ReceiptIsExact'
  BY <1>1, <1>2, <1>3, RemembersKeeps DEF Sound, Remembers
<1>8. WorkIsCounted'
  BY <1>1, <1>2, <1>5, FewerWorkers
<1>9. Sound'
  BY <1>3, <1>4, <1>5, <1>6, <1>7, <1>8, SoundPartsNext
<1>10. ASSUME Settles, Settled PROVE Settled'
  <2>1. record.kind = "idle" => WorkingTasks = {}
    BY <1>10 DEF Settled, LateIdleMeansNoWork, Lifecycle
  <2>2. record.kind = "release" /\ record.expected # 0 =>
          Retains(record.expected, record.operation, Len(log) + 1)
    BY <1>10 DEF Settled, ReleasesAreOwn, Lifecycle
  <2>3. state'.retained # 0 => Retains(state.retained, state.operation, Len(log) + 1)'
    <3>1. ASSUME state.retained # 0 PROVE Retains(state.retained, state.operation, Len(log) + 1)'
      <4>1. /\ Retains(state.retained, state.operation, Len(log) + 1) /\ state.retained \in Nat
            /\ record.kind = "release" => record.operation = state.operation
        BY <1>2, <1>10, <3>1, StateTyped DEF Settled, ReleasesAreOwn, Lifecycle
      <4>2. ASSUME NEW i, NEW operation, i = state.retained, operation = state.operation
            PROVE Retains(i, operation, Len(log) + 1)'
        BY <1>1, <1>2, <4>1, <4>2, GrowsRetains
      <4> QED BY <1>1, <4>2
    <3> QED BY <1>1, <3>1
  <2>4. state'.hydrated = "yes" =>
          IF record.kind \in Lifecycle THEN record.kind = "release" \/ Draining(state)'
          ELSE state.hydrated = "yes" /\ state'.operation = state.operation
    BY <1>1, <1>10 DEF Settled, ReadMeansRefusing, Draining
  <2> QED BY <1>1, <1>2, <1>5, <1>10, <2>1, <2>2, <2>3, <2>4, GrowsSettled
<1> QED BY <1>9, <1>10 DEF IInv

LEMMA LateCommitKeeps ==
  ASSUME IInv, LateCommit
  PROVE  IInv'
<1>1. PICK record \in late : Commits(record)
  BY DEF LateCommit
<1>2. Sound /\ Typed
  BY SoundParts DEF IInv
<1>3. record \in Record /\ record.kind \in Lifecycle /\ SoundRecord(record)
  BY <1>2 DEF Typed, Sound, MarkersAreSound, SoundRecord
<1> QED BY <1>1, <1>3, CommitsKeeps

LEMMA OtherAppendKeeps ==
  ASSUME IInv, OtherAppend
  PROVE  IInv'
<1>1. Data \in Record /\ Data.kind = "data" /\ Data.kind \notin Lifecycle
  BY DEF Data, Record, Lifecycle
<1>2. Commits(Data) /\ SoundRecord(Data)
  BY <1>1 DEF OtherAppend, SoundRecord
<1> QED BY <1>1, <1>2, CommitsKeeps

\* Another process starts: it knows nothing and does nothing yet.
LEMMA RestartKeeps ==
  ASSUME IInv, Restart
  PROVE  IInv'
<1>1. /\ epoch < MaxEpoch /\ epoch' = epoch + 1 /\ state' = Fresh /\ lock' = Free
      /\ pc' = [t \in Task |-> "none"] /\ call' = [t \in Task |-> NoCall]
      /\ cursor' = [t \in Task |-> 0] /\ closing' = {} /\ closed' = FALSE
      /\ log' = log /\ late' = late
  BY DEF Restart, Unlogged
<1>2. Sound /\ Typed
  BY SoundParts DEF IInv
<1>3. /\ Fresh \in State /\ Fresh.fence = 0 /\ Fresh.retained = 0 /\ Fresh.receipt = 0
      /\ Fresh.active = 0 /\ Fresh.hydrated = "never"
  BY DEF Fresh, State
<1>4. SameLog
  BY <1>1 DEF SameLog
<1>5. Typed'
  <2>1. epoch' \in 1 .. MaxEpoch
    BY <1>1, <1>2 DEF Typed
  <2>2. log' \in Seq(Record) /\ late' \subseteq Record /\ state' \in State
    BY <1>1, <1>2, <1>3 DEF Typed
  <2>3. closing' \subseteq Task /\ closed' \in BOOLEAN
    BY <1>1
  <2> QED BY <2>1, <2>2, <2>3 DEF Typed
<1>6. Control' /\ WorkingTasks' = {}
  BY <1>1 DEF Control, LockIsHeld, WorkingTasks, NoCall, Call, Pc, NamesOperation, Inside
<1>7. \A t \in Task : Relies(t)'
  BY <1>1 DEF Relies
<1>8. MarkersAreSound' /\ IdleFollowsFence'
  BY <1>2, <1>4, SameLogKeeps DEF Sound
<1>9. FenceIsLogged' /\ ReceiptIsExact'
  BY <1>1, <1>3 DEF FenceIsLogged, ReceiptIsExact
<1>10. WorkIsCounted'
  BY <1>1, <1>3, <1>6, FS_EmptySet DEF WorkIsCounted
<1>11. Sound'
  BY <1>5, <1>6, <1>7, <1>8, <1>9, <1>10, SoundPartsNext
<1>12. ASSUME Settles, Settled PROVE Settled'
  <2>1. Positions' = Positions /\ Releases' = Releases
    BY <1>4, SameLogKeeps
  <2>2. ReadMeansRefusing' /\ LateIdleMeansNoWork' /\ IdleMeansNoWork'
    BY <1>1, <1>3, <1>6 DEF ReadMeansRefusing, LateIdleMeansNoWork, IdleMeansNoWork
  <2>3. ReleasesAreOwn'
    BY <1>1, <1>3, <1>12, <2>1 DEF Settled, ReleasesAreOwn, Retains
  <2>4. ReleaseMatchesIdle'
    BY <1>4, <1>12, SameLogKeeps DEF Settled
  <2> QED BY <2>2, <2>3, <2>4 DEF Settled
<1> QED BY <1>11, <1>12 DEF IInv

-----------------------------------------------------------------------------
(* The theorems *)

LEMMA InitSatisfiesIInv ==
  ASSUME Init
  PROVE  IInv
<1>1. /\ Fresh \in State /\ Fresh.fence = 0 /\ Fresh.retained = 0 /\ Fresh.receipt = 0
      /\ Fresh.active = 0 /\ Fresh.hydrated = "never"
  BY DEF Fresh, State
<1>2. Typed
  <2>1. epoch \in 1 .. MaxEpoch
    BY DEF Init
  <2>2. log \in Seq(Record) /\ late \subseteq Record /\ state \in State
    BY <1>1 DEF Init
  <2>3. closing \subseteq Task /\ closed \in BOOLEAN
    BY DEF Init
  <2> QED BY <2>1, <2>2, <2>3 DEF Typed
<1>3. Control /\ WorkingTasks = {}
  BY DEF Init, Control, LockIsHeld, WorkingTasks, NoCall, Call, Pc, NamesOperation, Inside
<1>4. \A t \in Task : Relies(t)
  BY DEF Init, Relies
<1>5. Positions = {} /\ Releases = {} /\ late = {}
  <2>1. Positions \subseteq 1 .. Len(log) /\ Len(log) = 0
    BY DEF Positions, Init
  <2>2. Positions = {}
    BY <2>1
  <2> QED BY <2>2 DEF Releases, Init
<1>6. MarkersAreSound /\ IdleFollowsFence
  BY <1>5 DEF MarkersAreSound, IdleFollowsFence
<1>7. FenceIsLogged /\ ReceiptIsExact
  BY <1>1 DEF Init, FenceIsLogged, ReceiptIsExact
<1>8. WorkIsCounted
  BY <1>1, <1>3, FS_EmptySet DEF Init, WorkIsCounted
<1>9. Sound
  BY <1>2, <1>3, <1>4, <1>6, <1>7, <1>8, SoundParts
<1>10. Settled
  <2>1. ReadMeansRefusing
    BY <1>5 DEF ReadMeansRefusing
  <2>2. LateIdleMeansNoWork /\ IdleMeansNoWork
    BY <1>5 DEF LateIdleMeansNoWork, IdleMeansNoWork
  <2>3. ReleasesAreOwn
    BY <1>1, <1>5 DEF Init, ReleasesAreOwn
  <2>4. ReleaseMatchesIdle
    BY <1>5 DEF ReleaseMatchesIdle
  <2> QED BY <2>1, <2>2, <2>3, <2>4 DEF Settled
<1> QED BY <1>9, <1>10 DEF IInv

LEMMA StutteringKeeps ==
  ASSUME IInv, UNCHANGED vars
  PROVE  IInv'
<1>1. /\ log' = log /\ late' = late /\ epoch' = epoch /\ state' = state /\ lock' = lock
      /\ pc' = pc /\ call' = call /\ cursor' = cursor /\ closing' = closing /\ closed' = closed
  BY DEF vars
<1>2. Sound /\ Typed /\ Control /\ (\A t \in Task : Relies(t))
  BY SoundParts DEF IInv
<1>3. SameLog /\ SameHandoff /\ Reading /\ Typed' /\ Control' /\ WorkingTasks' = WorkingTasks
  BY <1>1, <1>2 DEF SameLog, SameHandoff, Reading, Typed, Control, LockIsHeld, WorkingTasks
<1>4. \A t \in Task : Relies(t)'
  BY <1>1, <1>2 DEF Relies
<1>5. WorkIsCounted'
  BY <1>1, <1>2, <1>3, FewerWorkers
<1> QED BY <1>1, <1>3, <1>4, <1>5, QuietStep

LEMMA StepKeeps ==
  ASSUME IInv, NEW t \in Task, Step(t)
  PROVE  IInv'
<1>1. CASE Hydrate(t) \/ Admit(t) \/ Return(t) \/ Prepare(t) \/ Finish(t)
  BY <1>1, HydrateKeeps, AdmitKeeps, ReturnKeeps, PrepareKeeps, FinishKeeps
<1>2. CASE Hooks(t) \/ Timeout(t)
  BY <1>2, TaskAsideKeeps
<1>3. CASE Status(t) \/ Wait(t) \/ Awake(t) \/ Release(t) \/ ReadCursor(t)
  BY <1>3, StatusKeeps, WaitKeeps, AwakeKeeps, ReleaseKeeps, ReadCursorKeeps
<1>4. CASE AppendFence(t) \/ AppendIdle(t) \/ AppendRelease(t) \/ AppendFails(t)
  BY <1>4, AppendFenceKeeps, AppendIdleKeeps, AppendReleaseKeeps, AppendFailsKeeps
<1> QED BY <1>1, <1>2, <1>3, <1>4 DEF Step

\* IInv holds in every state that the admission of work can reach.
THEOREM IInvHolds == Spec => []IInv
<1>1. Init => IInv
  BY InitSatisfiesIInv
<1>2. ASSUME IInv, [Next]_vars PROVE IInv'
  <2>1. CASE UNCHANGED vars
    BY <1>2, <2>1, StutteringKeeps
  <2>2. ASSUME NEW t \in Task, Begin(t) PROVE IInv'
    BY <1>2, <2>2, BeginKeeps
  <2>3. ASSUME NEW t \in Task, EndTurn(t) \/ CancelReturn(t) PROVE IInv'
    BY <1>2, <2>3, TaskAsideKeeps
  <2>4. ASSUME NEW t \in Task, Step(t) PROVE IInv'
    BY <1>2, <2>4, StepKeeps
  <2>5. CASE LateCommit \/ OtherAppend \/ Restart
    BY <1>2, <2>5, LateCommitKeeps, OtherAppendKeeps, RestartKeeps
  <2> QED BY <1>2, <2>1, <2>2, <2>3, <2>4, <2>5 DEF Next
<1> QED BY <1>1, <1>2, PTL DEF Spec

\* Every reachable state has its types, for any tasks, operations and store.
THEOREM TypesHold == Spec => []TypeOK
<1>1. IInv => TypeOK
  BY DEF IInv, Sound
<1> QED BY <1>1, IInvHolds, PTL

\* Every turn that holds a permit is counted.
THEOREM WorkAlwaysCounted == Spec => []WorkIsCounted
<1>1. IInv => WorkIsCounted
  BY DEF IInv, Sound
<1> QED BY <1>1, IInvHolds, PTL

\* The receipt is an idle marker of the process and of the handoff in force, at
\* the position it attests.
THEOREM ReceiptAlwaysExact == Spec => []ReceiptIsExact
<1>1. IInv => ReceiptIsExact
  BY DEF IInv, Sound
<1> QED BY <1>1, IInvHolds, PTL

\* No idle marker without a fence of its operation before it
THEOREM IdleAlwaysFenced == Spec => []IdleFollowsFence
<1>1. IInv => IdleFollowsFence
  BY DEF IInv, Sound
<1> QED BY <1>1, IInvHolds, PTL

\* On a store that settles before it is read, no turn holds a permit while the
\* last marker of the log is an idle one.
THEOREM IdleAlwaysMeansNoWork == Settles => (Spec => []IdleMeansNoWork)
<1>1. Settles /\ IInv => IdleMeansNoWork
  BY DEF IInv, Settled
<1>2. ASSUME Settles PROVE IInv => IdleMeansNoWork
  BY <1>1, <1>2
<1>3. ASSUME Settles PROVE Spec => []IdleMeansNoWork
  BY <1>2, <1>3, IInvHolds, PTL
<1> QED BY <1>3

\* There, a release that names an idle record releases the handoff of that
\* record and of no other.
THEOREM ReleaseAlwaysMatchesIdle == Settles => (Spec => []ReleaseMatchesIdle)
<1>1. ASSUME Settles PROVE IInv => ReleaseMatchesIdle
  BY <1>1 DEF IInv, Settled
<1>2. ASSUME Settles PROVE Spec => []ReleaseMatchesIdle
  BY <1>1, <1>2, IInvHolds, PTL
<1> QED BY <1>2

-----------------------------------------------------------------------------
(* The markers read at once, and one after the other *)

\* What a state b becomes when the open markers are those at the positions in O
OursIn(O) == {i \in O : \A j \in O : j >= i => log[j].operation = log[LastOf(O)].operation}
IdlesIn(O) == {i \in OursIn(O) : log[i].kind = "idle"}
SameIn(O, b) == OursIn(O) = O /\ log[LastOf(O)].operation = b.operation

RetainedIn(O, b) ==
  IF SameIn(O, b) /\ b.retained # 0 THEN b.retained ELSE FirstOf(IdlesIn(O))

ReceiptIn(O, b) ==
  IF IdlesIn(O) # {} THEN IF log[LastOf(IdlesIn(O))].epoch = epoch THEN LastOf(IdlesIn(O)) ELSE 0
  ELSE IF SameIn(O, b) THEN b.receipt ELSE 0

Marked(b, operation, fence, retained, receipt) ==
  [operation |-> operation, active |-> b.active, receipt |-> receipt, fence |-> fence,
   hydrated |-> b.hydrated, hooks |-> b.hooks, retained |-> retained, released |-> 0]

ReadFrom(b, O) ==
  IF O = {} THEN b
  ELSE Marked(b, log[LastOf(O)].operation, LastOf(O), RetainedIn(O, b), ReceiptIn(O, b))

\* One more open marker, at position n
LEMMA OursGrow ==
  ASSUME NEW O, NEW n \in Nat \ {0}, \A i \in O : i \in Nat /\ 1 <= i /\ i < n
  PROVE  /\ LastOf(O \cup {n}) = n
         /\ O # {} => LastOf(O) \in O
         /\ OursIn(O \cup {n}) =
              IF O # {} /\ log[LastOf(O)].operation # log[n].operation THEN {n}
              ELSE OursIn(O) \cup {n}
<1> DEFINE P == O \cup {n}
           last == LastOf(O)
<1>1. LastOf(P) = n
  <2>1. IsLast(n, P) /\ P \subseteq 1 .. n
    BY DEF IsLast
  <2> QED BY <2>1, LastIsUnique
<1>2. O # {} => last \in O /\ \A i \in O : i <= last
  <2>1. O \subseteq 1 .. n
    OBVIOUS
  <2> QED BY <2>1, LastIsLast DEF IsLast
<1> HIDE DEF last
<1>3. OursIn(P) = {i \in P : \A j \in P : j >= i => log[j].operation = log[n].operation}
  BY <1>1 DEF OursIn
<1>4. n \in OursIn(P)
  <2>1. \A j \in P : j >= n => j = n
    OBVIOUS
  <2> QED BY <1>3, <2>1
<1>5. ASSUME O # {}, log[last].operation # log[n].operation, NEW i \in O PROVE i \notin OursIn(P)
  BY <1>2, <1>3, <1>5
<1>6. ASSUME O # {}, log[last].operation = log[n].operation, NEW i \in O
      PROVE i \in OursIn(P) <=> i \in OursIn(O)
  BY <1>3, <1>6 DEF OursIn, last
<1>7. OursIn(P) \subseteq P /\ OursIn(O) \subseteq O
  BY DEF OursIn
<1>8. CASE O # {} /\ log[last].operation # log[n].operation
  BY <1>1, <1>2, <1>4, <1>5, <1>7, <1>8 DEF last
<1>9. CASE O # {} /\ log[last].operation = log[n].operation
  BY <1>1, <1>2, <1>4, <1>6, <1>7, <1>9 DEF last
<1>10. CASE O = {}
  BY <1>1, <1>4, <1>7, <1>10
<1> QED BY <1>8, <1>9, <1>10

LEMMA FirstGrows ==
  ASSUME NEW S, NEW n \in Nat, \A i \in S : i \in Nat /\ 1 <= i /\ i < n
  PROVE  /\ FirstOf(S \cup {n}) = IF S = {} THEN n ELSE FirstOf(S)
         /\ S # {} => FirstOf(S) # 0
<1>1. S # {} => IsFirst(FirstOf(S), S)
  BY FirstIsFirst
<1>2. CASE S = {}
  <2>1. IsFirst(n, S \cup {n})
    BY <1>2 DEF IsFirst
  <2> QED BY <1>2, <2>1, FirstIsUnique
<1>3. CASE S # {}
  <2> DEFINE first == FirstOf(S)
  <2>1. first \in S /\ \A i \in S : first <= i
    BY <1>1, <1>3 DEF IsFirst
  <2> HIDE DEF first
  <2>2. IsFirst(first, S \cup {n}) /\ first # 0
    BY <2>1 DEF IsFirst
  <2>3. FirstOf(S \cup {n}) = first
    BY <2>2, FirstIsUnique
  <2> QED BY <1>3, <2>2, <2>3 DEF first
<1> QED BY <1>2, <1>3

\* The operation, the retained marker and the receipt that the last marker finds
\* are those of the state before, unless the operation changes.
SameAs(b, O, n) ==
  log[n].operation = IF O = {} THEN b.operation ELSE log[LastOf(O)].operation

RetainedBefore(b, O) == IF O = {} THEN b.retained ELSE RetainedIn(O, b)
ReceiptBefore(b, O) == IF O = {} THEN b.receipt ELSE ReceiptIn(O, b)

LEMMA MarksGrow ==
  ASSUME NEW O, NEW n \in Nat \ {0}, \A i \in O : i \in Nat /\ 1 <= i /\ i < n, NEW b
  PROVE  /\ SameIn(O \cup {n}, b) <=> SameAs(b, O, n) /\ (O # {} => SameIn(O, b))
         /\ IdlesIn(O \cup {n}) = (IF SameAs(b, O, n) THEN IdlesIn(O) ELSE {})
                                  \cup (IF log[n].kind = "idle" THEN {n} ELSE {})
<1> DEFINE P == O \cup {n}
<1>1. /\ LastOf(P) = n
      /\ O # {} => LastOf(O) \in O
      /\ OursIn(P) = IF O # {} /\ log[LastOf(O)].operation # log[n].operation THEN {n}
                     ELSE OursIn(O) \cup {n}
  BY OursGrow
<1>2. n \notin O /\ OursIn(O) \subseteq O
  BY DEF OursIn
<1>3. IdlesIn(P) = {i \in OursIn(P) : log[i].kind = "idle"} /\ IdlesIn(O) = {i \in OursIn(O) : log[i].kind = "idle"}
  BY DEF IdlesIn
<1>4. SameIn(P, b) <=> OursIn(P) = P /\ log[n].operation = b.operation
  BY <1>1 DEF SameIn
<1> HIDE DEF P
<1>5. CASE O = {}
  BY <1>1, <1>2, <1>3, <1>4, <1>5 DEF SameAs, P
<1>6. CASE O # {} /\ log[LastOf(O)].operation # log[n].operation
  BY <1>1, <1>2, <1>3, <1>4, <1>6 DEF SameAs, P
<1>7. CASE O # {} /\ log[LastOf(O)].operation = log[n].operation
  <2>1. OursIn(P) = OursIn(O) \cup {n} /\ SameAs(b, O, n)
    BY <1>1, <1>7 DEF SameAs
  <2>2. OursIn(P) = P <=> OursIn(O) = O
    BY <1>2, <2>1 DEF P
  <2>3. SameIn(P, b) <=> SameIn(O, b)
    BY <1>4, <1>7, <2>2 DEF SameIn
  <2>4. IdlesIn(P) = IdlesIn(O) \cup (IF log[n].kind = "idle" THEN {n} ELSE {})
    BY <1>3, <2>1
  <2> QED BY <1>7, <2>1, <2>3, <2>4 DEF P
<1> QED BY <1>5, <1>6, <1>7

LEMMA RetainedGrows ==
  ASSUME NEW O, NEW n \in Nat \ {0}, \A i \in O : i \in Nat /\ 1 <= i /\ i < n, NEW b
  PROVE  LET kept == IF SameAs(b, O, n) THEN RetainedBefore(b, O) ELSE 0
         IN  RetainedIn(O \cup {n}, b) = IF log[n].kind = "idle" /\ kept = 0 THEN n ELSE kept
<1> DEFINE P == O \cup {n}
           same == SameAs(b, O, n)
           rest == IF same THEN IdlesIn(O) ELSE {}
<1>1. /\ SameIn(P, b) <=> same /\ (O # {} => SameIn(O, b))
      /\ IdlesIn(P) = rest \cup (IF log[n].kind = "idle" THEN {n} ELSE {})
  BY MarksGrow
<1>2. \A i \in rest : i \in Nat /\ 1 <= i /\ i < n
  BY DEF IdlesIn, OursIn
<1>3. /\ FirstOf(rest \cup {n}) = IF rest = {} THEN n ELSE FirstOf(rest)
      /\ rest # {} => FirstOf(rest) # 0
  BY <1>2, FirstGrows
<1>4. rest = {} => FirstOf(rest) = 0
  BY DEF FirstOf
<1>5. O = {} => IdlesIn(O) = {}
  BY DEF IdlesIn, OursIn
<1>6. RetainedIn(P, b) = IF SameIn(P, b) /\ b.retained # 0 THEN b.retained ELSE FirstOf(IdlesIn(P))
  BY DEF RetainedIn
<1>7. RetainedIn(O, b) = IF SameIn(O, b) /\ b.retained # 0 THEN b.retained ELSE FirstOf(IdlesIn(O))
  BY DEF RetainedIn
<1>8. FirstOf(IdlesIn(P)) = IF log[n].kind = "idle" /\ rest = {} THEN n ELSE FirstOf(rest)
  BY <1>1, <1>3
<1> HIDE DEF P, same
<1>9. CASE ~same
  BY <1>1, <1>4, <1>6, <1>8, <1>9 DEF same, P
<1>10. CASE same /\ O = {}
  BY <1>1, <1>4, <1>5, <1>6, <1>8, <1>10 DEF same, P, RetainedBefore
<1>11. CASE same /\ O # {}
  BY <1>1, <1>3, <1>4, <1>6, <1>7, <1>8, <1>11 DEF same, P, RetainedBefore
<1> QED BY <1>9, <1>10, <1>11

LEMMA ReceiptGrows ==
  ASSUME NEW O, NEW n \in Nat \ {0}, \A i \in O : i \in Nat /\ 1 <= i /\ i < n, NEW b
  PROVE  ReceiptIn(O \cup {n}, b) =
           IF log[n].kind = "idle" THEN IF log[n].epoch = epoch THEN n ELSE 0
           ELSE IF SameAs(b, O, n) THEN ReceiptBefore(b, O) ELSE 0
<1> DEFINE P == O \cup {n}
           same == SameAs(b, O, n)
           rest == IF same THEN IdlesIn(O) ELSE {}
<1>1. /\ SameIn(P, b) <=> same /\ (O # {} => SameIn(O, b))
      /\ IdlesIn(P) = rest \cup (IF log[n].kind = "idle" THEN {n} ELSE {})
  BY MarksGrow
<1>2. ReceiptIn(P, b) = IF IdlesIn(P) # {}
                        THEN IF log[LastOf(IdlesIn(P))].epoch = epoch THEN LastOf(IdlesIn(P)) ELSE 0
                        ELSE IF SameIn(P, b) THEN b.receipt ELSE 0
  BY DEF ReceiptIn
<1>3. \A i \in rest : i \in Nat /\ 1 <= i /\ i < n
  BY DEF IdlesIn, OursIn
<1>4. LastOf(rest \cup {n}) = n
  BY <1>3, OursGrow
<1>5. CASE log[n].kind = "idle"
  <2>1. IdlesIn(P) = rest \cup {n}
    BY <1>1, <1>5
  <2>2. IdlesIn(P) # {} /\ LastOf(IdlesIn(P)) = n
    BY <1>4, <2>1
  <2> QED BY <1>2, <1>5, <2>2
<1>6. CASE log[n].kind # "idle"
  <2>1. IdlesIn(P) = rest
    BY <1>1, <1>6
  <2>2. O = {} => IdlesIn(O) = {}
    BY DEF IdlesIn, OursIn
  <2> HIDE DEF P, same
  <2> QED BY <1>1, <1>2, <1>6, <2>1, <2>2 DEF ReceiptBefore, ReceiptIn, same, P
<1> QED BY <1>5, <1>6

LEMMA StatesEqual ==
  ASSUME NEW s \in State, NEW r \in State,
         s.operation = r.operation, s.active = r.active, s.receipt = r.receipt,
         s.fence = r.fence, s.hydrated = r.hydrated, s.hooks = r.hooks,
         s.retained = r.retained, s.released = r.released
  PROVE  s = r
BY DEF State

\* A release forgets what it ends.
Forgotten(s, n) ==
  [s EXCEPT !.operation = NoOperation, !.receipt = 0, !.fence = 0, !.retained = 0, !.released = n]

LEMMA ReleaseForgets ==
  ASSUME NEW s \in State, NEW n \in Nat
  PROVE  /\ Forgotten(s, n) \in State
         /\ Forgotten(s, n).active = s.active /\ Forgotten(s, n).hooks = s.hooks
         /\ Forgotten(s, n).hydrated = s.hydrated
         /\ Forgotten(s, n).operation = NoOperation /\ Forgotten(s, n).receipt = 0
         /\ Forgotten(s, n).fence = 0 /\ Forgotten(s, n).retained = 0
         /\ Forgotten(s, n).released = n
BY DEF State, Forgotten

\* What one turn of the loop makes of a marker of a handoff
LEMMA ApplyMarks ==
  ASSUME NEW s \in State, NEW n \in Nat, log[n].operation \in Operation \cup {NoOperation},
         log[n].kind \in {"fence", "idle"}
  PROVE  LET same     == log[n].operation = s.operation
             retained == IF same THEN s.retained ELSE 0
             receipt  == IF same THEN s.receipt ELSE 0
         IN  Apply(s, n) =
               Marked(s, log[n].operation, n,
                      IF log[n].kind = "idle" /\ retained = 0 THEN n ELSE retained,
                      IF log[n].kind = "idle" THEN IF log[n].epoch = epoch THEN n ELSE 0
                      ELSE receipt)
<1> DEFINE operation == log[n].operation
           changed   == IF operation = s.operation THEN s ELSE [s EXCEPT !.retained = 0, !.receipt = 0]
           retained  == IF operation = s.operation THEN s.retained ELSE 0
           receipt   == IF operation = s.operation THEN s.receipt ELSE 0
           fenced    == [changed EXCEPT !.operation = operation, !.fence = n, !.released = 0]
<1>1. /\ changed \in State
      /\ changed.active = s.active /\ changed.hydrated = s.hydrated /\ changed.hooks = s.hooks
      /\ changed.retained = retained /\ changed.receipt = receipt
  BY DEF State
<1> HIDE DEF changed, retained, receipt
<1>2. /\ fenced \in State
      /\ fenced.active = s.active /\ fenced.hydrated = s.hydrated /\ fenced.hooks = s.hooks
      /\ fenced.retained = retained /\ fenced.receipt = receipt
      /\ fenced.operation = operation /\ fenced.fence = n /\ fenced.released = 0
  BY <1>1 DEF State
<1> HIDE DEF fenced, operation
<1>3. fenced = Marked(s, operation, n, retained, receipt)
  BY <1>2 DEF Marked, State
<1>4. CASE log[n].kind = "fence"
  <2>1. Apply(s, n) = fenced
    BY <1>4 DEF Apply, fenced, changed, operation
  <2> QED BY <1>3, <1>4, <2>1 DEF retained, receipt, operation
<1>5. CASE log[n].kind = "idle"
  <2>1. Apply(s, n) = [fenced EXCEPT !.retained = IF @ = 0 THEN n ELSE @,
                                     !.receipt = IF log[n].epoch = epoch THEN n ELSE 0]
    BY <1>5 DEF Apply, fenced, changed, operation
  <2> QED BY <1>3, <1>5, <2>1 DEF Marked, retained, receipt, operation
<1> QED BY <1>4, <1>5

LEMMA ReadFromTyped ==
  ASSUME Typed, NEW b \in State, NEW O \in SUBSET Positions
  PROVE  /\ ReadFrom(b, O) \in State
         /\ ReadFrom(b, O).active = b.active /\ ReadFrom(b, O).hooks = b.hooks
         /\ ReadFrom(b, O).hydrated = b.hydrated
<1>1. O \subseteq 1 .. Len(log) /\ O \subseteq Nat /\ Len(log) \in Nat
  BY PositionsTyped
<1>2. CASE O = {}
  BY <1>2 DEF ReadFrom
<1>3. CASE O # {}
  <2>1. LastOf(O) \in O /\ LastOf(O) \in Nat
    BY <1>1, <1>3, LastIsLast DEF IsLast
  <2>2. log[LastOf(O)].operation \in Operation \cup {NoOperation}
    BY <2>1, PositionsTyped, RecordTyped
  <2>3. IdlesIn(O) \subseteq O
    BY DEF IdlesIn, OursIn
  <2>4. IdlesIn(O) = {} => FirstOf(IdlesIn(O)) = 0
    BY DEF FirstOf
  <2>5. IdlesIn(O) # {} => FirstOf(IdlesIn(O)) \in Nat /\ LastOf(IdlesIn(O)) \in Nat
    BY <1>1, <2>3, FirstIsFirst, LastIsLast DEF IsFirst, IsLast
  <2>6. b.retained \in Nat /\ b.receipt \in Nat
    BY StateTyped
  <2>7. RetainedIn(O, b) \in Nat
    BY <2>4, <2>5, <2>6 DEF RetainedIn
  <2>8. ReceiptIn(O, b) \in Nat
    BY <2>5, <2>6 DEF ReceiptIn
  <2>9. ReadFrom(b, O) = Marked(b, log[LastOf(O)].operation, LastOf(O), RetainedIn(O, b), ReceiptIn(O, b))
    BY <1>3 DEF ReadFrom
  <2> QED BY <2>1, <2>2, <2>7, <2>8, <2>9, StateTyped DEF Marked, State
<1> QED BY <1>2, <1>3

\* One more marker read at once is one more turn of the loop.
LEMMA ReadMore ==
  ASSUME Typed, NEW b \in State, NEW n \in 1 .. Len(log), log[n].kind \in {"fence", "idle"},
         NEW O \in SUBSET Positions, \A i \in O : i < n
  PROVE  ReadFrom(b, O \cup {n}) = Apply(ReadFrom(b, O), n)
<1> DEFINE s == ReadFrom(b, O)
           retained == IF SameAs(b, O, n) THEN RetainedBefore(b, O) ELSE 0
           receipt  == IF SameAs(b, O, n) THEN ReceiptBefore(b, O) ELSE 0
<1>1. n \in Nat \ {0} /\ \A i \in O : i \in Nat /\ 1 <= i /\ i < n
  BY PositionsTyped
<1>2. /\ LastOf(O \cup {n}) = n
      /\ RetainedIn(O \cup {n}, b) = IF log[n].kind = "idle" /\ retained = 0 THEN n ELSE retained
      /\ ReceiptIn(O \cup {n}, b) =
           IF log[n].kind = "idle" THEN IF log[n].epoch = epoch THEN n ELSE 0 ELSE receipt
  <2>1. LastOf(O \cup {n}) = n
    BY <1>1, OursGrow
  <2>2. RetainedIn(O \cup {n}, b) = IF log[n].kind = "idle" /\ retained = 0 THEN n ELSE retained
    BY <1>1, RetainedGrows
  <2>3. ReceiptIn(O \cup {n}, b) =
          IF log[n].kind = "idle" THEN IF log[n].epoch = epoch THEN n ELSE 0 ELSE receipt
    BY <1>1, ReceiptGrows
  <2> QED BY <2>1, <2>2, <2>3
<1>3. /\ s \in State /\ s.active = b.active /\ s.hooks = b.hooks /\ s.hydrated = b.hydrated
      /\ s.operation = IF O = {} THEN b.operation ELSE log[LastOf(O)].operation
      /\ s.retained = RetainedBefore(b, O) /\ s.receipt = ReceiptBefore(b, O)
  <2>1. s \in State /\ s.active = b.active /\ s.hooks = b.hooks /\ s.hydrated = b.hydrated
    BY ReadFromTyped
  <2>2. CASE O = {}
    BY <2>1, <2>2 DEF ReadFrom, RetainedBefore, ReceiptBefore
  <2>3. CASE O # {}
    <3>1. s = Marked(b, log[LastOf(O)].operation, LastOf(O), RetainedIn(O, b), ReceiptIn(O, b))
      BY <2>3 DEF ReadFrom
    <3> HIDE DEF s
    <3> QED BY <2>1, <2>3, <3>1 DEF Marked, RetainedBefore, ReceiptBefore
  <2> QED BY <2>2, <2>3
<1>4. ReadFrom(b, O \cup {n}) =
        Marked(b, log[n].operation, n,
               IF log[n].kind = "idle" /\ retained = 0 THEN n ELSE retained,
               IF log[n].kind = "idle" THEN IF log[n].epoch = epoch THEN n ELSE 0 ELSE receipt)
  BY <1>2 DEF ReadFrom
<1> HIDE DEF s
<1>5. Apply(s, n) =
        Marked(s, log[n].operation, n,
               IF log[n].kind = "idle" /\ retained = 0 THEN n ELSE retained,
               IF log[n].kind = "idle" THEN IF log[n].epoch = epoch THEN n ELSE 0 ELSE receipt)
  <2>1. log[n].operation \in Operation \cup {NoOperation}
    BY RecordTyped DEF Typed
  <2> QED BY <1>1, <1>3, <2>1, ApplyMarks DEF SameAs
<1>6. Apply(s, n) = ReadFrom(b, O \cup {n})
  BY <1>3, <1>4, <1>5 DEF Marked
<1> QED BY <1>6 DEF s

\* The markers among the first n records, and what they make of the state
ReleasesTo(n) == {i \in Releases : i <= n}
OpenTo(n) == {i \in Positions : i <= n /\ \A j \in ReleasesTo(n) : j < i}

BeforeTo(n) ==
  IF ReleasesTo(n) = {} THEN state
  ELSE [state EXCEPT !.operation = NoOperation, !.receipt = 0, !.fence = 0,
                     !.retained = 0, !.released = LastOf(ReleasesTo(n))]

RestoredTo(n) == ReadFrom(BeforeTo(n), OpenTo(n))

LEMMA PrefixTyped ==
  ASSUME Typed, NEW n \in Nat
  PROVE  /\ OpenTo(n) \in SUBSET Positions
         /\ BeforeTo(n) \in State /\ RestoredTo(n) \in State
         /\ RestoredTo(n).active = state.active /\ RestoredTo(n).hooks = state.hooks
         /\ RestoredTo(n).hydrated = state.hydrated
<1>1. OpenTo(n) \in SUBSET Positions
  BY DEF OpenTo
<1>2. ReleasesTo(n) # {} => LastOf(ReleasesTo(n)) \in Nat
  <2>1. ReleasesTo(n) \subseteq 1 .. Len(log) /\ Len(log) \in Nat
    BY PositionsTyped DEF ReleasesTo
  <2>2. ReleasesTo(n) # {} => LastOf(ReleasesTo(n)) \in ReleasesTo(n)
    BY <2>1, LastIsLast DEF IsLast
  <2> QED BY <2>1, <2>2
<1>3. /\ BeforeTo(n) \in State
      /\ BeforeTo(n).active = state.active /\ BeforeTo(n).hooks = state.hooks
      /\ BeforeTo(n).hydrated = state.hydrated
  BY <1>2 DEF BeforeTo, Typed, State
<1> QED BY <1>1, <1>3, ReadFromTyped DEF RestoredTo

LEMMA ReadNothing ==
  ASSUME Typed
  PROVE  RestoredTo(0) = state
<1>1. ReleasesTo(0) = {} /\ OpenTo(0) = {}
  BY PositionsTyped DEF ReleasesTo, OpenTo
<1> QED BY <1>1 DEF RestoredTo, BeforeTo, ReadFrom

LEMMA ReadNext ==
  ASSUME Typed, NEW n \in 1 .. Len(log)
  PROVE  RestoredTo(n) = Apply(RestoredTo(n - 1), n)
<1> DEFINE s == RestoredTo(n - 1)
<1>1. /\ Len(log) \in Nat /\ n \in Nat /\ n - 1 \in Nat /\ n # 0
      /\ \A i \in Positions : i \in Nat /\ (i <= n <=> i <= n - 1 \/ i = n)
      /\ n \in Positions <=> log[n].kind # "data"
      /\ n \in Releases <=> log[n].kind = "release"
  <2>1. log[n].kind \in Lifecycle \cup {"data"}
    BY RecordTyped DEF Typed
  <2>2. Len(log) \in Nat /\ \A i \in Positions : i \in Nat
    BY PositionsTyped
  <2>3. n \in Positions <=> log[n].kind # "data"
    BY <2>1 DEF Positions, Lifecycle
  <2> QED BY <2>2, <2>3 DEF Releases
<1>2. /\ s \in State
      /\ s.active = state.active /\ s.hooks = state.hooks /\ s.hydrated = state.hydrated
  BY <1>1, PrefixTyped
<1>3. ReleasesTo(n) = ReleasesTo(n - 1) \cup (IF log[n].kind = "release" THEN {n} ELSE {})
  BY <1>1 DEF ReleasesTo, Releases
<1>4. \A j \in ReleasesTo(n - 1) : j < n
  BY <1>1 DEF ReleasesTo, Releases
<1>5. CASE log[n].kind = "data"
  <2>1. ReleasesTo(n) = ReleasesTo(n - 1)
    BY <1>3, <1>5
  <2>2. OpenTo(n) = OpenTo(n - 1)
    BY <1>1, <1>5, <2>1 DEF OpenTo
  <2>3. RestoredTo(n) = s
    BY <2>1, <2>2 DEF RestoredTo, BeforeTo
  <2> HIDE DEF s
  <2>4. Apply(s, n) = s
    BY <1>5 DEF Apply
  <2> QED BY <2>3, <2>4 DEF s
<1>6. CASE log[n].kind = "release"
  <2>1. n \in ReleasesTo(n) /\ ReleasesTo(n) # {} /\ \A i \in ReleasesTo(n) : i <= n
    BY <1>1, <1>6 DEF ReleasesTo
  <2>2. OpenTo(n) = {}
    <3>1. ASSUME NEW i \in OpenTo(n) PROVE FALSE
      <4>1. i \in Nat /\ i <= n /\ n < i
        BY <1>1, <2>1 DEF OpenTo
      <4> QED BY <1>1, <4>1
    <3> QED BY <3>1
  <2>3. LastOf(ReleasesTo(n)) = n
    <3>1. IsLast(n, ReleasesTo(n)) /\ ReleasesTo(n) \subseteq 1 .. n
      BY <2>1, PositionsTyped DEF IsLast, ReleasesTo
    <3> QED BY <1>1, <3>1, LastIsUnique
  <2>4. RestoredTo(n) = Forgotten(state, n)
    BY <2>1, <2>2, <2>3 DEF RestoredTo, BeforeTo, ReadFrom, Forgotten
  <2> HIDE DEF s
  <2>5. Apply(s, n) = Forgotten(s, n)
    BY <1>6 DEF Apply, Forgotten
  <2>6. state \in State
    BY DEF Typed
  <2> DEFINE r == Forgotten(state, n)
             t == Forgotten(s, n)
  <2>7. /\ r \in State
        /\ r.active = state.active /\ r.hooks = state.hooks /\ r.hydrated = state.hydrated
        /\ r.operation = NoOperation /\ r.receipt = 0 /\ r.fence = 0
        /\ r.retained = 0 /\ r.released = n
    BY <1>1, <2>6, ReleaseForgets
  <2>8. /\ t \in State
        /\ t.active = s.active /\ t.hooks = s.hooks /\ t.hydrated = s.hydrated
        /\ t.operation = NoOperation /\ t.receipt = 0 /\ t.fence = 0
        /\ t.retained = 0 /\ t.released = n
    BY <1>1, <1>2, ReleaseForgets
  <2> HIDE DEF r, t
  <2>9. r = t
    BY <1>2, <2>7, <2>8, StatesEqual
  <2> QED BY <2>4, <2>5, <2>9 DEF r, s, t
<1>7. CASE log[n].kind \in {"fence", "idle"}
  <2>1. ReleasesTo(n) = ReleasesTo(n - 1)
    BY <1>3, <1>7
  <2>2. OpenTo(n) = OpenTo(n - 1) \cup {n}
    BY <1>1, <1>4, <1>7, <2>1 DEF OpenTo
  <2>3. BeforeTo(n) = BeforeTo(n - 1)
    BY <2>1 DEF BeforeTo
  <2>4. \A i \in OpenTo(n - 1) : i < n
    BY <1>1 DEF OpenTo
  <2>5. OpenTo(n - 1) \in SUBSET Positions /\ BeforeTo(n - 1) \in State
    BY <1>1, PrefixTyped
  <2>6. ReadFrom(BeforeTo(n - 1), OpenTo(n - 1) \cup {n}) = Apply(ReadFrom(BeforeTo(n - 1), OpenTo(n - 1)), n)
    BY <1>7, <2>4, <2>5, ReadMore
  <2> QED BY <2>2, <2>3, <2>6 DEF RestoredTo
<1>8. log[n].kind \in {"data", "release", "fence", "idle"}
  BY RecordTyped DEF Typed, Lifecycle
<1> QED BY <1>5, <1>6, <1>7, <1>8

LEMMA ReadAll ==
  ASSUME Typed
  PROVE  RestoredTo(Len(log)) = Restored
<1> DEFINE b     == BeforeTo(Len(log))
           last  == LastOf(Open)
           ours  == {i \in Open : \A j \in Open : j >= i => log[j].operation = log[last].operation}
           same  == ours = Open /\ log[last].operation = b.operation
           idles == {i \in ours : log[i].kind = "idle"}
<1>1. Len(log) \in Nat /\ \A i \in Positions : i \in Nat /\ i <= Len(log) /\ i # 0
  BY PositionsTyped
<1>2. ReleasesTo(Len(log)) = Releases
  BY <1>1 DEF ReleasesTo, Releases
<1>3. OpenTo(Len(log)) = Open
  BY <1>1, <1>2 DEF OpenTo, Open
<1>4. LastOf(Releases) = 0 <=> Releases = {}
  <2>1. Releases # {} => LastOf(Releases) \in Releases
    BY <1>1, LastIsLast, PositionsTyped DEF IsLast
  <2>2. Releases = {} => LastOf(Releases) = 0
    BY DEF LastOf
  <2> QED BY <1>1, <2>1, <2>2 DEF Releases
<1>5. b = Before
  BY <1>2, <1>4 DEF BeforeTo, Before
<1>6. CASE Open = {}
  <2>1. Restored = Before
    BY <1>6 DEF Restored, Before
  <2> QED BY <1>3, <1>5, <1>6, <2>1 DEF RestoredTo, ReadFrom
<1>7. CASE Open # {}
  <2>1. ours = OursIn(Open) /\ idles = IdlesIn(Open) /\ same = SameIn(Open, b)
    BY DEF OursIn, IdlesIn, SameIn
  <2>2. Restored = [b EXCEPT
          !.operation = log[last].operation, !.fence = last, !.released = 0,
          !.retained = IF same /\ b.retained # 0 THEN b.retained ELSE FirstOf(idles),
          !.receipt = IF idles # {} THEN IF log[LastOf(idles)].epoch = epoch THEN LastOf(idles) ELSE 0
                      ELSE IF same THEN b.receipt ELSE 0]
    BY <1>5, <1>7 DEF Restored, Before
  <2>3. Restored = [b EXCEPT
          !.operation = log[last].operation, !.fence = last, !.released = 0,
          !.retained = RetainedIn(Open, b), !.receipt = ReceiptIn(Open, b)]
    BY <2>1, <2>2 DEF RetainedIn, ReceiptIn
  <2>4. b \in State
    BY <1>1, PrefixTyped
  <2>5. RestoredTo(Len(log)) = Marked(b, log[last].operation, last, RetainedIn(Open, b), ReceiptIn(Open, b))
    BY <1>3, <1>7 DEF RestoredTo, ReadFrom
  <2>6. RestoredTo(Len(log)) \in State
    BY <1>1, PrefixTyped
  <2> DEFINE r == RestoredTo(Len(log))
  <2> HIDE DEF b, last, r
  <2>7. /\ r.operation = log[last].operation /\ r.active = b.active
        /\ r.receipt = ReceiptIn(Open, b) /\ r.fence = last /\ r.hydrated = b.hydrated
        /\ r.hooks = b.hooks /\ r.retained = RetainedIn(Open, b) /\ r.released = 0
    BY <2>5 DEF Marked, r
  <2>8. /\ log[last].operation \in Operation \cup {NoOperation} /\ last \in Nat
        /\ RetainedIn(Open, b) \in Nat /\ ReceiptIn(Open, b) \in Nat
    BY <2>6, <2>7, StateTyped DEF r
  <2>9. /\ Restored \in State
        /\ Restored.operation = log[last].operation /\ Restored.active = b.active
        /\ Restored.receipt = ReceiptIn(Open, b) /\ Restored.fence = last
        /\ Restored.hydrated = b.hydrated /\ Restored.hooks = b.hooks
        /\ Restored.retained = RetainedIn(Open, b) /\ Restored.released = 0
    BY <2>3, <2>4, <2>8 DEF State
  <2>10. r = Restored
    BY <2>6, <2>7, <2>9, StatesEqual DEF r
  <2> QED BY <2>10 DEF r
<1> QED BY <1>6, <1>7

\* The loop is some function that satisfies its equation, and there is one.
LoopSolves(f) == f = [n \in 0 .. Len(log) |-> IF n = 0 THEN state ELSE Apply(f[n - 1], n)]

LEMMA LoopIsRestored ==
  ASSUME Typed
  PROVE  \A n \in 0 .. Len(log) : Loop[n] = RestoredTo(n)
<1> DEFINE f == [n \in 0 .. Len(log) |-> RestoredTo(n)]
<1>1. Len(log) \in Nat
  BY PositionsTyped
<1>2. ASSUME NEW n \in 0 .. Len(log)
      PROVE  RestoredTo(n) = IF n = 0 THEN state ELSE Apply(f[n - 1], n)
  <2>1. n # 0 => n \in 1 .. Len(log) /\ n - 1 \in 0 .. Len(log)
    BY <1>1
  <2> QED BY <2>1, ReadNothing, ReadNext
<1>3. LoopSolves(f)
  BY <1>2 DEF LoopSolves
<1> HIDE DEF f
<1>4. LoopSolves(Loop)
  BY <1>3 DEF LoopSolves, Loop
<1>5. \A n \in 0 .. Len(log) : Loop[n] = IF n = 0 THEN state ELSE Apply(Loop[n - 1], n)
  BY <1>4 DEF LoopSolves
<1> DEFINE Wrong == {n \in 0 .. Len(log) : Loop[n] # RestoredTo(n)}
<1>6. ASSUME Wrong # {} PROVE FALSE
  <2>0. Wrong \subseteq Nat
    BY <1>1
  <2>1. PICK n \in Wrong : \A m \in Wrong : n <= m
    <3> HIDE DEF Wrong
    <3> QED BY <1>6, <2>0, LeastExists
  <2>2. n \in 0 .. Len(log) /\ n # 0
    BY <1>1, <1>5, <2>1, ReadNothing
  <2>3. n \in 1 .. Len(log) /\ n - 1 \in 0 .. Len(log) /\ ~ (n <= n - 1)
    BY <1>1, <2>2
  <2>4. Loop[n - 1] = RestoredTo(n - 1)
    BY <2>1, <2>3
  <2>5. Loop[n] = Apply(Loop[n - 1], n)
    BY <1>5, <2>2
  <2>6. RestoredTo(n) = Apply(RestoredTo(n - 1), n)
    BY <2>3, ReadNext
  <2> QED BY <2>1, <2>4, <2>5, <2>6
<1> QED BY <1>6

\* What a process reads off the markers at once is what the loop of
\* _restore_lifecycle computes, for any log and whatever it remembered before.
THEOREM RestoredAlwaysTheLoop == Spec => []RestoredIsTheLoop
<1>1. IInv => RestoredIsTheLoop
  <2> SUFFICES ASSUME IInv PROVE Restored = Loop[Len(log)]
    BY DEF RestoredIsTheLoop
  <2>1. Typed
    BY SoundParts DEF IInv
  <2>2. Len(log) \in 0 .. Len(log)
    BY <2>1, PositionsTyped
  <2>3. Loop[Len(log)] = RestoredTo(Len(log))
    BY <2>1, <2>2, LoopIsRestored
  <2> QED BY <2>1, <2>3, ReadAll
<1> QED BY <1>1, IInvHolds, PTL

=============================================================================
