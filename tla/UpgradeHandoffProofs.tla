------------------------ MODULE UpgradeHandoffProofs ------------------------
(***************************************************************************)
(* Proofs about UpgradeHandoff: whatever the hub asks, gives up and asks   *)
(* again, the pod keeps the invariant of UpgradeAdmission; and on a store  *)
(* that settles before it is read, a hold is idle and an answered release  *)
(* is in the log.  For any tasks, operations, processes, attempts and      *)
(* lengths of the log.                                                     *)
(***************************************************************************)
EXTENDS UpgradeHandoff, UpgradeAdmissionProofs

-----------------------------------------------------------------------------
(* How the log ends: the inductive invariant behind the receipt *)

\* A receipt is given in a handoff that has a fence, and a fence is written by a
\* process that knows of none.
ReceiptHasFence == state.receipt # 0 => state.fence # 0

FenceIsFirst == \A t \in Task : pc[t] = "fence" => state.fence = 0

\* A process that has read of a handoff has seen the end of the log, and one
\* that has read of none has no idle marker to see.
NothingIsPending == state.hydrated = "yes" /\ state.fence # 0 => late = {}

NoIdleIsOpen == \A i \in Open : log[i].kind # "idle"

NoneIsUnread == state.hydrated = "yes" /\ state.fence = 0 => NoIdleIsOpen

\* No fence follows an idle marker before a release does.
IdlesComeLast ==
  /\ \A i \in Open, j \in Open : i < j /\ log[i].kind = "idle" => log[j].kind = "idle"
  /\ (\E r \in late : r.kind = "fence") => NoIdleIsOpen

\* The receipt of a process that has read the log is the last marker of the log.
ReceiptIsLast == state.hydrated = "yes" /\ state.receipt # 0 => IsLast(state.receipt, Positions)

ReleasedIsLogged == state.released # 0 => state.released \in Releases

\* A release has the condition from its beginning to its end.
ReleasesAreInside ==
  \A t \in Task :
    /\ call[t].do = "release" => pc[t] \in {"hydrate", "body", "release"}
    /\ pc[t] = "release" => call[t].do = "release"

LogEnds ==
  /\ ReceiptHasFence /\ NothingIsPending /\ NoneIsUnread /\ IdlesComeLast
  /\ ReceiptIsLast /\ ReleasedIsLogged

CallsFit == FenceIsFirst /\ ReleasesAreInside

\* The hub holds the pod: what is in the log or may yet be committed is idle for
\* the approved operation, and no release is under way.
Holds ==
  /\ handler = Free
  /\ \E i \in Positions : IsLast(i, Positions) /\ log[i].kind = "idle" /\ log[i].operation = Approved
  /\ \A r \in late : r.kind = "idle" /\ r.operation = Approved
  /\ state.fence # 0 => state.operation = Approved
  /\ \A t \in Task : call[t].do # "release"

HubInv ==
  /\ phase \in Phase /\ handler \in Task \cup {Free}
  /\ stray \subseteq Delayed /\ attempts \in 0 .. MaxAttempts
  /\ phase \notin Requests => handler = Free

-----------------------------------------------------------------------------
(* Where the tasks stand *)

OthersRest(t) ==
  \A u \in Task \ {t} :
    call'[u] = call[u] /\ (pc'[u] = pc[u] \/ (pc[u] = "waiting" /\ pc'[u] = "awake"))

TaskFits(t) ==
  /\ call'[t].do = "release" => pc'[t] \in {"hydrate", "body", "release"}
  /\ pc'[t] = "release" => call'[t].do = "release"
  /\ pc'[t] = "fence" => state'.fence = 0

LEMMA LeaveRests ==
  ASSUME Control, NEW t \in Task, NEW label, NEW wakes, Leave(t, label, wakes)
  PROVE  /\ OthersRest(t) /\ pc'[t] = label
         /\ IF label = "none" THEN call'[t].do = "none" ELSE call' = call
BY DEF Leave, OthersRest, Control, NoCall

LEMMA MoveRests ==
  ASSUME Control, NEW t \in Task, NEW label, Move(t, label) \/ Take(t, label)
  PROVE  OthersRest(t) /\ pc'[t] = label /\ call' = call
BY DEF Move, Take, Goto, OthersRest, Control

LEMMA EndRests ==
  ASSUME Control, NEW t \in Task, Goto(t, "none"), call' = [call EXCEPT ![t] = NoCall]
  PROVE  OthersRest(t) /\ pc'[t] = "none" /\ call'[t].do = "none"
BY DEF Goto, OthersRest, Control, NoCall

LEMMA RunHooksRests ==
  ASSUME Control, NEW t \in Task, RunHooks(t)
  PROVE  OthersRest(t) /\ pc'[t] = "hooks" /\ call'[t].do = "finish"
<1>1. pc' = [pc EXCEPT ![t] = "hooks"] /\ call' = [call EXCEPT ![t].do = "finish"]
  BY DEF RunHooks, Goto
<1>2. call[t] \in Call /\ call'[t] = [call[t] EXCEPT !.do = "finish"]
  BY <1>1 DEF Control
<1>3. call'[t].do = "finish"
  BY <1>2 DEF Call
<1> QED BY <1>1, <1>3 DEF OthersRest, Control

\* A step of t begins no release.
Moved(t) == OthersRest(t) /\ TaskFits(t) /\ (call'[t].do = "release" => call[t].do = "release")

LEMMA LeaveMoves ==
  ASSUME Control, NEW t \in Task, NEW label \in {"none", "holding", "waiting"}, NEW wakes,
         Leave(t, label, wakes), label # "none" => call[t].do # "release"
  PROVE  Moved(t)
BY LeaveRests DEF Moved, TaskFits

LEMMA MoveMoves ==
  ASSUME Control, NEW t \in Task, NEW label, Move(t, label) \/ Take(t, label),
         label = "release" => call[t].do = "release",
         call[t].do = "release" => label \in {"hydrate", "body", "release"},
         label = "fence" => state'.fence = 0
  PROVE  Moved(t)
BY MoveRests DEF Moved, TaskFits

LEMMA EndMoves ==
  ASSUME Control, NEW t \in Task, Goto(t, "none"), call' = [call EXCEPT ![t] = NoCall]
  PROVE  Moved(t)
BY EndRests DEF Moved, TaskFits

LEMMA RunHooksMoves ==
  ASSUME Control, NEW t \in Task, RunHooks(t)
  PROVE  Moved(t)
BY RunHooksRests DEF Moved, TaskFits

LEMMA FailMoves ==
  ASSUME Control, NEW t \in Task, Fail(t)
  PROVE  Moved(t)
BY LeaveMoves DEF Fail

LEMMA CursorMoves ==
  ASSUME Control, NEW t \in Task, Move(t, "cursor") \/ Take(t, "cursor"), call[t].do # "release"
  PROVE  Moved(t)
BY MoveMoves

LEMMA OutsideIsNoRelease ==
  ASSUME CallsFit, NEW t \in Task, pc[t] \notin {"hydrate", "body", "release"}
  PROVE  call[t].do # "release"
BY DEF CallsFit, ReleasesAreInside

LEMMA PrepareMoves ==
  ASSUME Control, state \in State, NEW t \in Task, Prepare(t)
  PROVE  Moved(t)
<1> DEFINE drains == [state EXCEPT !.operation = call[t].operation,
                                   !.hooks = IF Hooked THEN FALSE ELSE @,
                                   !.receipt = IF Hooked THEN 0 ELSE @]
<1>1. call[t].do = "prepare"
  BY DEF Prepare
<1>2. CASE Fail(t)
  BY <1>2, FailMoves
<1>3. CASE state.fence = 0 /\ state' = [drains EXCEPT !.released = 0, !.retained = 0] /\ Move(t, "fence")
  <2>1. state'.fence = 0
    BY <1>3 DEF State
  <2> QED BY <1>1, <1>3, <2>1, MoveMoves
<1>4. CASE PersistOrRunHooks(t, drains)
  BY <1>1, <1>4, CursorMoves, RunHooksMoves DEF PersistOrRunHooks
<1> QED BY <1>2, <1>3, <1>4 DEF Prepare

LEMMA BodyMoves ==
  ASSUME Control, NEW t \in Task, Admit(t) \/ Status(t) \/ Wait(t) \/ Release(t)
  PROVE  Moved(t)
<1>1. CASE Admit(t)
  BY <1>1, FailMoves, LeaveMoves DEF Admit
<1>2. CASE Status(t)
  BY <1>2, LeaveMoves DEF Status
<1>3. CASE Wait(t)
  BY <1>3, FailMoves, LeaveMoves, CursorMoves DEF Wait
<1>4. CASE Release(t)
  BY <1>4, FailMoves, MoveMoves DEF Release
<1> QED BY <1>1, <1>2, <1>3, <1>4

LEMMA OutsideMoves ==
  ASSUME Control, CallsFit, NEW t \in Task,
         Return(t) \/ Hooks(t) \/ Finish(t) \/ Awake(t) \/ Timeout(t) \/ EndTurn(t) \/ CancelReturn(t)
  PROVE  Moved(t)
<1>1. CASE Return(t)
  BY <1>1, OutsideIsNoRelease, CursorMoves, LeaveMoves DEF Return
<1>2. CASE Hooks(t)
  BY <1>2, OutsideIsNoRelease, MoveMoves, EndMoves DEF Hooks
<1>3. CASE Finish(t)
  BY <1>3, OutsideIsNoRelease, CursorMoves, LeaveMoves DEF Finish
<1>4. CASE Awake(t)
  BY <1>4, OutsideIsNoRelease, CursorMoves, LeaveMoves DEF Awake
<1>5. CASE Timeout(t) \/ CancelReturn(t)
  BY <1>5, EndMoves DEF Timeout, CancelReturn
<1>6. CASE EndTurn(t)
  BY <1>6, OutsideIsNoRelease, MoveMoves DEF EndTurn
<1> QED BY <1>1, <1>2, <1>3, <1>4, <1>5, <1>6

LEMMA LogMoves ==
  ASSUME Control, CallsFit, NEW t \in Task, Relies(t),
         \/ Hydrate(t) \/ ReadCursor(t) \/ AppendFails(t)
         \/ AppendFence(t) \/ AppendIdle(t) \/ AppendRelease(t)
  PROVE  Moved(t)
<1>1. CASE Hydrate(t)
  BY <1>1, FailMoves, MoveMoves DEF Hydrate
<1>2. CASE ReadCursor(t)
  <2>1. CASE Goto(t, "idle") /\ UNCHANGED <<lock, call>>
    <3>1. pc[t] = "cursor" /\ call[t].do # "release"
      BY <1>2, OutsideIsNoRelease DEF ReadCursor
    <3>2. pc' = [pc EXCEPT ![t] = "idle"] /\ call' = call
      BY <2>1 DEF Goto
    <3> QED BY <3>1, <3>2 DEF Moved, OthersRest, TaskFits, Control
  <2> QED BY <1>2, <2>1, FailMoves DEF ReadCursor
<1>3. CASE AppendFence(t)
  <2>1. call[t].do = "prepare"
    BY <1>3 DEF AppendFence, Relies
  <2> QED BY <1>3, <2>1, CursorMoves, RunHooksMoves DEF AppendFence, PersistOrRunHooks
<1>4. CASE AppendIdle(t)
  BY <1>4, RunHooksMoves, LeaveMoves DEF AppendIdle
<1>5. CASE AppendRelease(t)
  BY <1>5, LeaveMoves DEF AppendRelease
<1>6. CASE AppendFails(t)
  BY <1>6, FailMoves DEF AppendFails
<1> QED BY <1>1, <1>2, <1>3, <1>4, <1>5, <1>6

LEMMA StepMoves ==
  ASSUME IInv, CallsFit, NEW t \in Task, Step(t)
  PROVE  Moved(t)
<1>1. Control /\ Relies(t) /\ state \in State
  BY SoundParts DEF IInv, Typed
<1> QED BY <1>1, PrepareMoves, BodyMoves, OutsideMoves, LogMoves DEF Step

\* A fence that another task is about to write is out of the way of a step that
\* has the condition.
LEMMA CallsStayFit ==
  ASSUME Control, CallsFit, NEW t \in Task, OthersRest(t), TaskFits(t),
         Alone(t) \/ state'.fence = state.fence
  PROVE  CallsFit'
<1>1. ASSUME NEW u \in Task, u # t
      PROVE  /\ call'[u].do = "release" => pc'[u] \in {"hydrate", "body", "release"}
             /\ pc'[u] = "release" => call'[u].do = "release"
             /\ pc'[u] = "fence" => state'.fence = 0
  <2>1. call'[u] = call[u] /\ (pc'[u] = pc[u] \/ (pc[u] = "waiting" /\ pc'[u] = "awake"))
    BY <1>1 DEF OthersRest
  <2>2. /\ call[u].do = "release" => pc[u] \in {"hydrate", "body", "release"}
        /\ pc[u] = "release" => call[u].do = "release"
        /\ pc[u] = "fence" => state.fence = 0
    BY DEF CallsFit, ReleasesAreInside, FenceIsFirst
  <2>3. pc'[u] = "fence" => state'.fence = 0
    <3>1. CASE Alone(t)
      BY <1>1, <2>1, <3>1, AloneInside DEF Inside
    <3>2. CASE state'.fence = state.fence
      BY <2>1, <2>2, <3>2
    <3> QED BY <3>1, <3>2
  <2> QED BY <2>1, <2>2, <2>3
<1> QED BY <1>1 DEF TaskFits, CallsFit, ReleasesAreInside, FenceIsFirst

-----------------------------------------------------------------------------
(* Steps that leave the end of the log as it is *)

\* The process forgets nothing but that its receipt or its release is current.
Quiet ==
  /\ log' = log /\ late' = late
  /\ state'.fence = state.fence
  /\ state'.receipt \in {0, state.receipt} /\ state'.released \in {0, state.released}
  /\ Reading
  /\ state.fence # 0 => state'.operation = state.operation

LEMMA SameMarkers ==
  ASSUME log' = log
  PROVE  Positions' = Positions /\ Releases' = Releases /\ Open' = Open
<1>1. Positions' = Positions /\ Releases' = Releases
  BY DEF Positions, Releases
<1> QED BY <1>1 DEF Open

LEMMA QuietEnds ==
  ASSUME LogEnds, Quiet
  PROVE  LogEnds'
<1>1. /\ Positions' = Positions /\ Releases' = Releases /\ Open' = Open
      /\ log' = log /\ late' = late
  BY SameMarkers DEF Quiet
<1>2. NoIdleIsOpen' = NoIdleIsOpen
  BY <1>1 DEF NoIdleIsOpen
<1>3. ReceiptHasFence' /\ NothingIsPending' /\ NoneIsUnread'
  BY <1>1, <1>2 DEF LogEnds, Quiet, Reading, ReceiptHasFence, NothingIsPending, NoneIsUnread
<1>4. IdlesComeLast'
  BY <1>1, <1>2 DEF LogEnds, IdlesComeLast
<1>5. ReceiptIsLast' /\ ReleasedIsLogged'
  BY <1>1 DEF LogEnds, Quiet, Reading, ReceiptIsLast, ReleasedIsLogged, IsLast
<1> QED BY <1>3, <1>4, <1>5 DEF LogEnds

LEMMA UnloggedIsQuiet ==
  ASSUME Unlogged, state' = state
  PROVE  Quiet
BY DEF Unlogged, Quiet, Reading

LEMMA BeginCallIsQuiet ==
  ASSUME state \in State, NEW t, NEW do, NEW operation, NEW expected,
         BeginCall(t, do, operation, expected)
  PROVE  Quiet
<1>1. state' = [state EXCEPT !.hydrated = IF @ = "never" THEN "stale" ELSE @] /\ Unlogged
  BY DEF BeginCall
<1> QED BY <1>1 DEF Unlogged, Quiet, Reading, State

LEMMA CountIsQuiet ==
  ASSUME state \in State, Unlogged, NEW n, NEW hooks,
         state' = [state EXCEPT !.active = n] \/ state' = [state EXCEPT !.hooks = hooks]
  PROVE  Quiet
BY DEF Unlogged, Quiet, Reading, State

LEMMA PrepareIsQuiet ==
  ASSUME Sound, state \in State, NEW t \in Task, Control, Prepare(t)
  PROVE  Quiet
<1> DEFINE drains == [state EXCEPT !.operation = call[t].operation,
                                   !.hooks = IF Hooked THEN FALSE ELSE @,
                                   !.receipt = IF Hooked THEN 0 ELSE @]
<1>1. call[t].do = "prepare" /\ Unlogged
  BY DEF Prepare
<1>2. call[t].operation \in Operation /\ NoOperation \notin Operation
  BY <1>1, OperationAssumption DEF Control, NamesOperation
<1>3. CASE UNCHANGED state
  BY <1>1, <1>3, UnloggedIsQuiet
<1>4. CASE state.fence = 0 /\ state' = [drains EXCEPT !.released = 0, !.retained = 0]
  BY <1>1, <1>4 DEF Unlogged, Quiet, Reading, State
<1>5. CASE state.operation \in {NoOperation, call[t].operation} /\ state' = drains
  <2>1. state.fence # 0 => state.operation = call[t].operation
    BY <1>2, <1>5 DEF Sound, FenceIsLogged, MarkersAreSound
  <2> QED BY <1>1, <1>5, <2>1 DEF Unlogged, Quiet, Reading, State
<1> QED BY <1>3, <1>4, <1>5 DEF Prepare

QuietAction(t) ==
  \/ Admit(t) \/ Return(t) \/ Prepare(t) \/ Hooks(t) \/ Finish(t) \/ Status(t) \/ Wait(t) \/ Awake(t)
  \/ Timeout(t) \/ Release(t) \/ ReadCursor(t) \/ EndTurn(t) \/ CancelReturn(t)

LEMMA QuietActions ==
  ASSUME IInv, NEW t \in Task, QuietAction(t)
  PROVE  Quiet
<1>1. Sound /\ Control /\ state \in State
  BY SoundParts DEF IInv, Typed
<1>2. CASE Admit(t)
  <2>1. Unlogged /\ (UNCHANGED state \/ \E n : state' = [state EXCEPT !.active = n])
    BY <1>2 DEF Admit
  <2> QED BY <1>1, <2>1, UnloggedIsQuiet, CountIsQuiet
<1>3. CASE Return(t)
  <2>1. Unlogged /\ \E n : state' = [state EXCEPT !.active = n]
    BY <1>3 DEF Return
  <2> QED BY <1>1, <2>1, CountIsQuiet
<1>4. CASE Finish(t)
  <2>1. Unlogged /\ \E hooks : state' = [state EXCEPT !.hooks = hooks]
    BY <1>4 DEF Finish
  <2> QED BY <1>1, <2>1, CountIsQuiet
<1>5. CASE Prepare(t)
  BY <1>1, <1>5, PrepareIsQuiet
<1>6. CASE Hooks(t) \/ Status(t) \/ Wait(t) \/ Awake(t) \/ Timeout(t)
  BY <1>6, UnloggedIsQuiet DEF Hooks, Status, Wait, Awake, Timeout
<1>7. CASE Release(t) \/ ReadCursor(t) \/ EndTurn(t) \/ CancelReturn(t)
  BY <1>7, UnloggedIsQuiet DEF Release, ReadCursor, EndTurn, CancelReturn
<1> QED BY <1>2, <1>3, <1>4, <1>5, <1>6, <1>7 DEF QuietAction

-----------------------------------------------------------------------------
(* Reading the log *)

LEMMA OpenEnds ==
  ASSUME Typed, Open # {}
  PROVE  LastOf(Open) \in Open /\ IsLast(LastOf(Open), Open) /\ IsLast(LastOf(Open), Positions)
<1> DEFINE last == LastOf(Open)
<1>1. IsLast(last, Open) /\ last \in Open
  BY LastIsLast, PositionsTyped DEF IsLast
<1>2. last \in Positions /\ \A j \in Positions : j \in Nat
  BY <1>1, PositionsTyped
<1> HIDE DEF last
<1>3. ASSUME NEW j \in Positions PROVE j <= last
  <2>1. CASE j \in Open
    BY <1>1, <2>1 DEF IsLast
  <2>2. CASE j \notin Open
    <3>1. PICK r \in Releases : ~(r < j)
      BY <2>2 DEF Open
    <3>2. r < last /\ r \in Positions
      BY <1>1 DEF Open, Releases
    <3> QED BY <1>2, <3>1, <3>2
  <2> QED BY <2>1, <2>2
<1> QED BY <1>1, <1>2, <1>3 DEF IsLast, last

\* The state that a process starts from when it reads the log has a receipt only
\* when no release was written.
LEMMA BeforeEnds ==
  ASSUME Typed, LogEnds, ReceiptIsExact
  PROVE  /\ Before.receipt # 0 => /\ Open = Positions /\ Before.receipt \in Open
                                  /\ log[Before.receipt].kind = "idle"
         /\ Before.released # 0 => Before.released \in Releases
<1>1. CASE Releases = {}
  <2>1. Before = state
    BY <1>1 DEF Before, LastOf
  <2>2. Open = Positions
    BY <1>1 DEF Open
  <2> QED BY <2>1, <2>2 DEF ReceiptIsExact, LogEnds, ReleasedIsLogged
<1>2. CASE Releases # {}
  <2>1. LastOf(Releases) \in Releases
    BY <1>2, LastIsLast, PositionsTyped DEF IsLast
  <2>2. LastOf(Releases) # 0
    BY <2>1, PositionsTyped
  <2>3. Before.receipt = 0 /\ Before.released = LastOf(Releases)
    BY <2>2 DEF Before, Typed, State
  <2> QED BY <2>1, <2>3
<1> QED BY <1>1, <1>2

LEMMA RestoredEnds ==
  ASSUME Sound, Typed, LogEnds
  PROVE  /\ Restored.receipt # 0 => Restored.fence # 0 /\ IsLast(Restored.receipt, Positions)
         /\ Restored.fence = 0 => Open = {}
         /\ Restored.released # 0 => Restored.released \in Releases
         /\ Open # {} => Restored.operation = log[LastOf(Open)].operation
<1>1. CASE Open = {}
  <2>1. Restored = Before
    BY <1>1 DEF Restored, Before
  <2>2. Restored.receipt = 0 /\ (Restored.released # 0 => Restored.released \in Releases)
    BY <1>1, <2>1, BeforeEnds DEF Sound
  <2> QED BY <1>1, <2>2
<1>2. CASE Open # {}
  <2> DEFINE last   == LastOf(Open)
             ours   == {i \in Open : \A j \in Open : j >= i => log[j].operation = log[last].operation}
             same   == ours = Open /\ log[last].operation = Before.operation
             idles  == {i \in ours : log[i].kind = "idle"}
             latest == LastOf(idles)
             retained == IF same /\ Before.retained # 0 THEN Before.retained ELSE FirstOf(idles)
             receipt  == IF idles # {} THEN IF log[latest].epoch = epoch THEN latest ELSE 0
                         ELSE IF same THEN Before.receipt ELSE 0
  <2>1. last \in Open /\ IsLast(last, Open) /\ IsLast(last, Positions)
    BY <1>2, OpenEnds
  <2>2. \A j \in Open : j \in Nat /\ j # 0
    BY PositionsTyped
  <2>3. Restored = [Before EXCEPT !.operation = log[last].operation, !.fence = last,
                                  !.released = 0, !.retained = retained, !.receipt = receipt]
    BY <1>2 DEF Restored, Before
  <2>4. idles \subseteq Open
    OBVIOUS
  <2>5. ASSUME receipt # 0 PROVE receipt = last
    <3>1. CASE idles # {}
      <4>1. IsLast(latest, idles) /\ latest \in idles
        BY <3>1, <2>4, LastIsLast, PositionsTyped DEF IsLast
      <4>2. latest \in Open /\ log[latest].kind = "idle" /\ receipt = latest
        BY <2>5, <3>1, <4>1
      <4> HIDE DEF latest
      <4>3. latest <= last
        BY <2>1, <4>2 DEF IsLast
      <4>4. log[last].kind = "idle"
        <5>1. CASE latest = last
          BY <4>2, <5>1
        <5>2. CASE latest < last
          BY <2>1, <4>2, <5>2 DEF LogEnds, IdlesComeLast
        <5> QED BY <2>1, <2>2, <4>2, <4>3, <5>1, <5>2
      <4>5. last \in ours
        <5>1. ASSUME NEW j \in Open, j >= last PROVE j = last
          BY <2>1, <2>2, <5>1 DEF IsLast
        <5> QED BY <2>1, <5>1
      <4>6. last <= latest
        BY <4>1, <4>4, <4>5 DEF IsLast
      <4> QED BY <2>1, <2>2, <4>2, <4>3, <4>6
    <3>2. CASE idles = {}
      <4>1. same /\ Before.receipt # 0
        BY <2>5, <3>2
      <4>2. Before.receipt \in Open /\ log[Before.receipt].kind = "idle"
        BY <4>1, BeforeEnds DEF Sound
      <4> QED BY <3>2, <4>1, <4>2
    <3> QED BY <3>1, <3>2
  <2> HIDE DEF last, ours, same, idles, latest, retained, receipt
  <2>6. /\ Restored.operation = log[last].operation /\ Restored.fence = last
        /\ Restored.released = 0 /\ Restored.receipt = receipt
    BY <2>3, BeforeFacts DEF State
  <2>7. last # 0
    BY <2>1, <2>2
  <2> QED BY <1>2, <2>1, <2>5, <2>6, <2>7 DEF last
<1> QED BY <1>1, <1>2

\* A log that has been read, with nothing pending in it.
LEMMA HydrateEnds ==
  ASSUME Settles, IInv, LogEnds, NEW t \in Task, Hydrate(t)
  PROVE  LogEnds'
<1>1. Sound /\ Typed
  BY SoundParts DEF IInv
<1>2. CASE UNCHANGED <<state, late>>
  BY <1>2, UnloggedIsQuiet, QuietEnds DEF Hydrate, Unlogged
<1>3. CASE state' = [Restored EXCEPT !.hydrated = "yes"] /\ late' = IF Settles THEN {} ELSE late
  <2>1. late' = {} /\ log' = log
    BY <1>3 DEF Hydrate
  <2>2. Restored \in State
    BY <1>1, RestoredFacts
  <2>3. /\ state'.fence = Restored.fence /\ state'.receipt = Restored.receipt
        /\ state'.released = Restored.released
    BY <1>3, <2>2 DEF State
  <2>4. Positions' = Positions /\ Releases' = Releases /\ Open' = Open
    BY <2>1, SameMarkers
  <2>5. /\ state'.receipt # 0 => state'.fence # 0 /\ IsLast(state'.receipt, Positions')
        /\ state'.fence = 0 => Open' = {}
        /\ state'.released # 0 => state'.released \in Releases'
    BY <1>1, <2>3, <2>4, RestoredEnds
  <2>6. ReceiptHasFence' /\ NothingIsPending' /\ NoneIsUnread'
    BY <2>1, <2>5 DEF ReceiptHasFence, NothingIsPending, NoneIsUnread, NoIdleIsOpen
  <2>7. IdlesComeLast'
    BY <2>1, <2>4 DEF LogEnds, IdlesComeLast
  <2>8. ReceiptIsLast' /\ ReleasedIsLogged'
    BY <2>5 DEF ReceiptIsLast, ReleasedIsLogged
  <2> QED BY <2>6, <2>7, <2>8 DEF LogEnds
<1> QED BY <1>2, <1>3 DEF Hydrate

-----------------------------------------------------------------------------
(* Appending to the log *)

LEMMA GrowsOpen ==
  ASSUME Typed, NEW record \in Record, Grows(record)
  PROVE  /\ record.kind = "release" => Open' = {}
         /\ record.kind \in {"fence", "idle"} => Open' = Open \cup {Len(log) + 1}
         /\ record.kind = "data" => Open' = Open /\ Positions' = Positions /\ Releases' = Releases
         /\ record.kind \in Lifecycle => IsLast(Len(log) + 1, Positions')
<1> DEFINE n == Len(log) + 1
<1>1. /\ Len(log) \in Nat
      /\ Positions' = IF record.kind \in Lifecycle THEN Positions \cup {n} ELSE Positions
      /\ Releases' = IF record.kind = "release" THEN Releases \cup {n} ELSE Releases
      /\ \A i \in Positions : i \in Nat /\ i < n
  BY GrowsFacts
<1>2. n \in Nat /\ Releases \subseteq Positions
  BY <1>1 DEF Releases
<1> HIDE DEF n
<1>3. Open' = {i \in Positions' : \A j \in Releases' : j < i}
  BY DEF Open
<1>4. ASSUME record.kind = "release" PROVE Open' = {}
  <2>1. ASSUME NEW i \in Open' PROVE FALSE
    <3>1. n < i /\ i \in Positions \cup {n}
      BY <1>1, <1>3, <1>4, <2>1 DEF Lifecycle
    <3> QED BY <1>1, <1>2, <3>1
  <2> QED BY <2>1
<1>5. ASSUME record.kind \in {"fence", "idle"} PROVE Open' = Open \cup {n}
  <2>1. Positions' = Positions \cup {n} /\ Releases' = Releases
    BY <1>1, <1>5 DEF Lifecycle
  <2>2. \A j \in Releases : j < n
    BY <1>1, <1>2
  <2> QED BY <1>3, <2>1, <2>2 DEF Open
<1>6. ASSUME record.kind = "data" PROVE Open' = Open /\ Positions' = Positions /\ Releases' = Releases
  <2>1. Positions' = Positions /\ Releases' = Releases
    BY <1>1, <1>6 DEF Lifecycle
  <2> QED BY <1>3, <2>1 DEF Open
<1>7. ASSUME record.kind \in Lifecycle PROVE IsLast(n, Positions')
  <2>1. Positions' = Positions \cup {n}
    BY <1>1, <1>7
  <2> QED BY <1>1, <1>2, <2>1 DEF IsLast
<1> QED BY <1>4, <1>5, <1>6, <1>7 DEF n

LEMMA GrowsEnds ==
  ASSUME LogEnds, Typed, NEW record \in Record, Grows(record),
         record.kind = "fence" => NoIdleIsOpen,
         state'.receipt # 0 => state'.fence # 0,
         IF record.kind = "data" THEN state' = state
         ELSE state'.hydrated = "yes" /\ state'.receipt # 0 =>
                record.kind = "idle" /\ state'.receipt = Len(log) + 1,
         record.kind = "idle" /\ state'.hydrated = "yes" => state'.fence # 0,
         \/ state'.released \in {0, state.released}
         \/ record.kind = "release" /\ state'.released = Len(log) + 1
  PROVE  LogEnds'
<1> DEFINE n == Len(log) + 1
<1>1. /\ record.kind = "release" => Open' = {}
      /\ record.kind \in {"fence", "idle"} => Open' = Open \cup {n}
      /\ record.kind = "data" => Open' = Open /\ Positions' = Positions /\ Releases' = Releases
      /\ record.kind \in Lifecycle => IsLast(n, Positions')
  BY GrowsOpen
<1>2. /\ late' = {} /\ log'[n] = record /\ n \in Nat
      /\ \A i \in Positions : i \in Nat /\ i < n /\ log'[i] = log[i]
      /\ Open \subseteq Positions /\ record.kind \in Lifecycle \cup {"data"}
      /\ Releases' = IF record.kind = "release" THEN Releases \cup {n} ELSE Releases
  BY GrowsFacts, PositionsTyped, RecordTyped DEF Grows, Continues
<1> HIDE DEF n
<1>3. \A i \in Open : i \in Nat /\ i < n /\ log'[i] = log[i]
  BY <1>2
<1>4. ReceiptHasFence' /\ NothingIsPending'
  BY <1>2 DEF ReceiptHasFence, NothingIsPending
<1>5. NoneIsUnread'
  <2>1. CASE record.kind = "release"
    BY <1>1, <2>1 DEF NoneIsUnread, NoIdleIsOpen
  <2>2. CASE record.kind = "fence"
    BY <1>1, <1>2, <1>3, <2>2 DEF NoneIsUnread, NoIdleIsOpen
  <2>3. CASE record.kind = "idle"
    BY <2>3 DEF NoneIsUnread
  <2>4. CASE record.kind = "data"
    BY <1>1, <1>3, <2>4 DEF LogEnds, NoneIsUnread, NoIdleIsOpen
  <2> QED BY <1>2, <2>1, <2>2, <2>3, <2>4 DEF Lifecycle
<1>6. IdlesComeLast'
  <2>1. ASSUME NEW i \in Open', NEW j \in Open', i < j, log'[i].kind = "idle"
        PROVE  log'[j].kind = "idle"
    <3>1. i \in Open \cup {n} /\ j \in Open \cup {n} /\ record.kind # "release"
      BY <1>1, <1>2, <2>1 DEF Lifecycle
    <3>2. CASE j \in Open
      <4>1. i \in Open
        BY <1>2, <1>3, <2>1, <3>1, <3>2
      <4> QED BY <1>3, <2>1, <3>2, <4>1 DEF LogEnds, IdlesComeLast
    <3>3. CASE j = n /\ j \notin Open
      <4>1. i \in Open /\ log[i].kind = "idle"
        BY <1>2, <1>3, <2>1, <3>1, <3>3
      <4>2. record.kind \in {"fence", "idle"}
        BY <1>1, <1>2, <2>1, <3>1, <3>3 DEF Lifecycle
      <4> QED BY <1>2, <3>3, <4>1, <4>2 DEF NoIdleIsOpen
    <3> QED BY <3>1, <3>2, <3>3
  <2> QED BY <1>2, <2>1 DEF IdlesComeLast
<1>7. ReceiptIsLast'
  <2>1. CASE record.kind = "data"
    BY <1>1, <2>1 DEF LogEnds, ReceiptIsLast, IsLast
  <2>2. CASE record.kind # "data"
    BY <1>1, <1>2, <2>2 DEF ReceiptIsLast, n
  <2> QED BY <2>1, <2>2
<1>8. ReleasedIsLogged'
  BY <1>2 DEF LogEnds, ReleasedIsLogged, n
<1> QED BY <1>4, <1>5, <1>6, <1>7, <1>8 DEF LogEnds

LEMMA AppendFenceEnds ==
  ASSUME IInv, LogEnds, CallsFit, NEW t \in Task, AppendFence(t)
  PROVE  LogEnds'
<1> DEFINE n == Len(log) + 1
           record == MarkerOf(t)
<1>1. pc[t] = "fence" /\ Appends(t) /\ state' = [state EXCEPT !.fence = n]
  BY DEF AppendFence
<1>2. Sound /\ Typed /\ state \in State /\ state.hydrated = "yes" /\ state.fence = 0
  BY <1>1, SoundParts DEF IInv, Typed, Relies, CallsFit, FenceIsFirst
<1>3. record \in Record /\ Grows(record) /\ record.kind = "fence" /\ n \in Nat
  BY <1>1, <1>2, AppendsFacts
<1>4. NoIdleIsOpen /\ state.receipt = 0
  BY <1>2 DEF LogEnds, NoneIsUnread, ReceiptHasFence
<1>5. state'.receipt = 0 /\ state'.released = state.released
  BY <1>1, <1>2, <1>4 DEF State
<1> HIDE DEF record
<1> QED BY <1>2, <1>3, <1>4, <1>5, GrowsEnds

LEMMA AppendIdleEnds ==
  ASSUME IInv, LogEnds, NEW t \in Task, AppendIdle(t)
  PROVE  LogEnds'
<1> DEFINE n == Len(log) + 1
           record == MarkerOf(t)
<1>1. /\ pc[t] = "idle" /\ Appends(t)
      /\ state' = [state EXCEPT !.receipt = n, !.retained = IF @ = 0 THEN n ELSE @]
  BY DEF AppendIdle
<1>2. Sound /\ Typed /\ state \in State /\ state.fence # 0
  BY <1>1, SoundParts DEF IInv, Typed, Relies
<1>3. record \in Record /\ Grows(record) /\ record.kind = "idle" /\ n \in Nat
  BY <1>1, <1>2, AppendsFacts
<1>4. state'.receipt = n /\ state'.fence # 0 /\ state'.released = state.released
  BY <1>1, <1>2 DEF State
<1> HIDE DEF record
<1> QED BY <1>2, <1>3, <1>4, GrowsEnds

LEMMA AppendReleaseEnds ==
  ASSUME IInv, LogEnds, NEW t \in Task, AppendRelease(t)
  PROVE  LogEnds' /\ Len(log) + 1 \in Releases' /\ IsLast(Len(log) + 1, Positions')
<1> DEFINE n == Len(log) + 1
           record == MarkerOf(t)
<1>1. /\ pc[t] = "release" /\ Appends(t)
      /\ state' = [Fresh EXCEPT !.hydrated = "yes", !.released = n]
  BY DEF AppendRelease
<1>2. Sound /\ Typed
  BY <1>1, SoundParts DEF IInv
<1>3. record \in Record /\ Grows(record) /\ record.kind = "release" /\ n \in Nat
  BY <1>1, <1>2, AppendsFacts
<1>4. state'.receipt = 0 /\ state'.released = n
  BY <1>1 DEF Fresh
<1> HIDE DEF record
<1>5. LogEnds'
  BY <1>2, <1>3, <1>4, GrowsEnds
<1>6. n \in Releases' /\ IsLast(n, Positions')
  BY <1>2, <1>3, GrowsFacts, GrowsOpen DEF Lifecycle
<1> QED BY <1>5, <1>6

\* A marker without an answer is a fence of a process that knows of none, or the
\* process has to read the log again.
LEMMA AppendFailsEnds ==
  ASSUME IInv, LogEnds, CallsFit, NEW t \in Task, AppendFails(t)
  PROVE  LogEnds'
<1> DEFINE record == MarkerOf(t)
<1>1. /\ pc[t] \in {"fence", "idle", "release"} /\ log' = log
      /\ state' = IF pc[t] = "fence" THEN state ELSE [state EXCEPT !.hydrated = "stale"]
      /\ late' = late \/ (late' = late \cup {record} /\ Place(t) = Len(log))
  BY DEF AppendFails
<1>2. Sound /\ Typed /\ state \in State /\ (pc[t] = "fence" => state.hydrated = "yes" /\ state.fence = 0)
  BY <1>1, SoundParts DEF IInv, Typed, Relies, CallsFit, FenceIsFirst
<1>3. /\ state'.fence = state.fence /\ state'.receipt = state.receipt
      /\ state'.released = state.released
      /\ IF pc[t] = "fence" THEN state' = state ELSE state'.hydrated = "stale"
  BY <1>1, <1>2 DEF State
<1>4. CASE late' = late
  <2>1. state'.operation = state.operation /\ Reading
    BY <1>1, <1>2 DEF Reading, State
  <2> QED BY <1>1, <1>3, <1>4, <2>1, QuietEnds DEF Quiet
<1>5. CASE late' = late \cup {record} /\ Place(t) = Len(log)
  <2>1. record.kind = pc[t]
    BY <1>1, <1>2, <1>5, MarkerFacts
  <2> HIDE DEF record
  <2>2. /\ Positions' = Positions /\ Releases' = Releases /\ Open' = Open
        /\ NoIdleIsOpen' = NoIdleIsOpen
    BY <1>1, SameMarkers DEF NoIdleIsOpen
  <2>3. pc[t] = "fence" => NoIdleIsOpen
    BY <1>2 DEF LogEnds, NoneIsUnread
  <2>4. ReceiptHasFence' /\ NothingIsPending' /\ NoneIsUnread'
    BY <1>2, <1>3, <2>2 DEF LogEnds, ReceiptHasFence, NothingIsPending, NoneIsUnread
  <2>5. IdlesComeLast'
    BY <1>1, <1>5, <2>1, <2>2, <2>3 DEF LogEnds, IdlesComeLast
  <2>6. ReceiptIsLast' /\ ReleasedIsLogged'
    BY <1>3, <2>2 DEF LogEnds, ReceiptIsLast, ReleasedIsLogged, IsLast
  <2> QED BY <2>4, <2>5, <2>6 DEF LogEnds
<1> QED BY <1>1, <1>4, <1>5

\* What is committed late: a process that has read the log finds nothing but a
\* fence, and only when it knows of none.
LEMMA LateCommitEnds ==
  ASSUME Settles, IInv, LogEnds, LateCommit
  PROVE  LogEnds'
<1>1. PICK record \in late : Commits(record)
  BY DEF LateCommit
<1>2. Sound /\ Typed /\ Settled /\ state \in State
  BY SoundParts DEF IInv, Typed
<1>3. record \in Record /\ record.kind \in Lifecycle /\ Grows(record) /\ state' = state
  BY <1>1, <1>2 DEF Typed, Sound, MarkersAreSound, Commits, Grows
<1>4. record.kind = "fence" => NoIdleIsOpen
  BY DEF LogEnds, IdlesComeLast
<1>5. state.hydrated = "yes" => record.kind = "fence" /\ state.fence = 0 /\ state.receipt = 0
  BY <1>2 DEF Settled, ReadMeansRefusing, LogEnds, NothingIsPending, ReceiptHasFence
<1>6. record.kind # "data"
  BY <1>3 DEF Lifecycle
<1>7. state.receipt # 0 => state.fence # 0
  BY DEF LogEnds, ReceiptHasFence
<1> QED BY <1>2, <1>3, <1>4, <1>5, <1>6, <1>7, GrowsEnds

LEMMA OtherAppendEnds ==
  ASSUME IInv, LogEnds, OtherAppend
  PROVE  LogEnds'
<1>1. Data \in Record /\ Data.kind = "data"
  BY DEF Data, Record, Lifecycle
<1>2. Typed /\ Grows(Data) /\ state' = state
  BY SoundParts DEF IInv, OtherAppend, Commits, Grows
<1>3. state.receipt # 0 => state.fence # 0
  BY DEF LogEnds, ReceiptHasFence
<1> QED BY <1>1, <1>2, <1>3, GrowsEnds

LEMMA RestartEnds ==
  ASSUME LogEnds, Restart
  PROVE  LogEnds' /\ CallsFit'
<1>1. /\ state' = Fresh /\ log' = log /\ late' = late
      /\ pc' = [t \in Task |-> "none"] /\ call' = [t \in Task |-> NoCall]
  BY DEF Restart, Unlogged
<1>2. state'.receipt = 0 /\ state'.released = 0 /\ state'.hydrated = "never"
  BY <1>1 DEF Fresh
<1>3. Open' = Open /\ NoIdleIsOpen' = NoIdleIsOpen
  BY <1>1, SameMarkers DEF NoIdleIsOpen
<1>4. ReceiptHasFence' /\ NothingIsPending' /\ NoneIsUnread' /\ ReceiptIsLast' /\ ReleasedIsLogged'
  BY <1>2 DEF ReceiptHasFence, NothingIsPending, NoneIsUnread, ReceiptIsLast, ReleasedIsLogged
<1>5. IdlesComeLast'
  BY <1>1, <1>3 DEF LogEnds, IdlesComeLast
<1>6. CallsFit'
  BY <1>1 DEF CallsFit, FenceIsFirst, ReleasesAreInside, NoCall
<1> QED BY <1>4, <1>5, <1>6 DEF LogEnds

-----------------------------------------------------------------------------
(* The end of the log, step by step *)

LEMMA BeginCallEnds ==
  ASSUME IInv, LogEnds, CallsFit, NEW t \in Task, NEW do, NEW operation, NEW expected,
         BeginCall(t, do, operation, expected)
  PROVE  LogEnds' /\ CallsFit' /\ Quiet /\ OthersRest(t) /\ call'[t].do = do
<1>1. Sound /\ Control /\ state \in State
  BY SoundParts DEF IInv, Typed
<1>2. Quiet
  BY <1>1, BeginCallIsQuiet
<1>3. /\ call' = [call EXCEPT ![t] = [do |-> do, operation |-> operation, expected |-> expected]]
      /\ pc' = [pc EXCEPT ![t] = IF state.hydrated = "yes" THEN "body" ELSE "hydrate"]
      /\ Alone(t)
  BY DEF BeginCall, Goto, Alone
<1>4. OthersRest(t) /\ TaskFits(t) /\ call'[t].do = do
  BY <1>1, <1>3 DEF OthersRest, TaskFits, Control
<1> QED BY <1>1, <1>2, <1>3, <1>4, QuietEnds, CallsStayFit

LEMMA BeginEnds ==
  ASSUME IInv, LogEnds, CallsFit, NEW t \in Task, Begin(t)
  PROVE  /\ LogEnds' /\ CallsFit' /\ Quiet
         /\ OthersRest(t) /\ call'[t].do \in Calls
<1>1. PICK do \in Calls, operation \in Operation \cup {NoOperation}, expected \in 0 .. Len(log) :
        BeginCall(t, do, operation, expected)
  BY DEF Begin
<1> QED BY <1>1, BeginCallEnds

LEMMA AsideEnds ==
  ASSUME IInv, LogEnds, CallsFit, NEW t \in Task, EndTurn(t) \/ CancelReturn(t)
  PROVE  LogEnds' /\ CallsFit' /\ Quiet /\ Moved(t)
<1>1. Control
  BY SoundParts DEF IInv
<1>2. Moved(t) /\ Quiet
  BY <1>1, OutsideMoves, QuietActions DEF QuietAction
<1> QED BY <1>1, <1>2, QuietEnds, CallsStayFit DEF Moved, Quiet

LEMMA StepEnds ==
  ASSUME Settles, IInv, LogEnds, CallsFit, NEW t \in Task, Step(t)
  PROVE  LogEnds' /\ CallsFit'
<1>1. Moved(t) /\ Control
  BY StepMoves, SoundParts DEF IInv
<1>2. CASE QuietAction(t)
  BY <1>1, <1>2, QuietActions, QuietEnds, CallsStayFit DEF Moved, Quiet
<1>3. CASE Hydrate(t) \/ AppendFence(t) \/ AppendIdle(t) \/ AppendRelease(t) \/ AppendFails(t)
  <2>1. LogEnds'
    BY <1>3, HydrateEnds, AppendFenceEnds, AppendIdleEnds, AppendReleaseEnds, AppendFailsEnds
  <2>2. pc[t] \in Inside
    BY <1>3 DEF Hydrate, AppendFence, AppendIdle, AppendRelease, AppendFails, Inside
  <2> QED BY <1>1, <2>1, <2>2, InsideAlone, CallsStayFit DEF Moved
<1> QED BY <1>2, <1>3 DEF Step, QuietAction

LEMMA StutteringEnds ==
  ASSUME LogEnds, CallsFit, UNCHANGED vars
  PROVE  LogEnds' /\ CallsFit'
<1>1. UNCHANGED <<log, late, state, pc, call>>
  BY DEF vars
<1>2. LogEnds'
  BY <1>1, UnloggedIsQuiet, QuietEnds DEF Unlogged
<1> QED BY <1>1, <1>2 DEF CallsFit, FenceIsFirst, ReleasesAreInside

LEMMA EnvironmentEnds ==
  ASSUME Settles, IInv, LogEnds, CallsFit, LateCommit \/ OtherAppend
  PROVE  LogEnds' /\ CallsFit' /\ UNCHANGED <<state, pc, call>>
<1>1. LogEnds' /\ UNCHANGED <<state, pc, call>>
  BY LateCommitEnds, OtherAppendEnds DEF LateCommit, OtherAppend, Commits
<1> QED BY <1>1 DEF CallsFit, FenceIsFirst, ReleasesAreInside

LEMMA InitEnds ==
  ASSUME Init
  PROVE  LogEnds /\ CallsFit
<1>1. /\ state.receipt = 0 /\ state.fence = 0 /\ state.released = 0 /\ late = {}
      /\ pc = [t \in Task |-> "none"] /\ call = [t \in Task |-> NoCall]
  BY DEF Init, Fresh
<1>2. Open = {}
  <2>1. Positions \subseteq 1 .. Len(log) /\ Len(log) = 0
    BY DEF Init, Positions
  <2>2. Positions = {}
    BY <2>1
  <2> QED BY <2>2 DEF Open
<1>3. LogEnds
  BY <1>1, <1>2 DEF LogEnds, ReceiptHasFence, NothingIsPending, NoneIsUnread, IdlesComeLast,
                    ReceiptIsLast, ReleasedIsLogged, NoIdleIsOpen
<1> QED BY <1>1, <1>3 DEF CallsFit, FenceIsFirst, ReleasesAreInside, NoCall

LEMMA PodEnds ==
  ASSUME Settles
  PROVE  Spec => [](IInv /\ LogEnds /\ CallsFit)
<1> DEFINE Inv == IInv /\ LogEnds /\ CallsFit
<1>1. Init => Inv
  BY InitSatisfiesIInv, InitEnds
<1>2. Inv /\ [Next]_vars => Inv'
  <2> SUFFICES ASSUME Inv, [Next]_vars PROVE LogEnds' /\ CallsFit' /\ IInv'
    OBVIOUS
  <2>1. CASE UNCHANGED vars
    BY <2>1, StutteringKeeps, StutteringEnds
  <2>2. ASSUME NEW t \in Task, Begin(t) PROVE LogEnds' /\ CallsFit' /\ IInv'
    BY <2>2, BeginKeeps, BeginEnds
  <2>3. ASSUME NEW t \in Task, EndTurn(t) \/ CancelReturn(t) PROVE LogEnds' /\ CallsFit' /\ IInv'
    BY <2>3, TaskAsideKeeps, AsideEnds
  <2>4. ASSUME NEW t \in Task, Step(t) PROVE LogEnds' /\ CallsFit' /\ IInv'
    BY <2>4, StepKeeps, StepEnds
  <2>5. CASE LateCommit \/ OtherAppend
    BY <2>5, LateCommitKeeps, OtherAppendKeeps, EnvironmentEnds
  <2>6. CASE Restart
    BY <2>6, RestartKeeps, RestartEnds
  <2> QED BY <2>1, <2>2, <2>3, <2>4, <2>5, <2>6 DEF Next
<1> HIDE DEF Inv
<1>3. Spec => []Inv
  BY <1>1, <1>2, PTL DEF Spec
<1> QED BY <1>3 DEF Inv

\* On a store that settles before it is read, the receipt of a process that has
\* read the log is the last marker of the log: no release and no fence of another
\* process came after it, nor will one that is pending.
THEOREM ReceiptAlwaysLast == Settles => (Spec => [](ReceiptIsLast /\ NothingIsPending))
<1> SUFFICES ASSUME Settles PROVE Spec => [](ReceiptIsLast /\ NothingIsPending)
  OBVIOUS
<1>1. IInv /\ LogEnds /\ CallsFit => ReceiptIsLast /\ NothingIsPending
  BY DEF LogEnds
<1> QED BY <1>1, PodEnds, PTL

-----------------------------------------------------------------------------
(* The hub and the pod take their steps together *)

LEMMA ArrivesKeeps ==
  ASSUME IInv, NEW t \in Task, NEW do \in {"prepare", "status", "release"}, Request(t, do)
  PROVE  IInv'
<1> DEFINE operation == IF do = "status" THEN NoOperation ELSE Approved
<1>1. operation \in Operation \cup {NoOperation} /\ (do \in {"turn", "status"} <=> operation = NoOperation)
  BY ApprovedAssumption, OperationAssumption
<1>2. BeginCall(t, do, operation, 0)
  BY DEF Request
<1> HIDE DEF operation
<1> QED BY <1>1, <1>2, BeginCallKeeps

\* Every step of the whole is a step of the pod or none of it.
LEMMA NextHubKeeps ==
  ASSUME IInv, HubInv, [NextHub]_allVars
  PROVE  IInv'
<1>1. CASE UNCHANGED vars
  BY <1>1, StutteringKeeps
<1>2. CASE Start \/ Leaves \/ GiveUp
  BY <1>1, <1>2 DEF Start, Leaves, GiveUp
<1>3. ASSUME NEW t \in Task, Arrive(t) PROVE IInv'
  <2>1. Asks(phase) \in {"prepare", "status", "release"}
    BY <1>3 DEF Arrive, Asks, Requests
  <2> QED BY <1>3, <2>1, ArrivesKeeps DEF Arrive
<1>4. ASSUME NEW t \in Task, ArriveLate(t) PROVE IInv'
  <2>1. stray \subseteq {"prepare", "status", "release"}
    BY DelayedAssumption DEF HubInv
  <2> QED BY <1>4, <2>1, ArrivesKeeps DEF ArriveLate
<1>5. ASSUME NEW t \in Task, Serve(t) PROVE IInv'
  BY <1>5, StepKeeps DEF Serve
<1>6. CASE Turns
  BY <1>6, BeginKeeps, TaskAsideKeeps DEF Turns
<1>7. CASE Others \/ PodRestart
  BY <1>7, LateCommitKeeps, OtherAppendKeeps, RestartKeeps DEF Others, PodRestart
<1> QED BY <1>1, <1>2, <1>3, <1>4, <1>5, <1>6, <1>7 DEF NextHub, allVars

LEMMA NextHubEnds ==
  ASSUME Settles, IInv, LogEnds, CallsFit, [NextHub]_allVars
  PROVE  LogEnds' /\ CallsFit'
<1>1. CASE UNCHANGED vars
  BY <1>1, StutteringEnds
<1>2. CASE Start \/ Leaves \/ GiveUp
  BY <1>1, <1>2 DEF Start, Leaves, GiveUp
<1>3. ASSUME NEW t \in Task, Arrive(t) \/ ArriveLate(t) PROVE LogEnds' /\ CallsFit'
  BY <1>3, BeginCallEnds DEF Arrive, ArriveLate, Request
<1>4. ASSUME NEW t \in Task, Serve(t) PROVE LogEnds' /\ CallsFit'
  BY <1>4, StepEnds DEF Serve
<1>5. CASE Turns
  BY <1>5, BeginEnds, AsideEnds DEF Turns
<1>6. CASE Others \/ PodRestart
  BY <1>6, EnvironmentEnds, RestartEnds DEF Others, PodRestart
<1> QED BY <1>1, <1>2, <1>3, <1>4, <1>5, <1>6 DEF NextHub, allVars

\* A request is served only in a phase that makes one.
LEMMA HubInvKeeps ==
  ASSUME HubInv, [NextHub]_allVars
  PROVE  HubInv'
<1>1. CASE UNCHANGED hubVars
  BY <1>1 DEF HubInv, hubVars
<1>2. CASE Start
  <2>1. attempts' \in 0 .. MaxAttempts
    BY <1>2, AttemptsAssumption DEF Start, HubInv
  <2> QED BY <1>2, <2>1 DEF Start, HubInv, Phase, Requests
<1>3. CASE Leaves
  BY <1>3 DEF Leaves, HubInv, Phase, Requests
<1>4. CASE GiveUp
  BY <1>4 DEF GiveUp, AfterFailure, HubInv, Phase, Requests
<1>5. ASSUME NEW t \in Task, Arrive(t) \/ ArriveLate(t) PROVE HubInv'
  BY <1>5 DEF Arrive, ArriveLate, HubInv
<1>6. ASSUME NEW t \in Task, Serve(t) PROVE HubInv'
  <2>1. CASE Answered(t)
    <3>1. Answer(t) \in Phase
      BY DEF Answer, AfterFailure, Phase, Requests
    <3> QED BY <1>6, <2>1, <3>1 DEF Serve, HubInv
  <2>2. CASE ~Answered(t)
    BY <1>6, <2>2 DEF Serve, HubInv
  <2> QED BY <2>1, <2>2
<1>7. CASE PodRestart
  BY <1>7 DEF PodRestart, AfterFailure, HubInv, Phase, Requests
<1> QED BY <1>1, <1>2, <1>3, <1>4, <1>5, <1>6, <1>7 DEF NextHub, allVars, Turns, Others

-----------------------------------------------------------------------------
(* The hold *)

\* What the hub holds, in the pod: the last marker, what may yet be committed,
\* and what the process has in mind
Idle(i) == IsLast(i, Positions) /\ log[i].kind = "idle" /\ log[i].operation = Approved

LogHolds ==
  /\ \E i \in Positions : Idle(i)
  /\ \A r \in late : r.kind = "idle" /\ r.operation = Approved
  /\ state.fence # 0 => state.operation = Approved

NoneReleases == \A t \in Task : call[t].do # "release"

LEMMA HoldsParts ==
  Holds <=> handler = Free /\ LogHolds /\ NoneReleases
BY DEF Holds, LogHolds, NoneReleases, Idle

LEMMA QuietHolds ==
  ASSUME LogHolds, Quiet
  PROVE  LogHolds'
<1>1. Positions' = Positions /\ log' = log /\ late' = late
  BY SameMarkers DEF Quiet
<1>2. \A i : Idle(i)' <=> Idle(i)
  BY <1>1 DEF Idle, IsLast
<1> QED BY <1>1, <1>2 DEF LogHolds, Quiet

\* An idle marker that is the last one is open, so that no fence is due.
LEMMA IdleIsOpen ==
  ASSUME Typed, NEW i \in Positions, Idle(i)
  PROVE  i \in Open /\ LastOf(Open) = i /\ ~NoIdleIsOpen
<1>1. ASSUME NEW j \in Releases PROVE j < i
  <2>1. j \in Positions /\ j <= i /\ j # i
    BY DEF Releases, Idle, IsLast
  <2> QED BY <2>1, PositionsTyped
<1>2. i \in Open
  BY <1>1 DEF Open
<1>3. IsLast(LastOf(Open), Positions) /\ LastOf(Open) \in Positions
  BY <1>2, OpenEnds DEF IsLast
<1>4. LastOf(Open) <= i /\ i <= LastOf(Open) /\ LastOf(Open) \in Nat /\ i \in Nat
  BY <1>3, PositionsTyped DEF Idle, IsLast
<1>5. LastOf(Open) = i
  BY <1>4
<1> QED BY <1>2, <1>5 DEF NoIdleIsOpen, Idle

\* Nothing but an idle marker of the operation and records of other parts of the
\* pod is appended.
LEMMA GrowsHolds ==
  ASSUME Typed, LogHolds, NEW record \in Record, Grows(record),
         record.kind = "data" \/ (record.kind = "idle" /\ record.operation = Approved),
         state'.fence # 0 => state'.operation = Approved
  PROVE  LogHolds'
<1> DEFINE n == Len(log) + 1
<1>1. /\ record.kind = "data" => Positions' = Positions
      /\ record.kind = "idle" => n \in Positions' /\ IsLast(n, Positions')
      /\ late' = {} /\ log'[n] = record
      /\ \A i \in Positions : log'[i] = log[i]
  BY GrowsFacts, GrowsOpen DEF Grows, Continues, Lifecycle, IsLast
<1> HIDE DEF n
<1>2. CASE record.kind = "data"
  BY <1>1, <1>2 DEF LogHolds, Idle, IsLast
<1>3. CASE record.kind = "idle"
  BY <1>1, <1>3 DEF LogHolds, Idle
<1> QED BY <1>2, <1>3

LEMMA HydrateHolds ==
  ASSUME Settles, IInv, LogEnds, LogHolds, NEW t \in Task, Hydrate(t)
  PROVE  LogHolds'
<1>1. Sound /\ Typed
  BY SoundParts DEF IInv
<1>2. CASE UNCHANGED <<state, late>>
  BY <1>2, UnloggedIsQuiet, QuietHolds DEF Hydrate, Unlogged
<1>3. CASE state' = [Restored EXCEPT !.hydrated = "yes"] /\ late' = IF Settles THEN {} ELSE late
  <2>1. PICK i \in Positions : Idle(i)
    BY DEF LogHolds
  <2>2. Open # {} /\ LastOf(Open) = i
    BY <1>1, <2>1, IdleIsOpen
  <2>3. Restored.operation = Approved /\ Restored \in State
    BY <1>1, <2>1, <2>2, RestoredEnds, RestoredFacts DEF Idle
  <2>4. state'.operation = Approved
    BY <1>3, <2>3 DEF State
  <2>5. log' = log /\ late' = {}
    BY <1>3 DEF Hydrate
  <2>6. Positions' = Positions
    BY <2>5, SameMarkers
  <2>7. Idle(i)'
    BY <2>1, <2>5, <2>6 DEF Idle, IsLast
  <2> QED BY <2>4, <2>5, <2>6, <2>7 DEF LogHolds
<1> QED BY <1>2, <1>3 DEF Hydrate

LEMMA AppendIdleHolds ==
  ASSUME IInv, LogHolds, NEW t \in Task, AppendIdle(t)
  PROVE  LogHolds'
<1> DEFINE n == Len(log) + 1
           record == MarkerOf(t)
<1>1. /\ pc[t] = "idle" /\ Appends(t)
      /\ state' = [state EXCEPT !.receipt = n, !.retained = IF @ = 0 THEN n ELSE @]
  BY DEF AppendIdle
<1>2. Sound /\ Typed /\ state \in State /\ state.fence # 0
  BY <1>1, SoundParts DEF IInv, Typed, Relies
<1>3. record \in Record /\ Grows(record) /\ record.kind = "idle" /\ record.operation = state.operation
  BY <1>1, <1>2, AppendsFacts
<1>4. state.operation = Approved /\ state'.operation = state.operation
  BY <1>1, <1>2 DEF LogHolds, State
<1> HIDE DEF record
<1> QED BY <1>2, <1>3, <1>4, GrowsHolds

\* No fence is written under a hold: whoever would write one has read the log.
LEMMA NoFenceIsWritten ==
  ASSUME IInv, LogEnds, CallsFit, LogHolds, NEW t \in Task
  PROVE  pc[t] # "fence"
<1> SUFFICES ASSUME pc[t] = "fence" PROVE FALSE
  OBVIOUS
<1>1. Typed /\ state.hydrated = "yes" /\ state.fence = 0
  BY SoundParts DEF IInv, Relies, CallsFit, FenceIsFirst
<1>2. NoIdleIsOpen
  BY <1>1 DEF LogEnds, NoneIsUnread
<1>3. PICK i \in Positions : Idle(i)
  BY DEF LogHolds
<1> QED BY <1>1, <1>2, <1>3, IdleIsOpen

LEMMA AppendFailsHolds ==
  ASSUME IInv, LogHolds, NEW t \in Task, pc[t] = "idle", AppendFails(t)
  PROVE  LogHolds'
<1> DEFINE record == MarkerOf(t)
<1>1. /\ log' = log /\ state' = [state EXCEPT !.hydrated = "stale"]
      /\ late' = late \/ (late' = late \cup {record} /\ Place(t) = Len(log))
  BY DEF AppendFails
<1>2. Sound /\ state \in State /\ state.fence # 0
  BY SoundParts DEF IInv, Typed, Relies
<1>3. state'.operation = Approved
  BY <1>1, <1>2 DEF LogHolds, State
<1>4. Positions' = Positions
  BY <1>1, SameMarkers
<1>5. Place(t) = Len(log) => record.kind = "idle" /\ record.operation = Approved
  BY <1>2, MarkerFacts DEF LogHolds
<1> HIDE DEF record
<1>6. \A i : Idle(i)' <=> Idle(i)
  BY <1>1, <1>4 DEF Idle, IsLast
<1> QED BY <1>1, <1>3, <1>4, <1>5, <1>6 DEF LogHolds

LEMMA StepHolds ==
  ASSUME Settles, IInv, LogEnds, CallsFit, LogHolds, NoneReleases, NEW t \in Task, Step(t)
  PROVE  LogHolds' /\ NoneReleases'
<1>1. Moved(t)
  BY StepMoves
<1>2. NoneReleases'
  BY <1>1 DEF Moved, OthersRest, NoneReleases
<1>3. CASE QuietAction(t)
  BY <1>2, <1>3, QuietActions, QuietHolds
<1>4. CASE Hydrate(t) \/ AppendIdle(t)
  BY <1>2, <1>4, HydrateHolds, AppendIdleHolds
<1>5. CASE AppendFence(t) \/ AppendRelease(t) \/ AppendFails(t)
  <2>1. pc[t] # "fence" /\ pc[t] # "release"
    BY NoFenceIsWritten DEF CallsFit, ReleasesAreInside, NoneReleases
  <2>2. pc[t] = "idle" /\ AppendFails(t)
    BY <1>5, <2>1 DEF AppendFence, AppendRelease, AppendFails
  <2> QED BY <1>2, <2>2, AppendFailsHolds
<1> QED BY <1>2, <1>3, <1>4, <1>5 DEF Step, QuietAction

LEMMA BeginCallHolds ==
  ASSUME IInv, LogEnds, CallsFit, LogHolds, NoneReleases, NEW t \in Task,
         NEW do, NEW operation, NEW expected, do # "release", BeginCall(t, do, operation, expected)
  PROVE  LogHolds' /\ NoneReleases'
<1>1. Quiet /\ OthersRest(t) /\ call'[t].do = do
  BY BeginCallEnds
<1> QED BY <1>1, QuietHolds DEF OthersRest, NoneReleases

LEMMA EnvironmentHolds ==
  ASSUME IInv, LogHolds, NoneReleases, LateCommit \/ OtherAppend
  PROVE  LogHolds' /\ NoneReleases'
<1>1. Typed
  BY SoundParts DEF IInv
<1>2. Data \in Record /\ Data.kind = "data"
  BY DEF Data, Record, Lifecycle
<1>3. PICK record \in Record :
        /\ Commits(record)
        /\ record.kind = "data" \/ (record.kind = "idle" /\ record.operation = Approved)
  BY <1>1, <1>2 DEF LateCommit, OtherAppend, Typed, LogHolds
<1>4. Grows(record) /\ state' = state /\ call' = call
  BY <1>3 DEF Commits, Grows
<1>5. LogHolds'
  BY <1>1, <1>3, <1>4, GrowsHolds DEF LogHolds
<1> QED BY <1>4, <1>5 DEF NoneReleases

LEMMA RestartHolds ==
  ASSUME LogHolds, Restart
  PROVE  LogHolds' /\ NoneReleases'
<1>1. log' = log /\ late' = late /\ state'.fence = 0 /\ call' = [t \in Task |-> NoCall]
  BY DEF Restart, Unlogged, Fresh
<1>2. Positions' = Positions
  BY <1>1, SameMarkers
<1>3. \A i : Idle(i)' <=> Idle(i)
  BY <1>1, <1>2 DEF Idle, IsLast
<1> QED BY <1>1, <1>2, <1>3 DEF LogHolds, NoneReleases, NoCall

\* The status that shows an idle receipt was served under the condition: no
\* release had begun.
LEMMA StatusHolds ==
  ASSUME IInv, LogEnds, CallsFit, NEW t \in Task, Status(t), ShowsIdle
  PROVE  LogHolds' /\ NoneReleases'
<1>1. /\ pc[t] = "body" /\ call[t].do = "status" /\ Leave(t, "none", FALSE)
      /\ Unlogged /\ state' = state
  BY DEF Status
<1>2. Sound /\ Control /\ state.hydrated = "yes" /\ state.fence # 0
  BY <1>1, SoundParts DEF IInv, Relies, LogEnds, ReceiptHasFence, ShowsIdle
<1>3. late = {} /\ Idle(state.receipt) /\ state.receipt \in Positions
  BY <1>2 DEF LogEnds, NothingIsPending, ReceiptIsLast, ShowsIdle, Sound, ReceiptIsExact, Idle
<1>4. LogHolds
  BY <1>3 DEF LogHolds, ShowsIdle
<1>5. NoneReleases
  <2>1. ASSUME NEW u \in Task, call[u].do = "release" PROVE FALSE
    <3>1. pc[u] \in Inside
      BY <2>1 DEF CallsFit, ReleasesAreInside, Inside
    <3>2. lock = u /\ lock = t
      BY <1>1, <1>2, <3>1 DEF Control, LockIsHeld, Inside
    <3> QED BY <1>1, <2>1, <3>2
  <2> QED BY <2>1 DEF NoneReleases
<1>6. Moved(t) /\ Quiet
  BY <1>1, <1>2, BodyMoves, UnloggedIsQuiet
<1> QED BY <1>4, <1>5, <1>6, QuietHolds DEF Moved, OthersRest, NoneReleases

LEMMA ServeHolds ==
  ASSUME Settles, IInv, LogEnds, CallsFit, phase = "held" => Holds, NEW t \in Task, Serve(t),
         phase' = "held"
  PROVE  Holds'
<1>1. CASE phase = "held"
  <2>1. handler = Free /\ LogHolds /\ NoneReleases
    BY <1>1, HoldsParts
  <2>2. LogHolds' /\ NoneReleases'
    BY <2>1, StepHolds DEF Serve
  <2>3. handler' = Free
    BY <2>1, TaskAssumption DEF Serve, Answered
  <2> QED BY <2>2, <2>3 DEF Holds, LogHolds, NoneReleases, Idle
<1>2. CASE phase # "held"
  <2>1. Answered(t) /\ Answer(t) = "held" /\ handler' = Free
    BY <1>2 DEF Serve
  <2>2. Status(t) /\ ShowsIdle
    BY <2>1 DEF Answer, AfterFailure
  <2>3. LogHolds' /\ NoneReleases'
    BY <2>2, StatusHolds
  <2> QED BY <2>1, <2>3 DEF Holds, LogHolds, NoneReleases, Idle
<1> QED BY <1>1, <1>2

\* Nobody but the hub releases the pod, and a release that the hub has given up
\* does not arrive afterwards: then a hold lasts until the hub leaves it.
LEMMA NextHubHolds ==
  ASSUME Settles, "release" \notin Delayed \cup Calls,
         IInv, LogEnds, CallsFit, HubInv, phase = "held" => Holds, [NextHub]_allVars, phase' = "held"
  PROVE  Holds'
<1> USE DEF Requests
<1>1. CASE UNCHANGED allVars
  <2>1. /\ log' = log /\ late' = late /\ state' = state /\ call' = call
        /\ phase' = phase /\ handler' = handler
    BY <1>1 DEF allVars, vars, hubVars
  <2>2. handler = Free /\ LogHolds /\ NoneReleases
    BY <2>1, HoldsParts
  <2>3. LogHolds'
    BY <2>1, <2>2, UnloggedIsQuiet, QuietHolds DEF Unlogged
  <2> QED BY <2>1, <2>2, <2>3 DEF Holds, LogHolds, NoneReleases, Idle
<1>2. CASE Start \/ Leaves \/ GiveUp
  BY <1>2 DEF Start, Leaves, GiveUp, AfterFailure
<1>3. ASSUME NEW t \in Task, Arrive(t) PROVE FALSE
  BY <1>3 DEF Arrive
<1>4. ASSUME NEW t \in Task, ArriveLate(t) PROVE Holds'
  <2>1. phase = "held" /\ handler' = handler /\ stray \subseteq Delayed
    BY <1>4 DEF ArriveLate, HubInv
  <2>2. handler = Free /\ LogHolds /\ NoneReleases
    BY <2>1, HoldsParts
  <2>3. PICK do \in stray : Request(t, do)
    BY <1>4 DEF ArriveLate
  <2>4. do # "release"
    BY <2>1, <2>3
  <2>5. LogHolds' /\ NoneReleases'
    BY <2>2, <2>3, <2>4, BeginCallHolds DEF Request
  <2> QED BY <2>1, <2>2, <2>5 DEF Holds, LogHolds, NoneReleases, Idle
<1>5. ASSUME NEW t \in Task, Serve(t) PROVE Holds'
  BY <1>5, ServeHolds
<1>6. CASE Turns \/ Others
  <2>1. phase = "held" /\ handler' = handler
    BY <1>6 DEF Turns, Others, hubVars
  <2>2. handler = Free /\ LogHolds /\ NoneReleases
    BY <2>1, HoldsParts
  <2>3. ASSUME NEW t \in Task, Begin(t) PROVE LogHolds' /\ NoneReleases'
    <3>1. Quiet /\ OthersRest(t) /\ call'[t].do \in Calls
      BY <2>3, BeginEnds
    <3> QED BY <2>2, <3>1, QuietHolds DEF OthersRest, NoneReleases
  <2>4. ASSUME NEW t \in Task, EndTurn(t) PROVE LogHolds' /\ NoneReleases'
    <3>1. Quiet /\ Moved(t)
      BY <2>4, AsideEnds
    <3> QED BY <2>2, <3>1, QuietHolds DEF Moved, OthersRest, NoneReleases
  <2>5. LogHolds' /\ NoneReleases'
    BY <1>6, <2>2, <2>3, <2>4, EnvironmentHolds DEF Turns, Others
  <2> QED BY <2>1, <2>2, <2>5 DEF Holds, LogHolds, NoneReleases, Idle
<1>7. CASE PodRestart
  <2>1. phase = "held" /\ handler' = Free
    BY <1>7 DEF PodRestart, AfterFailure
  <2>2. LogHolds' /\ NoneReleases'
    BY <1>7, <2>1, HoldsParts, RestartHolds DEF PodRestart
  <2> QED BY <2>1, <2>2 DEF Holds, LogHolds, NoneReleases, Idle
<1> QED BY <1>1, <1>2, <1>3, <1>4, <1>5, <1>6, <1>7 DEF NextHub

LEMMA InitHubSatisfies ==
  ASSUME InitHub
  PROVE  IInv /\ LogEnds /\ CallsFit /\ HubInv /\ (phase = "held" => Holds)
<1>1. attempts \in 0 .. MaxAttempts
  BY AttemptsAssumption DEF InitHub
<1>2. HubInv /\ phase # "held"
  BY <1>1 DEF InitHub, HubInv, Phase
<1> QED BY <1>2, InitSatisfiesIInv, InitEnds DEF InitHub

-----------------------------------------------------------------------------
(* The theorems about the hub *)

\* Whatever the hub asks, the pod keeps what UpgradeAdmissionProofs shows of it.
THEOREM HubKeepsThePod == SpecHub => [](IInv /\ HubInv)
<1>1. InitHub => IInv /\ HubInv
  BY InitHubSatisfies
<1>2. IInv /\ HubInv /\ [NextHub]_allVars => (IInv /\ HubInv)'
  BY NextHubKeeps, HubInvKeeps
<1> QED BY <1>1, <1>2, PTL DEF SpecHub

\* Every reachable state of the hub and the pod has its types.
THEOREM HubTypesHold == SpecHub => []TypeOKHub
<1>1. IInv /\ HubInv => TypeOKHub
  BY DEF IInv, Sound, HubInv, TypeOKHub
<1> QED BY <1>1, HubKeepsThePod, PTL

\* With the hub as well, on a store that settles before it is read
LEMMA HubEnds ==
  ASSUME Settles
  PROVE  SpecHub => [](IInv /\ LogEnds /\ CallsFit)
<1> DEFINE Inv == IInv /\ HubInv /\ LogEnds /\ CallsFit
<1>1. InitHub => Inv
  BY InitHubSatisfies
<1>2. Inv /\ [NextHub]_allVars => Inv'
  BY NextHubKeeps, HubInvKeeps, NextHubEnds
<1>3. Inv => IInv /\ LogEnds /\ CallsFit
  OBVIOUS
<1> HIDE DEF Inv
<1> QED BY <1>1, <1>2, <1>3, PTL DEF SpecHub

\* While the hub holds the pod, the log ends its lifecycle with an idle marker of
\* the approved operation and no turn holds a permit: provided that the store
\* settles before it is read, that nobody but the hub asks for a release, and
\* that no release arrives after the hub has given it up.
THEOREM HeldAlwaysIdle ==
  Settles /\ "release" \notin Delayed \cup Calls => (SpecHub => []HeldIsIdle)
<1> DEFINE Inv == IInv /\ HubInv /\ LogEnds /\ CallsFit /\ (phase = "held" => Holds)
<1> SUFFICES ASSUME Settles, "release" \notin Delayed \cup Calls PROVE SpecHub => []HeldIsIdle
  OBVIOUS
<1>1. InitHub => Inv
  BY InitHubSatisfies
<1>2. Inv /\ [NextHub]_allVars => Inv'
  <2> SUFFICES ASSUME Inv, [NextHub]_allVars PROVE Inv'
    OBVIOUS
  <2>1. phase' = "held" => Holds'
    BY NextHubHolds
  <2> QED BY <2>1, NextHubKeeps, HubInvKeeps, NextHubEnds
<1>3. Inv => HeldIsIdle
  <2> SUFFICES ASSUME Inv, phase = "held"
               PROVE  /\ WorkingTasks = {}
                      /\ \E i \in Positions :
                           IsLast(i, Positions) /\ log[i].kind = "idle" /\ log[i].operation = Approved
    BY DEF HeldIsIdle
  <2>1. PICK i \in Positions : Idle(i)
    BY DEF Holds, Idle
  <2>2. WorkingTasks = {}
    BY <2>1 DEF IInv, Settled, IdleMeansNoWork, Idle
  <2> QED BY <2>1, <2>2 DEF Idle
<1> HIDE DEF Inv
<1> QED BY <1>1, <1>2, <1>3, PTL DEF SpecHub

\* A release that is repeated finds its release in the log, and no handoff open.
LEMMA RepeatsIsLogged ==
  ASSUME Settles, IInv, LogEnds, NEW t \in Task, Repeats(t)
  PROVE  \E i \in Releases' : IsLast(i, Positions)'
<1>1. /\ pc[t] = "body" /\ Repeated(call[t]) /\ log' = log
  BY DEF Repeats, Release, Unlogged
<1>2. Typed /\ Settled /\ state.hydrated = "yes"
  BY <1>1, SoundParts DEF IInv, Relies
<1>3. state.released \in Releases /\ ~Draining(state)
  BY <1>1 DEF Repeated, Draining, LogEnds, ReleasedIsLogged
<1>4. Positions \subseteq 1 .. Len(log) /\ Positions # {} /\ Len(log) \in Nat
  BY <1>2, <1>3, PositionsTyped
<1>5. IsLast(LastOf(Positions), Positions) /\ LastOf(Positions) \in Positions
  BY <1>4, LastIsLast DEF IsLast
<1>6. LastOf(Positions) \in Releases
  BY <1>2, <1>3, <1>5 DEF Settled, ReadMeansRefusing, Releases
<1>7. Positions' = Positions /\ Releases' = Releases
  BY <1>1, SameMarkers
<1> QED BY <1>5, <1>6, <1>7 DEF IsLast

\* When the release of a hold is answered, the log ends its lifecycle with a
\* release, on a store that settles before it is read.
THEOREM AnsweredReleaseAlwaysDurable == Settles => (SpecHub => AnsweredReleaseIsDurable)
<1> SUFFICES ASSUME Settles PROVE SpecHub => AnsweredReleaseIsDurable
  OBVIOUS
<1> DEFINE Durable == phase = "release" /\ phase' = "rest" =>
                        \E i \in Releases' : IsLast(i, Positions)'
<1>1. IInv /\ LogEnds /\ CallsFit /\ [NextHub]_allVars => Durable
  <2> SUFFICES ASSUME IInv, LogEnds, CallsFit, [NextHub]_allVars, phase = "release", phase' = "rest"
               PROVE  \E i \in Releases' : IsLast(i, Positions)'
    OBVIOUS
  <2>1. PICK t \in Task : Serve(t)
    BY DEF NextHub, allVars, hubVars, Start, Leaves, GiveUp, AfterFailure, Arrive, ArriveLate,
           Turns, Others, PodRestart
  <2>2. Answer(t) = "rest"
    BY <2>1 DEF Serve
  <2>3. AppendRelease(t) \/ Repeats(t)
    BY <2>2 DEF Answer, AfterFailure
  <2>4. CASE AppendRelease(t)
    BY <2>4, AppendReleaseEnds
  <2> QED BY <2>3, <2>4, RepeatsIsLogged
<1>2. (IInv /\ LogEnds /\ CallsFit) /\ [NextHub]_allVars => [Durable]_allVars
  BY <1>1
<1>3. SpecHub => [](IInv /\ LogEnds /\ CallsFit)
  BY HubEnds
<1> HIDE DEF Durable
<1>4. SpecHub => [][Durable]_allVars
  BY <1>2, <1>3, PTL DEF SpecHub
<1> QED BY <1>4 DEF AnsweredReleaseIsDurable, Durable

-----------------------------------------------------------------------------
(* The gate: the pod implements AdmissionGate *)

\* One operation at a time closes the pod: what the process remembers, what the
\* log ends with and what may yet be committed speak of the same one.
OneHandoff ==
  /\ Draining(state) =>
       /\ Holder \in {NoOperation, state.operation}
       /\ \A r \in late : r.operation = state.operation
  /\ \A r \in late : Holder \in {NoOperation, r.operation}

\* A release that may yet be committed finds no work.
LateReleaseMeansNoWork == (\E r \in late : r.kind = "release") => WorkingTasks = {}

GateInv == OneHandoff /\ LateReleaseMeansNoWork

GateStep == Gate!Next \/ UNCHANGED <<Holder, DeclaredIdle, WorkingTasks>>

LEMMA SameGate ==
  ASSUME log' = log
  PROVE  Holder' = Holder /\ DeclaredIdle' = DeclaredIdle
<1>1. Positions' = Positions /\ Open' = Open
  BY SameMarkers
<1> QED BY <1>1 DEF Holder, DeclaredIdle, LastOf, IsLast

\* Turns that return, or die, leave the gate as it is.
LEMMA QuietGate ==
  ASSUME GateInv, log' = log, late' = late \/ late' = {}, WorkingTasks' \subseteq WorkingTasks,
         state'.operation \in {state.operation, NoOperation}
  PROVE  GateInv' /\ GateStep
<1>1. Holder' = Holder /\ DeclaredIdle' = DeclaredIdle
  BY SameGate
<1>2. OneHandoff' /\ LateReleaseMeansNoWork'
  BY <1>1 DEF GateInv, OneHandoff, LateReleaseMeansNoWork, Draining
<1>3. Gate!Leave
  BY <1>1 DEF Gate!Leave
<1> QED BY <1>2, <1>3 DEF GateInv, GateStep, Gate!Next

\* What a record at the end of the log makes of the gate
LEMMA GrowsGate ==
  ASSUME Typed, NEW record \in Record, Grows(record)
  PROVE  /\ record.kind = "data" => Holder' = Holder /\ DeclaredIdle' = DeclaredIdle
         /\ record.kind = "release" => Holder' = NoOperation /\ DeclaredIdle' = FALSE
         /\ record.kind = "fence" => Holder' = record.operation /\ DeclaredIdle' = FALSE
         /\ record.kind = "idle" => Holder' = record.operation /\ DeclaredIdle' = TRUE
<1> DEFINE n == Len(log) + 1
<1>1. /\ record.kind = "release" => Open' = {}
      /\ record.kind \in {"fence", "idle"} => Open' = Open \cup {n}
      /\ record.kind = "data" => Open' = Open /\ Positions' = Positions
      /\ record.kind \in Lifecycle => IsLast(n, Positions')
  BY GrowsOpen
<1>2. /\ log'[n] = record /\ n \in Nat /\ n # 0 /\ Open \subseteq Positions
      /\ \A i \in Positions : i \in Nat /\ i # 0 /\ i < n /\ log'[i] = log[i]
  BY GrowsFacts, PositionsTyped DEF Continues
<1> HIDE DEF n
<1>3. record.kind \in Lifecycle => (DeclaredIdle' <=> record.kind = "idle")
  <2> SUFFICES ASSUME record.kind \in Lifecycle PROVE DeclaredIdle' <=> record.kind = "idle"
    OBVIOUS
  <2>1. \A i \in Positions' : IsLast(i, Positions') <=> i = n
    <3>1. IsLast(n, Positions') /\ Positions' = Positions \cup {n}
      BY <1>1, GrowsFacts DEF n
    <3> QED BY <1>2, <3>1 DEF IsLast
  <2>2. n \in Positions'
    BY <1>1 DEF IsLast
  <2> QED BY <1>2, <2>1, <2>2 DEF DeclaredIdle
<1>4. record.kind = "data" => Holder' = Holder /\ DeclaredIdle' = DeclaredIdle
  <2> SUFFICES ASSUME record.kind = "data" PROVE Holder' = Holder /\ DeclaredIdle' = DeclaredIdle
    OBVIOUS
  <2>1. Open' = Open /\ Positions' = Positions
    BY <1>1
  <2>2. LastOf(Open)' = LastOf(Open) /\ (Open # {} => LastOf(Open) \in Positions)
    BY <2>1, OpenEnds DEF LastOf, IsLast
  <2> QED BY <1>2, <2>1, <2>2 DEF Holder, DeclaredIdle, IsLast
<1>5. record.kind = "release" => Holder' = NoOperation
  BY <1>1 DEF Holder
<1>6. record.kind \in {"fence", "idle"} => Holder' = record.operation
  <2> SUFFICES ASSUME record.kind \in {"fence", "idle"} PROVE Holder' = record.operation
    OBVIOUS
  <2>1. Open' = Open \cup {n}
    BY <1>1
  <2>2. \A i \in Open' : i \in Nat /\ 1 <= i /\ i <= n
    BY <1>2, <2>1
  <2>3. IsLast(n, Open') /\ Open' \subseteq 1 .. n
    BY <1>2, <2>1, <2>2 DEF IsLast
  <2>4. LastOf(Open') = n
    BY <1>2, <2>3, LastIsUnique
  <2> QED BY <1>2, <2>1, <2>4 DEF Holder
<1>7. DeclaredIdle' \in BOOLEAN
  BY DEF DeclaredIdle
<1> QED BY <1>3, <1>4, <1>5, <1>6, <1>7 DEF Lifecycle

\* Who works

LEMMA RestsWork ==
  ASSUME NEW t \in Task, OthersRest(t),
         pc'[t] \in {"holding", "return"} => pc[t] \in {"holding", "return"}
  PROVE  WorkingTasks' \subseteq WorkingTasks
BY DEF OthersRest, WorkingTasks

LEMMA LeaveWork ==
  ASSUME Control, NEW t \in Task, NEW label, label \notin {"holding", "return"},
         NEW wakes, Leave(t, label, wakes)
  PROVE  WorkingTasks' \subseteq WorkingTasks
BY LeaveRests, RestsWork

LEMMA FailWork ==
  ASSUME Control, NEW t \in Task, Fail(t)
  PROVE  WorkingTasks' \subseteq WorkingTasks
BY LeaveWork DEF Fail

LEMMA MoveWork ==
  ASSUME Control, NEW t \in Task, NEW label, label \notin {"holding", "return"},
         Move(t, label) \/ Take(t, label)
  PROVE  WorkingTasks' \subseteq WorkingTasks
BY MoveRests, RestsWork

LEMMA GotoWork ==
  ASSUME Control, NEW t \in Task, NEW label, label \notin {"holding", "return"}, Goto(t, label),
         call' = [call EXCEPT ![t] = NoCall] \/ call' = call
  PROVE  WorkingTasks' \subseteq WorkingTasks
<1>1. pc'[t] = label /\ OthersRest(t)
  BY DEF Goto, OthersRest, Control
<1> QED BY <1>1, RestsWork

LEMMA GoesOnWork ==
  ASSUME Control, NEW t \in Task, NEW wakes,
         \/ Fail(t) \/ Leave(t, "none", wakes) \/ Leave(t, "waiting", wakes)
         \/ Move(t, "cursor") \/ Take(t, "cursor")
  PROVE  WorkingTasks' \subseteq WorkingTasks
<1>1. CASE Fail(t)
  BY <1>1, FailWork
<1>2. CASE Leave(t, "none", wakes)
  BY <1>2, LeaveWork
<1>3. CASE Leave(t, "waiting", wakes)
  BY <1>3, LeaveWork
<1>4. CASE Move(t, "cursor") \/ Take(t, "cursor")
  BY <1>4, MoveWork
<1> QED BY <1>1, <1>2, <1>3, <1>4

LEMMA HooksWork ==
  ASSUME Control, NEW t \in Task, RunHooks(t)
  PROVE  WorkingTasks' \subseteq WorkingTasks
BY RunHooksRests, RestsWork

LEMMA BodyWork ==
  ASSUME Control, NEW t \in Task, Prepare(t) \/ Status(t) \/ Wait(t) \/ Release(t) \/ Hydrate(t)
  PROVE  WorkingTasks' \subseteq WorkingTasks
<1>1. CASE Prepare(t)
  <2>1. Fail(t) \/ Move(t, "fence") \/ Move(t, "cursor") \/ RunHooks(t)
    BY <1>1 DEF Prepare, PersistOrRunHooks
  <2> QED BY <2>1, MoveWork, FailWork, HooksWork
<1>2. CASE Status(t)
  BY <1>2, LeaveWork DEF Status
<1>3. CASE Wait(t)
  <2>1. Fail(t) \/ Leave(t, "none", FALSE) \/ Leave(t, "waiting", FALSE) \/ Move(t, "cursor")
    BY <1>3 DEF Wait
  <2> QED BY <2>1, GoesOnWork
<1>4. CASE Release(t)
  BY <1>4, MoveWork, FailWork DEF Release
<1>5. CASE Hydrate(t)
  BY <1>5, MoveWork, FailWork DEF Hydrate
<1> QED BY <1>1, <1>2, <1>3, <1>4, <1>5

LEMMA OutsideWork ==
  ASSUME Control, NEW t \in Task,
         \/ Return(t) \/ Hooks(t) \/ Finish(t) \/ Awake(t) \/ Timeout(t)
         \/ EndTurn(t) \/ CancelReturn(t) \/ ReadCursor(t)
  PROVE  WorkingTasks' \subseteq WorkingTasks
<1>1. CASE Return(t)
  <2>1. Take(t, "cursor") \/ \E wakes : Leave(t, "none", wakes)
    BY <1>1 DEF Return
  <2> QED BY <2>1, GoesOnWork
<1>2. CASE Hooks(t)
  <2>1. Move(t, "finish") \/ (Goto(t, "none") /\ call' = [call EXCEPT ![t] = NoCall])
    BY <1>2 DEF Hooks
  <2> QED BY <2>1, MoveWork, GotoWork
<1>3. CASE Finish(t)
  <2>1. Take(t, "cursor") \/ Leave(t, "none", TRUE)
    BY <1>3 DEF Finish
  <2> QED BY <2>1, GoesOnWork
<1>4. CASE Awake(t)
  <2>1. Leave(t, "none", FALSE) \/ Leave(t, "waiting", FALSE) \/ Take(t, "cursor")
    BY <1>4 DEF Awake
  <2> QED BY <2>1, GoesOnWork
<1>5. CASE Timeout(t) \/ CancelReturn(t)
  BY <1>5, GotoWork DEF Timeout, CancelReturn
<1>6. CASE EndTurn(t)
  BY <1>6, MoveRests, RestsWork DEF EndTurn
<1>7. CASE ReadCursor(t)
  BY <1>7, GotoWork, FailWork DEF ReadCursor
<1> QED BY <1>1, <1>2, <1>3, <1>4, <1>5, <1>6, <1>7

LEMMA AppendsWork ==
  ASSUME Control, NEW t \in Task, AppendFence(t) \/ AppendIdle(t) \/ AppendRelease(t) \/ AppendFails(t)
  PROVE  WorkingTasks' \subseteq WorkingTasks
<1>1. CASE AppendFence(t)
  BY <1>1, MoveWork, HooksWork DEF AppendFence, PersistOrRunHooks
<1>2. CASE AppendIdle(t)
  BY <1>2, LeaveWork, HooksWork DEF AppendIdle
<1>3. CASE AppendRelease(t)
  BY <1>3, LeaveWork DEF AppendRelease
<1>4. CASE AppendFails(t)
  BY <1>4, FailWork DEF AppendFails
<1> QED BY <1>1, <1>2, <1>3, <1>4

-----------------------------------------------------------------------------
(* The steps as steps of the gate *)

\* A process that has read the log and is not draining finds the gate open, for
\* good.
LEMMA NotDrainingIsOpen ==
  ASSUME Settles, IInv, state.hydrated = "yes", ~Draining(state)
  PROVE  Holder = NoOperation /\ late = {}
<1>1. Typed /\ Settled
  BY SoundParts DEF IInv
<1>2. late = {} /\ \A i \in Positions : IsLast(i, Positions) => log[i].kind = "release"
  BY <1>1 DEF Settled, ReadMeansRefusing
<1>3. Open = {}
  <2> SUFFICES ASSUME Open # {} PROVE FALSE
    OBVIOUS
  <2>1. LastOf(Open) \in Open /\ IsLast(LastOf(Open), Positions)
    BY <1>1, OpenEnds
  <2>2. LastOf(Open) \in Releases
    BY <1>2, <2>1 DEF IsLast, Releases
  <2> QED BY <1>1, <2>1, <2>2, PositionsTyped
<1> QED BY <1>2, <1>3 DEF Holder

LEMMA AdmitGate ==
  ASSUME Settles, IInv, GateInv, NEW t \in Task, Admit(t)
  PROVE  GateInv' /\ GateStep
<1>1. /\ pc[t] = "body" /\ Control /\ state \in State /\ state.hydrated = "yes"
      /\ log' = log /\ late' = late
  BY SoundParts DEF IInv, Typed, Relies, Admit, Unlogged
<1>2. CASE Fail(t) /\ UNCHANGED state
  BY <1>1, <1>2, FailWork, QuietGate
<1>3. CASE /\ ~Draining(state)
           /\ state' = [state EXCEPT !.active = @ + 1]
           /\ Leave(t, "holding", FALSE)
  <2>1. Holder = NoOperation /\ late = {}
    BY <1>1, <1>3, NotDrainingIsOpen
  <2>2. Holder' = Holder /\ DeclaredIdle' = DeclaredIdle
    BY <1>1, SameGate
  <2>3. WorkingTasks' = WorkingTasks \cup {t}
    <3>1. pc'[t] = "holding" /\ \A u \in Task \ {t} : pc'[u] = pc[u]
      BY <1>3 DEF Leave
    <3> QED BY <3>1 DEF WorkingTasks
  <2>4. Gate!Enter(t)
    BY <2>1, <2>2, <2>3 DEF Gate!Enter
  <2>5. GateInv'
    BY <1>1, <2>1, <2>2 DEF GateInv, OneHandoff, LateReleaseMeansNoWork
  <2> QED BY <2>4, <2>5 DEF GateStep, Gate!Next
<1> QED BY <1>2, <1>3 DEF Admit

LEMMA PrepareGate ==
  ASSUME Settles, IInv, GateInv, NEW t \in Task, Prepare(t)
  PROVE  GateInv' /\ GateStep
<1>1. /\ pc[t] = "body" /\ Control /\ state \in State /\ state.hydrated = "yes"
      /\ log' = log /\ late' = late
  BY SoundParts DEF IInv, Typed, Relies, Prepare, Unlogged
<1>2. WorkingTasks' \subseteq WorkingTasks
  BY <1>1, BodyWork
<1>3. CASE state'.operation = state.operation
  BY <1>1, <1>2, <1>3, QuietGate
<1>4. CASE state'.operation # state.operation
  <2>1. state.operation = NoOperation
    BY <1>1, <1>4 DEF Prepare, State
  <2>2. Holder = NoOperation /\ late = {}
    BY <1>1, <2>1, NotDrainingIsOpen DEF Draining
  <2>3. Holder' = Holder /\ DeclaredIdle' = DeclaredIdle
    BY <1>1, SameGate
  <2>4. GateInv'
    BY <1>1, <2>2, <2>3 DEF GateInv, OneHandoff, LateReleaseMeansNoWork
  <2>5. Gate!Leave
    BY <1>2, <2>3 DEF Gate!Leave
  <2> QED BY <2>4, <2>5 DEF GateStep, Gate!Next
<1> QED BY <1>3, <1>4

LEMMA QuietActionGate ==
  ASSUME Settles, IInv, GateInv, NEW t \in Task, QuietAction(t)
  PROVE  GateInv' /\ GateStep
<1>1. Control /\ state \in State /\ log' = log /\ late' = late
  BY SoundParts, QuietActions DEF IInv, Typed, Quiet
<1>2. CASE Admit(t)
  BY <1>2, AdmitGate
<1>3. CASE Prepare(t)
  BY <1>3, PrepareGate
<1>4. CASE ~Admit(t) /\ ~Prepare(t)
  <2>1. WorkingTasks' \subseteq WorkingTasks
    BY <1>1, <1>4, BodyWork, OutsideWork DEF QuietAction
  <2>2. state'.operation = state.operation
    <3>1. CASE Return(t) \/ Finish(t)
      BY <1>1, <3>1 DEF Return, Finish, State
    <3>2. CASE Hooks(t) \/ Status(t) \/ Wait(t) \/ Awake(t) \/ Timeout(t)
      BY <3>2 DEF Hooks, Status, Wait, Awake, Timeout
    <3>3. CASE Release(t) \/ ReadCursor(t) \/ EndTurn(t) \/ CancelReturn(t)
      BY <3>3 DEF Release, ReadCursor, EndTurn, CancelReturn
    <3> QED BY <1>4, <3>1, <3>2, <3>3 DEF QuietAction
  <2> QED BY <1>1, <2>1, <2>2, QuietGate
<1> QED BY <1>2, <1>3, <1>4

LEMMA HydrateGate ==
  ASSUME Settles, IInv, LogEnds, GateInv, NEW t \in Task, Hydrate(t)
  PROVE  GateInv' /\ GateStep
<1>1. Control /\ Sound /\ Typed /\ log' = log
  BY SoundParts DEF IInv, Hydrate
<1>2. WorkingTasks' \subseteq WorkingTasks
  BY <1>1, BodyWork
<1>3. CASE UNCHANGED <<state, late>>
  BY <1>1, <1>2, <1>3, QuietGate
<1>4. CASE state' = [Restored EXCEPT !.hydrated = "yes"] /\ late' = IF Settles THEN {} ELSE late
  <2>1. state'.operation = Restored.operation /\ late' = {}
    BY <1>1, <1>4, RestoredFacts DEF State
  <2>2. Holder' = Holder /\ DeclaredIdle' = DeclaredIdle
    BY <1>1, SameGate
  <2>3. Holder \in {NoOperation, Restored.operation}
    BY <1>1, RestoredEnds DEF Holder
  <2>4. GateInv'
    BY <2>1, <2>2, <2>3 DEF GateInv, OneHandoff, LateReleaseMeansNoWork
  <2>5. Gate!Leave
    BY <1>2, <2>2 DEF Gate!Leave
  <2> QED BY <2>4, <2>5 DEF GateStep, Gate!Next
<1> QED BY <1>3, <1>4 DEF Hydrate

\* Fewer turns, and another record at the end of the log
LEMMA RecordGate ==
  ASSUME GateInv, Typed, NEW record \in Record, Grows(record), WorkingTasks' = WorkingTasks,
         record.kind = "data" \/ record.kind \in Lifecycle,
         record.kind \in Lifecycle => record.operation \in Operation /\ Holder \in {NoOperation, record.operation},
         record.kind = "fence" => ~DeclaredIdle,
         record.kind \in {"idle", "release"} => WorkingTasks = {},
         \/ state'.operation = NoOperation
         \/ state'.operation = state.operation
            /\ (record.kind \in Lifecycle /\ Draining(state) => record.operation = state.operation)
  PROVE  GateInv' /\ GateStep
<1>1. /\ record.kind = "data" => Holder' = Holder /\ DeclaredIdle' = DeclaredIdle
      /\ record.kind = "release" => Holder' = NoOperation /\ DeclaredIdle' = FALSE
      /\ record.kind = "fence" => Holder' = record.operation /\ DeclaredIdle' = FALSE
      /\ record.kind = "idle" => Holder' = record.operation /\ DeclaredIdle' = TRUE
  BY GrowsGate
<1>2. late' = {}
  BY DEF Grows
<1>3. GateInv'
  <2>1. Draining(state)' => Holder' \in {NoOperation, state'.operation}
    BY <1>1 DEF GateInv, OneHandoff, Draining, Lifecycle
  <2> QED BY <1>2, <2>1 DEF GateInv, OneHandoff, LateReleaseMeansNoWork
<1>4. GateStep
  <2>1. CASE record.kind = "data"
    BY <1>1, <2>1 DEF GateStep
  <2>2. CASE record.kind = "release"
    BY <1>1, <2>2 DEF GateStep, Gate!Next, Gate!Reopen
  <2>3. CASE record.kind = "fence"
    <3>1. DeclaredIdle' = DeclaredIdle
      BY <1>1, <2>3 DEF DeclaredIdle
    <3>2. Gate!Close(record.operation)
      BY <1>1, <2>3, <3>1 DEF Gate!Close, Gate!Holds, Lifecycle
    <3> QED BY <2>3, <3>2 DEF GateStep, Gate!Next, Lifecycle
  <2>4. CASE record.kind = "idle"
    <3>1. Gate!DeclareIdle(record.operation)
      BY <1>1, <2>4 DEF Gate!DeclareIdle, Gate!Holds, Lifecycle
    <3> QED BY <2>4, <3>1 DEF GateStep, Gate!Next, Lifecycle
  <2> QED BY <2>1, <2>2, <2>3, <2>4 DEF Lifecycle
<1> QED BY <1>3, <1>4

\* No idle marker is declared while none is open.
LEMMA NoneIsDeclared ==
  ASSUME Typed, NoIdleIsOpen
  PROVE  ~DeclaredIdle
<1> SUFFICES ASSUME NEW i \in Positions, IsLast(i, Positions), log[i].kind = "idle" PROVE FALSE
  BY DEF DeclaredIdle
<1>1. ASSUME NEW j \in Releases PROVE j < i
  <2>1. j \in Positions /\ j <= i /\ j # i
    BY DEF Releases, IsLast
  <2> QED BY <2>1, PositionsTyped
<1> QED BY <1>1 DEF Open, NoIdleIsOpen

\* What a task appends, or may have appended
LEMMA MarkerGate ==
  ASSUME IInv, LogEnds, CallsFit, GateInv, NEW t \in Task,
         pc[t] \in {"fence", "idle", "release"}, Place(t) = Len(log)
  PROVE  /\ MarkerOf(t).operation = state.operation /\ state.operation \in Operation
         /\ Draining(state) /\ Holder \in {NoOperation, state.operation}
         /\ pc[t] = "fence" => ~DeclaredIdle
         /\ pc[t] \in {"idle", "release"} => WorkingTasks = {}
<1>1. Sound /\ Typed /\ Relies(t)
  BY SoundParts DEF IInv
<1>2. MarkerOf(t).operation = state.operation /\ state.operation \in Operation
  BY <1>1, MarkerFacts
<1>3. Draining(state) /\ Holder \in {NoOperation, state.operation}
  BY <1>2, OperationAssumption DEF GateInv, OneHandoff, Draining
<1>4. pc[t] = "fence" => ~DeclaredIdle
  <2> SUFFICES ASSUME pc[t] = "fence" PROVE NoIdleIsOpen
    BY <1>1, NoneIsDeclared
  <2>1. state.hydrated = "yes" /\ state.fence = 0
    BY <1>1 DEF Relies, CallsFit, FenceIsFirst
  <2> QED BY <2>1 DEF LogEnds, NoneIsUnread
<1>5. pc[t] \in {"idle", "release"} => WorkingTasks = {}
  BY <1>1, WorkersTyped DEF Relies
<1> QED BY <1>2, <1>3, <1>4, <1>5

LEMMA AppendGate ==
  ASSUME IInv, LogEnds, CallsFit, GateInv, NEW t \in Task,
         AppendFence(t) \/ AppendIdle(t) \/ AppendRelease(t)
  PROVE  GateInv' /\ GateStep
<1> DEFINE record == MarkerOf(t)
<1>1. /\ pc[t] \in {"fence", "idle", "release"} /\ Appends(t) /\ Place(t) = Len(log)
  BY DEF AppendFence, AppendIdle, AppendRelease, Appends
<1>2. Sound /\ Typed /\ Control /\ state \in State
  BY SoundParts DEF IInv, Typed
<1>3. record \in Record /\ Grows(record) /\ record.kind = pc[t] /\ record.kind \in Lifecycle
  BY <1>1, <1>2, AppendsFacts
<1>4. /\ record.operation = state.operation /\ state.operation \in Operation
      /\ Draining(state) /\ Holder \in {NoOperation, state.operation}
      /\ pc[t] = "fence" => ~DeclaredIdle
      /\ pc[t] \in {"idle", "release"} => WorkingTasks = {}
  BY <1>1, MarkerGate
<1>5. WorkingTasks' \subseteq WorkingTasks
  BY <1>2, AppendsWork
<1>6. state'.operation \in {state.operation, NoOperation}
  BY <1>2 DEF AppendFence, AppendIdle, AppendRelease, Fresh, State
<1> HIDE DEF record
<1>7. WorkingTasks' = WorkingTasks
  <2>1. CASE pc[t] \in {"idle", "release"}
    BY <1>4, <1>5, <2>1
  <2>2. CASE pc[t] = "fence"
    <3>1. AppendFence(t)
      BY <2>2 DEF AppendFence, AppendIdle, AppendRelease
    <3>2. OthersRest(t) /\ pc'[t] \in {"cursor", "hooks"}
      BY <1>2, <3>1, MoveRests, RunHooksRests DEF AppendFence, PersistOrRunHooks
    <3> QED BY <2>2, <3>2 DEF OthersRest, WorkingTasks
  <2> QED BY <1>1, <2>1, <2>2
<1> QED BY <1>2, <1>3, <1>4, <1>6, <1>7, RecordGate

LEMMA AppendFailsGate ==
  ASSUME IInv, LogEnds, CallsFit, GateInv, NEW t \in Task, AppendFails(t)
  PROVE  GateInv' /\ GateStep
<1> DEFINE record == MarkerOf(t)
<1>1. /\ pc[t] \in {"fence", "idle", "release"} /\ log' = log
      /\ late' = late \/ (late' = late \cup {record} /\ Place(t) = Len(log))
  BY DEF AppendFails
<1>2. Sound /\ Control /\ state \in State
  BY SoundParts DEF IInv, Typed
<1>3. state'.operation = state.operation /\ WorkingTasks' \subseteq WorkingTasks
  BY <1>2, AppendsWork DEF AppendFails, State
<1>4. CASE late' = late
  BY <1>1, <1>3, <1>4, QuietGate
<1>5. CASE late' = late \cup {record} /\ Place(t) = Len(log)
  <2>1. /\ record.operation = state.operation /\ Draining(state)
        /\ Holder \in {NoOperation, state.operation}
        /\ pc[t] \in {"idle", "release"} => WorkingTasks = {}
    BY <1>1, <1>5, MarkerGate
  <2>2. record.kind = pc[t]
    BY <1>1, <1>2, <1>5, MarkerFacts
  <2> HIDE DEF record
  <2>3. Holder' = Holder /\ DeclaredIdle' = DeclaredIdle
    BY <1>1, SameGate
  <2>4. GateInv'
    BY <1>3, <1>5, <2>1, <2>2, <2>3 DEF GateInv, OneHandoff, LateReleaseMeansNoWork, Draining
  <2>5. Gate!Leave
    BY <1>3, <2>3 DEF Gate!Leave
  <2> QED BY <2>4, <2>5 DEF GateStep, Gate!Next
<1> QED BY <1>1, <1>4, <1>5

LEMMA EnvironmentGate ==
  ASSUME Settles, IInv, LogEnds, GateInv, LateCommit \/ OtherAppend
  PROVE  GateInv' /\ GateStep
<1>1. Typed /\ Sound /\ Settled
  BY SoundParts DEF IInv
<1>2. CASE OtherAppend
  <2>1. Data \in Record /\ Data.kind = "data" /\ Data.kind \notin Lifecycle
    BY DEF Data, Record, Lifecycle
  <2>2. Grows(Data) /\ state' = state /\ WorkingTasks' = WorkingTasks
    BY <1>2 DEF OtherAppend, Commits, Grows, WorkingTasks
  <2> QED BY <1>1, <2>1, <2>2, RecordGate
<1>3. CASE LateCommit
  <2>1. PICK record \in late : Commits(record)
    BY <1>3 DEF LateCommit
  <2>2. Grows(record) /\ state' = state /\ WorkingTasks' = WorkingTasks
    BY <2>1 DEF Commits, Grows, WorkingTasks
  <2>3. record \in Record /\ record.kind \in Lifecycle /\ record.operation \in Operation
    BY <1>1 DEF Typed, Sound, MarkersAreSound
  <2>4. /\ Holder \in {NoOperation, record.operation}
        /\ Draining(state) => record.operation = state.operation
        /\ record.kind \in {"idle", "release"} => WorkingTasks = {}
    BY <1>1 DEF GateInv, OneHandoff, LateReleaseMeansNoWork, Settled, LateIdleMeansNoWork
  <2>5. record.kind = "fence" => ~DeclaredIdle
    BY <1>1, NoneIsDeclared DEF LogEnds, IdlesComeLast
  <2> QED BY <1>1, <2>2, <2>3, <2>4, <2>5, RecordGate
<1> QED BY <1>2, <1>3

LEMMA RestartGate ==
  ASSUME GateInv, Restart
  PROVE  GateInv' /\ GateStep
<1>1. log' = log /\ late' = late /\ state'.operation = NoOperation
  BY DEF Restart, Unlogged, Fresh
<1>2. WorkingTasks' = {}
  BY DEF Restart, WorkingTasks
<1> QED BY <1>1, <1>2, QuietGate

LEMMA BeginCallGate ==
  ASSUME IInv, GateInv, NEW t \in Task, NEW do, NEW operation, NEW expected,
         BeginCall(t, do, operation, expected)
  PROVE  GateInv' /\ GateStep
<1>1. Control /\ state \in State /\ log' = log /\ late' = late
  BY SoundParts DEF IInv, Typed, BeginCall, Unlogged
<1>2. state'.operation = state.operation
  BY <1>1 DEF BeginCall, State
<1>3. pc' = [pc EXCEPT ![t] = IF state.hydrated = "yes" THEN "body" ELSE "hydrate"]
  BY DEF BeginCall, Goto
<1>4. WorkingTasks' \subseteq WorkingTasks
  BY <1>1, <1>3 DEF WorkingTasks, Control
<1> QED BY <1>1, <1>2, <1>4, QuietGate

LEMMA StepGate ==
  ASSUME Settles, IInv, LogEnds, CallsFit, GateInv, NEW t \in Task, Step(t)
  PROVE  GateInv' /\ GateStep
<1>1. CASE QuietAction(t)
  BY <1>1, QuietActionGate
<1>2. CASE Hydrate(t)
  BY <1>2, HydrateGate
<1>3. CASE AppendFence(t) \/ AppendIdle(t) \/ AppendRelease(t)
  BY <1>3, AppendGate
<1>4. CASE AppendFails(t)
  BY <1>4, AppendFailsGate
<1> QED BY <1>1, <1>2, <1>3, <1>4 DEF Step, QuietAction

LEMMA AsideGate ==
  ASSUME Settles, IInv, GateInv, NEW t \in Task, EndTurn(t) \/ CancelReturn(t)
  PROVE  GateInv' /\ GateStep
BY QuietActionGate DEF QuietAction

LEMMA StutteringGate ==
  ASSUME GateInv, UNCHANGED vars
  PROVE  GateInv' /\ GateStep
<1>1. log' = log /\ late' = late /\ state' = state /\ pc' = pc
  BY DEF vars
<1>2. WorkingTasks' = WorkingTasks
  BY <1>1 DEF WorkingTasks
<1> QED BY <1>1, <1>2, QuietGate

LEMMA InitGate ==
  ASSUME Init
  PROVE  GateInv /\ Gate!Init
<1>1. log = <<>> /\ late = {} /\ state.operation = NoOperation /\ pc = [t \in Task |-> "none"]
  BY DEF Init, Fresh
<1>2. Positions = {} /\ WorkingTasks = {}
  BY <1>1 DEF Positions, WorkingTasks
<1>3. Holder = NoOperation /\ DeclaredIdle = FALSE
  BY <1>2 DEF Holder, Open, DeclaredIdle
<1> QED BY <1>1, <1>2, <1>3 DEF GateInv, OneHandoff, LateReleaseMeansNoWork, Draining, Gate!Init

LEMMA NextGate ==
  ASSUME Settles, IInv, LogEnds, CallsFit, GateInv, [Next]_vars
  PROVE  GateInv' /\ GateStep
<1>1. CASE UNCHANGED vars
  BY <1>1, StutteringGate
<1>2. ASSUME NEW t \in Task, Begin(t) PROVE GateInv' /\ GateStep
  BY <1>2, BeginCallGate DEF Begin
<1>3. ASSUME NEW t \in Task, Step(t) PROVE GateInv' /\ GateStep
  BY <1>3, StepGate
<1>4. ASSUME NEW t \in Task, EndTurn(t) \/ CancelReturn(t) PROVE GateInv' /\ GateStep
  BY <1>4, AsideGate
<1>5. CASE LateCommit \/ OtherAppend
  BY <1>5, EnvironmentGate
<1>6. CASE Restart
  BY <1>6, RestartGate
<1> QED BY <1>1, <1>2, <1>3, <1>4, <1>5, <1>6 DEF Next

LEMMA NextHubGate ==
  ASSUME Settles, IInv, LogEnds, CallsFit, GateInv, [NextHub]_allVars
  PROVE  GateInv' /\ GateStep
<1>1. CASE UNCHANGED vars
  BY <1>1, StutteringGate
<1>2. CASE Start \/ Leaves \/ GiveUp
  BY <1>1, <1>2 DEF Start, Leaves, GiveUp
<1>3. ASSUME NEW t \in Task, Arrive(t) \/ ArriveLate(t) PROVE GateInv' /\ GateStep
  BY <1>3, BeginCallGate DEF Arrive, ArriveLate, Request
<1>4. ASSUME NEW t \in Task, Serve(t) PROVE GateInv' /\ GateStep
  BY <1>4, StepGate DEF Serve
<1>5. CASE Turns
  <2>1. PICK t \in Task : Begin(t) \/ EndTurn(t)
    BY <1>5 DEF Turns
  <2> QED BY <2>1, BeginCallGate, AsideGate DEF Begin
<1>6. CASE Others
  BY <1>6, EnvironmentGate DEF Others
<1>7. CASE PodRestart
  BY <1>7, RestartGate DEF PodRestart
<1> QED BY <1>1, <1>2, <1>3, <1>4, <1>5, <1>6, <1>7 DEF NextHub, allVars

\* On a store that settles before it is read, the pod implements AdmissionGate:
\* one operation at a time closes it, turns enter only while it is open, and it
\* is declared idle or opened again only while no turn holds a permit, whatever
\* restarts, lost answers and late markers there are.
THEOREM ImplementsAdmissionGate == Settles => (Spec => GateSpec)
<1> SUFFICES ASSUME Settles PROVE Spec => GateSpec
  OBVIOUS
<1>1. Init => GateInv /\ Gate!Init
  BY InitGate
<1>2. (IInv /\ LogEnds /\ CallsFit) /\ GateInv /\ [Next]_vars => GateInv' /\ GateStep
  BY NextGate
<1>3. Spec => [](IInv /\ LogEnds /\ CallsFit)
  BY PodEnds
<1>4. GateStep => [Gate!Next]_<<Holder, DeclaredIdle, WorkingTasks>>
  BY DEF GateStep
<1> QED BY <1>1, <1>2, <1>3, <1>4, PTL DEF Spec, GateSpec, Gate!Spec

\* So it does for the hub, whatever the hub asks, gives up and asks again.
THEOREM HubMeetsAdmissionGate == Settles => (SpecHub => GateSpec)
<1> SUFFICES ASSUME Settles PROVE SpecHub => GateSpec
  OBVIOUS
<1>1. InitHub => GateInv /\ Gate!Init
  BY InitGate DEF InitHub
<1>2. (IInv /\ LogEnds /\ CallsFit) /\ GateInv /\ [NextHub]_allVars => GateInv' /\ GateStep
  BY NextHubGate
<1>3. SpecHub => [](IInv /\ LogEnds /\ CallsFit)
  BY HubEnds
<1>4. GateStep => [Gate!Next]_<<Holder, DeclaredIdle, WorkingTasks>>
  BY DEF GateStep
<1> QED BY <1>1, <1>2, <1>3, <1>4, PTL DEF SpecHub, GateSpec, Gate!Spec

=============================================================================
