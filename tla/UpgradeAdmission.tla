-------------------------- MODULE UpgradeAdmission --------------------------
(***************************************************************************)
(* Admission of work to a pod around an approved update:                   *)
(* hushh_mcp/services/pod_upgrade_admission.py and pod_runtime_work.py.    *)
(*                                                                         *)
(* One process serves one incarnation of the pod; it may die and be        *)
(* replaced by another, which knows only what the sealed log says.  Inside *)
(* a process every call runs under one condition, and gives it up only     *)
(* around the drain hooks, while it waits for idleness, and between the    *)
(* grant of a turn and its return.                                         *)
(*                                                                         *)
(* The log is taken at the level of AppendLog, which PodCommitLog          *)
(* implements: a marker is appended at the end, an idle marker only at     *)
(* exactly the position that was read before it.  An append may be refused *)
(* and its answer may be lost; then it may still be committed later, if    *)
(* nothing else was committed in its place.  The writer's lease, when the  *)
(* deployment has one, is the subject of RuntimeWriter.                    *)
(***************************************************************************)
EXTENDS Integers, Sequences, FiniteSets

CONSTANTS
  Task,         \* coroutines that call the admission object
  Free,         \* nobody holds the condition
  Operation,    \* ids of approved operations
  NoOperation,
  Hooked,       \* a drain hook is registered
  Calls,        \* the kinds of calls that are made
  Cancels,      \* a task may be cancelled while it returns its permit
  Settles,      \* a write without an answer is applied before the next reading or never
  MaxActive,    \* bound of the model: permits that are counted at once
  MaxData,      \* bound of the model: other records appended to the log
  MaxLate,      \* bound of the model: writes that may yet be applied
  MaxEpoch,     \* bound of the model: processes
  MaxLen        \* bound of the model: the length of the log

ASSUME TaskAssumption == IsFiniteSet(Task) /\ Free \notin Task
ASSUME OperationAssumption == NoOperation \notin Operation
ASSUME HookedAssumption == Hooked \in BOOLEAN /\ Cancels \in BOOLEAN
ASSUME SettlesAssumption == Settles \in BOOLEAN
ASSUME CallsAssumption == Calls \subseteq {"turn", "prepare", "status", "wait", "release"}
ASSUME BoundsAssumption ==
  MaxActive \in Nat /\ MaxData \in Nat /\ MaxLate \in Nat /\ MaxEpoch \in Nat \ {0} /\ MaxLen \in Nat

VARIABLES
  log,     \* the records of the sealed log
  late,    \* records without an answer that may yet be committed next
  epoch,   \* the runtime epoch of the process
  state,   \* its _State for the incarnation
  lock,    \* the task that holds the condition
  pc,      \* where each task stands
  call,    \* its call
  cursor,  \* the position that it read last
  closing, \* history: tasks whose drain hooks began during the handoff in force
  closed   \* history: some of them have completed

vars == <<log, late, epoch, state, lock, pc, call, cursor, closing, closed>>

-----------------------------------------------------------------------------
(* Records of the log and what a process makes of them *)

Lifecycle == {"fence", "idle", "release"}

\* Positions stand for the cursors (seq, sha) of the code, 0 for None: the idle
\* record's committedCursor, a release's retainedIdleRecord and
\* expectedIdleRecord.
Record == [kind : Lifecycle \cup {"data"}, operation : Operation \cup {NoOperation}, epoch : Nat,
           prefix : Nat, retained : Nat, expected : Nat]

Marker(kind, operation) ==
  [kind |-> kind, operation |-> operation, epoch |-> epoch,
   prefix |-> 0, retained |-> 0, expected |-> 0]

Data == [kind |-> "data", operation |-> NoOperation, epoch |-> 0,
         prefix |-> 0, retained |-> 0, expected |-> 0]

\* Records are named by their positions.  The code sets and clears draining
\* together with operation_id, so that operation # NoOperation stands for both.
\* hydrated is "never" until the process has a _State for the incarnation.
State == [operation : Operation \cup {NoOperation}, active : Nat, receipt : Nat, fence : Nat,
          hydrated : {"never", "stale", "yes"}, hooks : BOOLEAN, retained : Nat, released : Nat]

Fresh == [operation |-> NoOperation, active |-> 0, receipt |-> 0, fence |-> 0,
          hydrated |-> "never", hooks |-> TRUE, retained |-> 0, released |-> 0]

Positions == {i \in 1 .. Len(log) : log[i].kind \in Lifecycle}

IsLast(i, S) == i \in S /\ \A j \in S : j <= i
IsFirst(i, S) == i \in S /\ \A j \in S : i <= j

LastOf(S) == IF S = {} THEN 0 ELSE CHOOSE i \in S : IsLast(i, S)
FirstOf(S) == IF S = {} THEN 0 ELSE CHOOSE i \in S : IsFirst(i, S)

Releases == {i \in Positions : log[i].kind = "release"}

\* Mutation: a release does not end what came before it.
OpenForEver == Positions

\* Markers that no release has answered
Open == {i \in Positions : \A j \in Releases : j < i}

\* What the markers of the log make of a _State that is read again: the
\* fields start from what the process remembers, and a release clears them.
Restored ==
  LET release == LastOf(Releases)
      last    == LastOf(Open)
      before  == IF release = 0 THEN state ELSE [state EXCEPT
                   !.operation = NoOperation, !.receipt = 0, !.fence = 0,
                   !.retained = 0, !.released = release]
      \* the markers since the operation last changed, and whether it is still
      \* the operation that was in the state before
      ours    == {i \in Open : \A j \in Open : j >= i => log[j].operation = log[last].operation}
      same    == ours = Open /\ log[last].operation = before.operation
      idles   == {i \in ours : log[i].kind = "idle"}
      latest  == LastOf(idles)
  IN  IF Open = {} THEN before ELSE [before EXCEPT
        !.operation = log[last].operation,
        !.fence = last,
        !.released = 0,
        !.retained = IF same /\ before.retained # 0 THEN before.retained ELSE FirstOf(idles),
        !.receipt =
          IF idles # {} THEN IF log[latest].epoch = epoch THEN latest ELSE 0
          ELSE IF same THEN before.receipt ELSE 0]

\* One turn of the loop of _restore_lifecycle, for the record at position i
Apply(s, i) ==
  LET marker  == log[i]
      changed == IF marker.operation = s.operation THEN s
                 ELSE [s EXCEPT !.retained = 0, !.receipt = 0]
      fenced  == [changed EXCEPT !.operation = marker.operation, !.fence = i, !.released = 0]
  IN  CASE marker.kind = "data" -> s
        [] marker.kind = "release" ->
             [s EXCEPT !.operation = NoOperation, !.receipt = 0, !.fence = 0,
                       !.retained = 0, !.released = i]
        [] marker.kind = "fence" -> fenced
        [] marker.kind = "idle" ->
             [fenced EXCEPT !.retained = IF @ = 0 THEN i ELSE @,
                            !.receipt = IF marker.epoch = epoch THEN i ELSE 0]

\* The loop over the first n records of the log
Loop[n \in 0 .. Len(log)] == IF n = 0 THEN state ELSE Apply(Loop[n - 1], n)

-----------------------------------------------------------------------------
(* Calls *)

NoCall == [do |-> "none", operation |-> NoOperation, expected |-> 0]

\* A prepare is "finish" in its second half.
Call == [do : {"none", "turn", "prepare", "finish", "status", "wait", "release"},
         operation : Operation \cup {NoOperation}, expected : Nat]

Pc == {"none", "hydrate", "body", "fence", "hooks", "finish", "holding", "return",
       "waiting", "awake", "cursor", "idle", "release"}

\* Steps that run under the condition
Inside == {"hydrate", "body", "fence", "cursor", "idle", "release"}

Draining(s) == s.operation # NoOperation
Drained(s) == s.active = 0 /\ s.hooks

Init ==
  /\ log = <<>> /\ late = {}
  /\ epoch = 1
  /\ state = Fresh
  /\ lock = Free
  /\ pc = [t \in Task |-> "none"]
  /\ call = [t \in Task |-> NoCall]
  /\ cursor = [t \in Task |-> 0]
  /\ closing = {} /\ closed = FALSE

Unlogged == UNCHANGED <<log, late>>
Unseen == UNCHANGED <<closing, closed>>

Goto(t, label) == pc' = [pc EXCEPT ![t] = label]

\* Without the condition, with it, or by taking it
Move(t, label) == Goto(t, label) /\ UNCHANGED <<lock, call, cursor>>
Take(t, label) == Goto(t, label) /\ lock' = t /\ UNCHANGED <<call, cursor>>

\* The task gives the condition up, having notified if it wakes the waiting.
Leave(t, label, wakes) ==
  /\ lock' = Free
  /\ pc' = [u \in Task |-> IF u = t THEN label
                           ELSE IF wakes /\ pc[u] = "waiting" THEN "awake" ELSE pc[u]]
  /\ call' = IF label = "none" THEN [call EXCEPT ![t] = NoCall] ELSE call
  /\ cursor' = [cursor EXCEPT ![t] = 0]

Fail(t) == Leave(t, "none", FALSE)

\* A call that has the condition reads the log unless the state is up to date.
BeginCall(t, do, operation, expected) ==
  /\ pc[t] = "none" /\ lock = Free
  /\ do = "wait" => state.hydrated # "never"
  /\ call' = [call EXCEPT ![t] = [do |-> do, operation |-> operation, expected |-> expected]]
  /\ lock' = t
  /\ state' = [state EXCEPT !.hydrated = IF @ = "never" THEN "stale" ELSE @]
  /\ Goto(t, IF state.hydrated = "yes" THEN "body" ELSE "hydrate")
  /\ UNCHANGED <<epoch, cursor>> /\ Unlogged /\ Unseen

\* A release may name an idle record that the hub has retained.
Begin(t) ==
  \E do \in Calls, operation \in Operation \cup {NoOperation}, expected \in 0 .. Len(log) :
    /\ do \in {"turn", "status"} <=> operation = NoOperation
    /\ expected # 0 => do = "release" /\ log[expected].kind = "idle"
    /\ BeginCall(t, do, operation, expected)

\* Mutation: a log that cannot be read is taken to hold no handoff.
HydrateAnyway(t) ==
  /\ pc[t] = "hydrate"
  /\ \E read \in {Restored, state} : state' = [read EXCEPT !.hydrated = "yes"]
  /\ late' = IF Settles THEN {} ELSE late
  /\ Move(t, "body")
  /\ UNCHANGED <<log, epoch>> /\ Unseen

\* _hydrate
Hydrate(t) ==
  /\ pc[t] = "hydrate"
  /\ \/ /\ state' = [Restored EXCEPT !.hydrated = "yes"]
        /\ late' = IF Settles THEN {} ELSE late
        /\ Move(t, "body")
     \/ Fail(t) /\ UNCHANGED <<state, late>>
  /\ UNCHANGED <<log, epoch>> /\ Unseen

-----------------------------------------------------------------------------
(* Turns *)

\* Mutation: a turn is admitted whatever the state.
AdmitAlways(t) ==
  /\ pc[t] = "body" /\ call[t].do = "turn"
  /\ state.active < MaxActive
  /\ state' = [state EXCEPT !.active = @ + 1]
  /\ Leave(t, "holding", FALSE)
  /\ UNCHANGED epoch /\ Unlogged /\ Unseen

\* acquire_turn
Admit(t) ==
  /\ pc[t] = "body" /\ call[t].do = "turn"
  /\ \/ Draining(state) /\ Fail(t) /\ UNCHANGED state
     \/ /\ ~Draining(state) /\ state.active < MaxActive
        /\ state' = [state EXCEPT !.active = @ + 1]
        /\ Leave(t, "holding", FALSE)
  /\ UNCHANGED epoch /\ Unlogged /\ Unseen

\* TurnPermit.release has marked the permit and waits for the condition.
EndTurn(t) ==
  /\ pc[t] = "holding" /\ Move(t, "return")
  /\ UNCHANGED <<epoch, state>> /\ Unlogged /\ Unseen

\* release_turn
Return(t) ==
  /\ pc[t] = "return" /\ lock = Free
  /\ LET returned == [state EXCEPT !.active = IF @ = 0 THEN 0 ELSE @ - 1] IN
       /\ state' = returned
       /\ IF Drained(returned) /\ Draining(state) /\ state.receipt = 0
          THEN Take(t, "cursor")
          ELSE Leave(t, "none", returned.active = 0)
  /\ UNCHANGED epoch /\ Unlogged /\ Unseen

\* The task is cancelled before it has the condition: its permit is marked as
\* released, so that nobody returns it again, and it stays in active.
CancelReturn(t) ==
  /\ Cancels /\ pc[t] = "return"
  /\ Goto(t, "none")
  /\ call' = [call EXCEPT ![t] = NoCall]
  /\ UNCHANGED <<epoch, state, lock, cursor>> /\ Unlogged /\ Unseen

-----------------------------------------------------------------------------
(* prepare *)

AlreadyReleased(operation) ==
  /\ state.released # 0
  /\ log[state.released].operation = operation
  /\ log[state.released].expected # 0

\* The prepare has written the fence or found it: it declares the process idle,
\* or gives the condition up and runs its hooks.
RunHooks(t) ==
  /\ lock' = Free
  /\ Goto(t, "hooks")
  /\ call' = [call EXCEPT ![t].do = "finish"]
  /\ closing' = closing \cup {t}
  /\ cursor' = [cursor EXCEPT ![t] = 0]
  /\ UNCHANGED closed

PersistOrRunHooks(t, s) ==
  IF Drained(s) /\ s.receipt = 0 THEN Move(t, "cursor") /\ Unseen ELSE RunHooks(t)

Prepare(t) ==
  /\ pc[t] = "body" /\ call[t].do = "prepare"
  /\ LET operation == call[t].operation
         refused == AlreadyReleased(operation) \/ state.operation \notin {NoOperation, operation}
         drains == [state EXCEPT !.operation = operation,
                                 !.hooks = IF Hooked THEN FALSE ELSE @,
                                 !.receipt = IF Hooked THEN 0 ELSE @]
     IN  \/ /\ refused
            /\ Fail(t)
            /\ UNCHANGED state /\ Unseen
         \/ /\ ~refused /\ state.fence = 0
            /\ state' = [drains EXCEPT !.released = 0, !.retained = 0]
            /\ Move(t, "fence") /\ Unseen
         \/ /\ ~refused /\ state.fence # 0
            /\ state' = drains
            /\ PersistOrRunHooks(t, drains)
  /\ UNCHANGED epoch /\ Unlogged

\* The drain hooks end: they are done, or one of them raises.
Hooks(t) ==
  /\ pc[t] = "hooks"
  /\ \/ /\ Move(t, "finish")
        /\ closed' = (closed \/ t \in closing)
     \/ /\ Hooked
        /\ Goto(t, "none")
        /\ call' = [call EXCEPT ![t] = NoCall]
        /\ UNCHANGED <<lock, cursor, closed>>
  /\ closing' = closing \ {t}
  /\ UNCHANGED <<epoch, state>> /\ Unlogged

Finish(t) ==
  /\ pc[t] = "finish" /\ lock = Free
  /\ state' = [state EXCEPT !.hooks = TRUE]
  /\ IF state.active = 0 /\ state.receipt = 0 THEN Take(t, "cursor") ELSE Leave(t, "none", TRUE)
  /\ UNCHANGED epoch /\ Unlogged /\ Unseen

-----------------------------------------------------------------------------
(* status, wait_idle, release *)

Status(t) ==
  /\ pc[t] = "body" /\ call[t].do = "status"
  /\ Leave(t, "none", FALSE)
  /\ UNCHANGED <<epoch, state>> /\ Unlogged /\ Unseen

\* Without a timeout the task reports at once, with one it waits for the work.
Wait(t) ==
  /\ pc[t] = "body" /\ call[t].do = "wait"
  /\ \/ state.operation # call[t].operation /\ Fail(t)
     \/ /\ state.operation = call[t].operation /\ ~Drained(state)
        /\ Leave(t, "none", FALSE) \/ Leave(t, "waiting", FALSE)
     \/ /\ state.operation = call[t].operation /\ Drained(state)
        /\ IF state.receipt = 0 THEN Move(t, "cursor") ELSE Leave(t, "none", FALSE)
  /\ UNCHANGED <<epoch, state>> /\ Unlogged /\ Unseen

\* The waiter was notified and has the condition again.
Awake(t) ==
  /\ pc[t] = "awake" /\ lock = Free
  /\ \/ ~Drained(state) /\ Leave(t, "waiting", FALSE)
     \/ Drained(state) /\ state.receipt = 0 /\ Take(t, "cursor")
     \/ Drained(state) /\ state.receipt # 0 /\ Leave(t, "none", FALSE)
  /\ UNCHANGED <<epoch, state>> /\ Unlogged /\ Unseen

Timeout(t) ==
  /\ pc[t] \in {"waiting", "awake"}
  /\ Goto(t, "none")
  /\ call' = [call EXCEPT ![t] = NoCall]
  /\ UNCHANGED <<epoch, state, lock, cursor>> /\ Unlogged /\ Unseen

Repeated(c) ==
  /\ state.operation = NoOperation
  /\ state.released # 0
  /\ log[state.released].operation = c.operation

\* Mutation: the retained idle record is not compared.
RefusesAnotherOperation(c) == state.operation # c.operation \/ ~Drained(state)

\* Mutation: work that is under way does not matter.
RefusesWithoutCount(c) ==
  state.operation # c.operation \/ (c.expected # 0 /\ state.retained # c.expected)

RefusesRelease(c) ==
  \/ state.operation # c.operation
  \/ c.expected # 0 /\ state.retained # c.expected
  \/ ~Drained(state)

\* A release that is repeated or refused ends here.
Release(t) ==
  /\ pc[t] = "body" /\ call[t].do = "release"
  /\ IF Repeated(call[t]) \/ RefusesRelease(call[t]) THEN Fail(t) ELSE Move(t, "release")
  /\ UNCHANGED <<epoch, state>> /\ Unlogged /\ Unseen

-----------------------------------------------------------------------------
(* Appends *)

\* _persist_idle: without a fence it refuses, and it may fail to read the log.
ReadCursor(t) ==
  /\ pc[t] = "cursor"
  /\ \/ /\ state.fence # 0
        /\ cursor' = [cursor EXCEPT ![t] = Len(log)]
        /\ Goto(t, "idle")
        /\ UNCHANGED <<lock, call>>
     \/ Fail(t)
  /\ UNCHANGED <<epoch, state>> /\ Unlogged /\ Unseen

\* The marker that a task is about to append, and where it would go
MarkerOf(t) ==
  CASE pc[t] = "fence" -> Marker("fence", state.operation)
    [] pc[t] = "idle" -> [Marker("idle", state.operation) EXCEPT !.prefix = cursor[t]]
    [] pc[t] = "release" ->
         [Marker("release", state.operation) EXCEPT
            !.retained = state.retained, !.expected = call[t].expected]

\* Mutation: the idle marker goes wherever the log ends.
PlaceAtEnd(t) == Len(log)

Place(t) == IF pc[t] = "idle" THEN cursor[t] ELSE Len(log)

Appends(t) ==
  /\ Len(log) < MaxLen
  /\ Len(log) = Place(t)
  /\ log' = Append(log, MarkerOf(t))
  /\ late' = {}
  /\ UNCHANGED epoch

AppendFence(t) ==
  /\ pc[t] = "fence" /\ Appends(t)
  /\ LET fenced == [state EXCEPT !.fence = Len(log) + 1] IN
       state' = fenced /\ PersistOrRunHooks(t, fenced)

AppendIdle(t) ==
  /\ pc[t] = "idle" /\ Appends(t)
  /\ state' = [state EXCEPT !.receipt = Len(log) + 1,
                            !.retained = IF @ = 0 THEN Len(log) + 1 ELSE @]
  /\ IF call[t].do = "prepare" THEN RunHooks(t)
     ELSE Leave(t, "none", call[t].do # "wait") /\ Unseen

AppendRelease(t) ==
  /\ pc[t] = "release" /\ Appends(t)
  /\ state' = [Fresh EXCEPT !.hydrated = "yes", !.released = Len(log) + 1]
  /\ closing' = {} /\ closed' = FALSE
  /\ Leave(t, "none", FALSE)

\* The append is refused, finds another record in its place, or its answer is
\* lost: then it is committed later, unless another record takes its place.
AppendFails(t) ==
  /\ pc[t] \in {"fence", "idle", "release"}
  /\ state' = IF pc[t] = "fence" THEN state ELSE [state EXCEPT !.hydrated = "stale"]
  /\ \/ UNCHANGED late
     \/ /\ Place(t) = Len(log) /\ Cardinality(late) < MaxLate
        /\ late' = late \cup {MarkerOf(t)}
  /\ Fail(t)
  /\ UNCHANGED <<log, epoch>> /\ Unseen

-----------------------------------------------------------------------------
(* The environment *)

Commits(record) ==
  /\ Len(log) < MaxLen
  /\ log' = Append(log, record)
  /\ late' = {}
  /\ UNCHANGED <<epoch, state, lock, pc, call, cursor>> /\ Unseen

LateCommit == \E record \in late : Commits(record)

\* Another part of the pod appends a record of its own.
OtherAppend ==
  /\ Cardinality({i \in 1 .. Len(log) : log[i] = Data}) < MaxData
  /\ Commits(Data)

\* The process dies, and another one starts for the same incarnation.
Restart ==
  /\ epoch < MaxEpoch
  /\ epoch' = epoch + 1
  /\ state' = Fresh
  /\ lock' = Free
  /\ pc' = [t \in Task |-> "none"]
  /\ call' = [t \in Task |-> NoCall]
  /\ cursor' = [t \in Task |-> 0]
  /\ closing' = {} /\ closed' = FALSE
  /\ Unlogged

Step(t) ==
  \/ Hydrate(t) \/ Admit(t) \/ Return(t) \/ Prepare(t) \/ Hooks(t) \/ Finish(t)
  \/ Status(t) \/ Wait(t) \/ Awake(t) \/ Timeout(t) \/ Release(t)
  \/ ReadCursor(t) \/ AppendFence(t) \/ AppendIdle(t) \/ AppendRelease(t) \/ AppendFails(t)

Next ==
  \/ \E t \in Task : Begin(t) \/ Step(t) \/ EndTurn(t) \/ CancelReturn(t)
  \/ LateCommit \/ OtherAppend \/ Restart

Spec == Init /\ [][Next]_vars

-----------------------------------------------------------------------------
(* Properties *)

TypeOK ==
  /\ log \in Seq(Record)
  /\ late \subseteq Record
  /\ epoch \in 1 .. MaxEpoch
  /\ state \in State
  /\ lock \in Task \cup {Free}
  /\ pc \in [Task -> Pc]
  /\ call \in [Task -> Call]
  /\ cursor \in [Task -> Nat]
  /\ closing \subseteq Task /\ closed \in BOOLEAN

WorkingTasks == {t \in Task : pc[t] \in {"holding", "return"}}

\* While the last lifecycle marker of the log is an idle one, of whatever
\* process, no turn holds a permit: not one that was admitted before it, nor one
\* that a lost answer, a restart or a retry let in after it.
IdleMeansNoWork ==
  \A i \in Positions : IsLast(i, Positions) /\ log[i].kind = "idle" => WorkingTasks = {}

\* Every turn that holds a permit is counted, so that none is overlooked when
\* the count is found to be zero; a permit whose return was cancelled stays
\* counted.
WorkIsCounted == state.active >= Cardinality(WorkingTasks)

\* The receipt that a process gives out is an idle marker of its own in the log,
\* for the handoff in force, and nothing was committed between the position it
\* attests and the marker.
ReceiptIsExact ==
  state.receipt # 0 =>
    /\ state.receipt \in Positions
    /\ LET marker == log[state.receipt] IN
         /\ marker.kind = "idle" /\ marker.epoch = epoch /\ marker.operation = state.operation
         /\ marker.prefix = state.receipt - 1

\* i is an idle marker of an operation, and only releases of that operation are
\* behind it, up to position n.
Retains(i, operation, n) ==
  /\ i \in Positions
  /\ log[i].kind = "idle" /\ log[i].operation = operation
  /\ \A q \in Releases : i < q /\ q < n => log[q].operation = operation

\* A release that names an idle record ends the handoff of that record: the same
\* operation, and no release of another one in between.
ReleaseMatchesIdle ==
  \A r \in Releases : log[r].expected # 0 =>
    log[r].expected < r /\ Retains(log[r].expected, log[r].operation, r)

\* Every idle marker follows a fence of the same operation.
IdleFollowsFence ==
  \A i \in Positions : log[i].kind = "idle" =>
    \E f \in Positions : f < i /\ log[f].kind = "fence" /\ log[f].operation = log[i].operation

\* What a process reads off the markers at once is what the loop of the code
\* computes from one record after the other, whatever it remembered before.
RestoredIsTheLoop == Restored = Loop[Len(log)]

\* Only acknowledged shutdown permits the idle marker: one that the process
\* appends comes after drain hooks that began in its handoff have completed.
HooksConfirmedBeforeIdle ==
  [][\A t \in Task : AppendIdle(t) => ~Hooked \/ closed]_vars

-----------------------------------------------------------------------------
(* The gate that the log and the tasks make *)

Holder == IF Open = {} THEN NoOperation ELSE log[LastOf(Open)].operation

DeclaredIdle == \E i \in Positions : IsLast(i, Positions) /\ log[i].kind = "idle"

\* The log and the tasks implement AdmissionGate: whatever restarts, lost answers
\* and late markers there are, one operation at a time closes the pod, no turn
\* enters while it is closed, and it is declared idle or opened only while no
\* turn holds a permit.
Gate == INSTANCE AdmissionGate WITH
  Turn <- Task, holder <- Holder, idle <- DeclaredIdle, inside <- WorkingTasks

GateSpec == Gate!Spec

-----------------------------------------------------------------------------
(* The inductive invariant *)

\* Whoever works on the state or the log has the condition; what a call begins
\* to do it does on a state that was read.
LockIsHeld == \A t \in Task : pc[t] \in Inside <=> lock = t

StateIsRead ==
  \A t \in Task : pc[t] \in {"body", "fence", "release"} => state.hydrated = "yes"

\* Calls name operations, and what is appended belongs to one of them.
CallsNameOperations ==
  \A t \in Task :
    /\ call[t].do \in {"prepare", "finish", "wait", "release"} => call[t].operation \in Operation
    /\ pc[t] = "fence" => state.operation \in Operation /\ call[t].do = "prepare"
    /\ pc[t] = "idle" => state.fence # 0
    /\ pc[t] = "release" =>
         /\ state.operation \in Operation
         /\ call[t].expected # 0 => call[t].expected = state.retained

\* Nobody declares the pod idle, or opens it again, while a turn is counted.
NoneIsCounted ==
  \A t \in Task : pc[t] \in {"cursor", "idle", "release"} => state.active = 0

FencedBefore(r) == \E f \in Positions : log[f].kind = "fence" /\ log[f].operation = r.operation

\* A record of the log, or one that may yet be committed at its end
MarkersAreSound ==
  /\ \A i \in Positions :
       log[i].operation \in Operation /\ (log[i].kind = "idle" => log[i].prefix = i - 1)
  /\ \A r \in late :
       /\ r.kind \in Lifecycle /\ r.operation \in Operation
       /\ r.kind = "idle" => r.prefix = Len(log) /\ FencedBefore(r)

\* The fence that the process knows of, and the first idle marker behind it
FenceIsLogged ==
  /\ state.fence # 0 =>
       /\ state.fence \in Positions
       /\ log[state.fence].kind \in {"fence", "idle"}
       /\ log[state.fence].operation = state.operation
  /\ state.retained # 0 =>
       /\ state.retained \in Positions
       /\ log[state.retained].kind = "idle"
       /\ log[state.retained].operation = state.operation

Sound ==
  /\ TypeOK /\ LockIsHeld /\ StateIsRead /\ CallsNameOperations /\ NoneIsCounted
  /\ MarkersAreSound /\ FenceIsLogged /\ WorkIsCounted /\ ReceiptIsExact /\ IdleFollowsFence

\* The rest is for stores that settle before they are read.  A process that has
\* read the log has no idle marker and no release pending, and refuses turns
\* while a handoff is open or may yet become so.
ReadMeansRefusing ==
  state.hydrated = "yes" =>
    /\ \A i \in Positions : IsLast(i, Positions) /\ log[i].kind # "release" => Draining(state)
    /\ \A r \in late : r.kind = "fence" /\ Draining(state)

\* An idle marker that may yet be committed finds no work either.
LateIdleMeansNoWork == (\E r \in late : r.kind = "idle") => WorkingTasks = {}

\* So it is for the idle marker that the process retains, whatever is committed
\* late, and for the idle marker that a late release names.
ReleasesAreOwn ==
  /\ state.retained # 0 =>
       /\ Retains(state.retained, state.operation, Len(log) + 1)
       /\ \A r \in late : r.kind = "release" => r.operation = state.operation
  /\ \A r \in late :
       r.kind = "release" /\ r.expected # 0 => Retains(r.expected, r.operation, Len(log) + 1)

Settled ==
  /\ ReadMeansRefusing /\ LateIdleMeansNoWork /\ ReleasesAreOwn
  /\ IdleMeansNoWork /\ ReleaseMatchesIdle

IInv == Sound /\ (Settles => Settled)

=============================================================================
