---------------------------- MODULE PodMigration ----------------------------
(***************************************************************************)
(* Moving an owner's agent to another host: the sequence of run_migration   *)
(* with its recovery (services/pod_migration_service.py,                    *)
(* pod_migration_recovery.py), its ticket, the registry's freeze, and what  *)
(* the two pods do when the steps of pod_migration_live_steps.py reach them *)
(* (api/routes/one/pod_migration.py).                                       *)
(*                                                                         *)
(* A record names the host that wrote it and its place there, so equal logs *)
(* have equal head hashes and logs that were written apart do not.  The     *)
(* pod's admission is what UpgradeAdmission shows of it: one operation      *)
(* holds the pod, or none, and its receipt waits for the turns under way.   *)
(*                                                                         *)
(* A request that is not answered may have been carried out, may be later,  *)
(* or never; a worker may die at any step, and nobody goes on with its job. *)
(***************************************************************************)
EXTENDS Naturals, Sequences

CONSTANTS
  Job,               \* moves of the owner's agent; each has an operation of its own
  NoJob,
  Host,              \* places a pod of the owner can run
  First,             \* the one that serves it at the beginning
  NoHost,
  RefusalIsAnswered, \* the ticket's write of a refused comparison is answered
  MaxLen             \* bound of the model: records of a log that its own pod adds to

ASSUME JobAssumption == NoJob \notin Job
ASSUME HostAssumption == First \in Host /\ NoHost \notin Host
ASSUME RefusalAssumption == RefusalIsAnswered \in BOOLEAN
ASSUME MaxLenAssumption == MaxLen \in Nat

VARIABLES
  ticket,    \* the owner's row of pod_migration_jobs
  registry,  \* status and host of the owner's row of the registry
  rotation,  \* where the sweep that records a rotated pod key stands
  up,        \* hosts with a running pod
  gate,      \* each pod's admission: the operation that holds it, the one it released
  log,       \* each host's log
  imports,   \* jobs whose import a pod is carrying out
  late,      \* requests of jobs that were given up and may still arrive
  turn,      \* a turn of the owner: relayed to a host, or admitted there
  acked,     \* records of turns that were answered
  pc,        \* where each job's worker stands
  move       \* what each worker knows, and how far its import has come

hub == <<ticket, registry, rotation>>
pods == <<up, gate, log, imports, late, turn, acked>>
workers == <<pc, move>>
vars == <<hub, pods, workers>>

-----------------------------------------------------------------------------
(* Data *)

Record == [at : Host, n : Nat \ {0}]

Startable == {"none", "failed", "succeeded"}

\* What run_migration leaves on a ticket; *_unknown are the failed tickets whose
\* error code asks for reconciliation.
Verdict == {"failed", "succeeded", "freeze_unknown", "switch_unknown",
            "recovery_pending", "cleanup_pending"}

RegistryStatus == {"provisioned", "migrating", "connecting", "provisioning_failed"}

Ticket == [job : Job \cup {NoJob}, status : Verdict \cup {"none", "running"}]

NoTicket == [job |-> NoJob, status |-> "none"]

OpenGate == [holder |-> NoJob, released |-> NoJob]

NoTurn == [host |-> NoHost, admitted |-> FALSE]

Steps == {"read", "claim", "freeze", "drain", "await", "build", "export", "import",
          "wait", "verify", "switch", "reap", "release", "unfreeze", "teardown", "finish"}

Move == [src : Host, dst : Host, read : Ticket, head : Seq(Record), done : Nat,
         rebuilt : Seq(Record), verdict : Verdict, refused : BOOLEAN]

NoMove == [src |-> First, dst |-> First, read |-> NoTicket, head |-> <<>>, done |-> 0,
           rebuilt |-> <<>>, verdict |-> "failed", refused |-> FALSE]

NextRecord(h) == [at |-> h, n |-> Len(log[h]) + 1]

Init ==
  /\ ticket = NoTicket
  /\ registry = [status |-> "provisioned", host |-> First]
  /\ rotation = "none"
  /\ up = {First}
  /\ gate = [h \in Host |-> OpenGate]
  /\ log = [h \in Host |-> <<>>]
  /\ imports = {} /\ late = {} /\ turn = NoTurn /\ acked = {}
  /\ pc = [w \in Job |-> "idle"]
  /\ move = [w \in Job |-> NoMove]

-----------------------------------------------------------------------------
(* The owner, the pods and the sweeps *)

\* The relay reads the registry and sends a turn on; a migrating row is refused.
Relay ==
  /\ turn = NoTurn
  /\ registry.status # "migrating"
  /\ turn' = [host |-> registry.host, admitted |-> FALSE]
  /\ UNCHANGED <<hub, up, gate, log, imports, late, acked, workers>>

\* The pod admits the turn, or it is refused or gone.
Admit ==
  /\ turn # NoTurn /\ ~turn.admitted
  /\ turn' = IF turn.host \in up /\ gate[turn.host].holder = NoJob
             THEN [turn EXCEPT !.admitted = TRUE] ELSE NoTurn
  /\ UNCHANGED <<hub, up, gate, log, imports, late, acked, workers>>

\* The turn appends its record and is answered.
Answer ==
  /\ turn.admitted /\ Len(log[turn.host]) < MaxLen
  /\ log' = [log EXCEPT ![turn.host] = Append(@, NextRecord(turn.host))]
  /\ acked' = acked \cup {NextRecord(turn.host)}
  /\ turn' = NoTurn
  /\ UNCHANGED <<hub, up, gate, imports, late, workers>>

\* A turn may also end without a record.
EndTurn ==
  /\ turn.admitted /\ turn' = NoTurn
  /\ UNCHANGED <<hub, up, gate, log, imports, late, acked, workers>>

\* A pod that does not serve yet writes a record of its own, such as a lease.
OwnRecord(h) ==
  /\ h \in up /\ h # registry.host
  /\ gate[h].holder = NoJob /\ Len(log[h]) < MaxLen
  /\ log' = [log EXCEPT ![h] = Append(@, NextRecord(h))]
  /\ UNCHANGED <<hub, up, gate, imports, late, turn, acked, workers>>

\* The reconcile sweep pulls the key of a pod whose row it has read as
\* provisioned or connecting.
PullKey ==
  /\ rotation = "none" /\ registry.status \in {"provisioned", "connecting"}
  /\ rotation' = "pulled"
  /\ UNCHANGED <<ticket, registry, pods, workers>>

\* It reads the row again.  A rotated key of a row that is provisioned leaves it
\* so; one of any other row is attached as if the pod were new.
AttachKey ==
  /\ rotation = "pulled"
  /\ rotation' = IF registry.status = "provisioned" THEN "rotating" ELSE "attaching"
  /\ UNCHANGED <<ticket, registry, pods, workers>>

RecordKey ==
  \E status \in RegistryStatus, next \in {"none", "granting"} :
    /\ <<rotation, status, next>> \in
         {<<"rotating", "provisioned", "none">>, <<"attaching", "connecting", "granting">>,
          <<"granting", "provisioned", "none">>,
          <<"attaching", "provisioning_failed", "none">>,
          <<"granting", "provisioning_failed", "none">>}
    /\ registry' = [registry EXCEPT !.status = status] /\ rotation' = next
    /\ UNCHANGED <<ticket, pods, workers>>

\* The key has not changed, or the sweep fails.
LeaveKey ==
  /\ rotation # "none" /\ rotation' = "none"
  /\ UNCHANGED <<ticket, registry, pods, workers>>

-----------------------------------------------------------------------------
(* What the pods make of the requests of a job *)

Prepared(h, w) ==
  /\ h \in up /\ gate[h].holder \in {NoJob, w}
  /\ gate' = [gate EXCEPT ![h] = [holder |-> w, released |-> NoJob]]

Released(h, w) ==
  /\ h \in up
  /\ \/ gate[h].holder = w /\ ~(turn.admitted /\ turn.host = h)
        /\ gate' = [gate EXCEPT ![h] = [holder |-> NoJob, released |-> w]]
     \/ gate[h] = [holder |-> NoJob, released |-> w]
        /\ UNCHANGED gate

ArriveLate ==
  \E m \in late :
    /\ late' = late \ {m}
    /\ \/ m.do = "prepare" /\ Prepared(move[m.job].src, m.job)
       \/ m.do = "release" /\ Released(move[m.job].src, m.job)
    /\ UNCHANGED <<hub, up, log, imports, turn, acked, workers>>

\* A host is deleted: its pod, and whatever that was doing, is gone; the log
\* stays where it is.  A pod that is built there later is another incarnation.
TakeDown(h) ==
  /\ up' = up \ {h}
  /\ gate' = [gate EXCEPT ![h] = OpenGate]
  /\ imports' = {w \in imports : move[w].dst # h}
  /\ late' = {m \in late : move[m.job].src # h}
  /\ turn' = IF turn.host = h THEN NoTurn ELSE turn
  /\ UNCHANGED <<log, acked>>

\* The rebuild: each record goes through the ordinary append.
ImportRecord(w) ==
  /\ w \in imports /\ move[w].done < Len(move[w].head)
  /\ LET h == move[w].dst
         grown == Append(log[h], move[w].head[move[w].done + 1])
     IN  /\ log' = [log EXCEPT ![h] = grown]
         /\ move' = [move EXCEPT ![w].done = move[w].done + 1, ![w].rebuilt = grown]
  /\ UNCHANGED <<hub, up, gate, imports, late, turn, acked, pc>>

\* An append of the rebuild fails.
ImportBreaks(w) ==
  /\ w \in imports /\ imports' = imports \ {w}
  /\ pc' = [pc EXCEPT ![w] = IF @ = "wait" THEN "release" ELSE @]
  /\ UNCHANGED <<hub, up, gate, log, late, turn, acked, move>>

-----------------------------------------------------------------------------
(* The ticket and the freeze *)

Goes(w, step) == pc' = [pc EXCEPT ![w] = step]

\* The outcome is decided; it remains to write it on the ticket.
Ends(w, verdict) ==
  /\ Goes(w, "finish")
  /\ move' = [move EXCEPT ![w].verdict = verdict]

\* A move is asked for: its caller takes the source from the registry.
Ask(w) ==
  /\ pc[w] = "idle" /\ Goes(w, "read")
  /\ \E h \in Host \ {registry.host} :
       move' = [move EXCEPT ![w].src = registry.host, ![w].dst = h]
  /\ UNCHANGED <<hub, pods>>

\* start reads the ticket, and refuses one that is running or not reconciled.
ReadTicket(w) ==
  /\ pc[w] = "read"
  /\ IF ticket.status \in Startable
     THEN Goes(w, "claim") /\ move' = [move EXCEPT ![w].read = ticket]
     ELSE Goes(w, "done") /\ UNCHANGED move
  /\ UNCHANGED <<hub, pods>>

\* Mutation: the ticket is written without a comparison.
ClaimBlindly(w) ==
  /\ pc[w] = "claim" /\ Goes(w, "freeze")
  /\ ticket' = [job |-> w, status |-> "running"]
  /\ UNCHANGED <<registry, rotation, pods, move>>

\* It writes the ticket only over the one it has read.
Claim(w) ==
  /\ pc[w] = "claim"
  /\ IF ticket = move[w].read
     THEN Goes(w, "freeze") /\ ticket' = [job |-> w, status |-> "running"]
     ELSE Goes(w, "done") /\ UNCHANGED ticket
  /\ UNCHANGED <<registry, rotation, pods, move>>

Migrating == [registry EXCEPT !.status = "migrating"]

Freeze(w) ==
  /\ pc[w] = "freeze" /\ registry.status = "provisioned"
  /\ registry' = Migrating /\ Goes(w, "drain")
  /\ UNCHANGED <<ticket, rotation, pods, move>>

\* The row is not one that can be moved.
FreezeRefused(w) ==
  /\ pc[w] = "freeze" /\ registry.status # "provisioned"
  /\ Ends(w, "failed")
  /\ UNCHANGED <<hub, pods>>

FreezeUnanswered(w) ==
  /\ pc[w] = "freeze"
  /\ \/ UNCHANGED registry
     \/ registry.status = "provisioned" /\ registry' = Migrating
  /\ Ends(w, "freeze_unknown")
  /\ UNCHANGED <<ticket, rotation, pods>>

\* prepare_and_wait: the source is fenced, and then shows that no turn is left.
Drain(w) ==
  /\ pc[w] = "drain" /\ Prepared(move[w].src, w) /\ Goes(w, "await")
  /\ UNCHANGED <<hub, up, log, imports, late, turn, acked, move>>

\* Mutation: the receipt does not wait for the turns under way.
DrainedAtOnce(w) ==
  /\ pc[w] = "await" /\ gate[move[w].src].holder = w /\ Goes(w, "build")
  /\ UNCHANGED <<hub, pods, move>>

Drained(w) ==
  /\ pc[w] = "await"
  /\ move[w].src \in up /\ gate[move[w].src].holder = w
  /\ ~(turn.admitted /\ turn.host = move[w].src)
  /\ Goes(w, "build")
  /\ UNCHANGED <<hub, pods, move>>

DrainUnconfirmed(w) ==
  /\ pc[w] \in {"drain", "await"}
  /\ \/ UNCHANGED late
     \/ pc[w] = "drain" /\ late' = late \cup {[do |-> "prepare", job |-> w]}
  /\ Ends(w, "freeze_unknown")
  /\ UNCHANGED <<hub, up, gate, log, imports, turn, acked>>

-----------------------------------------------------------------------------
(* The move *)

\* The destination's pod is built, if it does not run already, over the log that
\* an earlier one left there or over none.
Built(h) ==
  /\ up' = up \cup {h}
  /\ \/ UNCHANGED log
     \/ h \notin up /\ log' = [log EXCEPT ![h] = <<>>]

Build(w) ==
  /\ pc[w] = "build" /\ Built(move[w].dst) /\ Goes(w, "export")
  /\ UNCHANGED <<hub, gate, imports, late, turn, acked, move>>

\* The source seals its log, unless that is empty.
Export(w) ==
  /\ pc[w] = "export" /\ move[w].src \in up /\ log[move[w].src] # <<>>
  /\ move' = [move EXCEPT ![w].head = log[move[w].src]]
  /\ Goes(w, "import")
  /\ UNCHANGED <<hub, pods>>

\* The destination takes the bundle if its log is empty.
Import(w) ==
  /\ pc[w] = "import" /\ move[w].dst \in up /\ log[move[w].dst] = <<>>
  /\ imports' = imports \cup {w} /\ Goes(w, "wait")
  /\ UNCHANGED <<hub, up, gate, log, late, turn, acked, move>>

ImportDone(w) ==
  /\ w \in imports /\ move[w].done = Len(move[w].head)
  /\ imports' = imports \ {w}
  /\ pc' = [pc EXCEPT ![w] = IF @ = "wait" THEN "verify" ELSE @]
  /\ UNCHANGED <<hub, up, gate, log, late, turn, acked, move>>

Recovers(w, refused) ==
  /\ Goes(w, "release")
  /\ move' = [move EXCEPT ![w].verdict = "failed", ![w].refused = refused]

\* A step before the comparison fails, or is given up: a destination may have
\* been built, an import may go on.
StepFails(w) ==
  /\ pc[w] \in {"build", "export", "import", "wait", "verify"}
  /\ \/ UNCHANGED <<up, log>>
     \/ pc[w] = "build" /\ Built(move[w].dst)
  /\ Recovers(w, FALSE)
  /\ UNCHANGED <<hub, gate, imports, late, turn, acked>>

\* verify_rebuilt_head: the two heads are compared.
Verify(w) ==
  /\ pc[w] = "verify"
  /\ IF move[w].head = move[w].rebuilt
     THEN Goes(w, "switch") /\ UNCHANGED move
     ELSE Recovers(w, TRUE)
  /\ UNCHANGED <<hub, pods>>

Routed(w) == registry' = [status |-> "provisioned", host |-> move[w].dst]

Switch(w) ==
  /\ pc[w] = "switch" /\ Routed(w) /\ Goes(w, "reap")
  /\ UNCHANGED <<ticket, rotation, pods, move>>

\* Mutation: a switch without an answer is rolled back.
SwitchRolledBack(w) ==
  /\ pc[w] = "switch"
  /\ UNCHANGED registry \/ Routed(w)
  /\ Goes(w, "release") /\ move' = [move EXCEPT ![w].verdict = "switch_unknown"]
  /\ UNCHANGED <<ticket, rotation, pods>>

SwitchUnanswered(w) ==
  /\ pc[w] = "switch"
  /\ UNCHANGED registry \/ Routed(w)
  /\ Ends(w, "switch_unknown")
  /\ UNCHANGED <<ticket, rotation, pods>>

Reap(w) ==
  /\ pc[w] = "reap" /\ TakeDown(move[w].src) /\ Ends(w, "succeeded")
  /\ UNCHANGED hub

ReapUnconfirmed(w) ==
  /\ pc[w] = "reap"
  /\ TakeDown(move[w].src) \/ UNCHANGED pods
  /\ Ends(w, "cleanup_pending")
  /\ UNCHANGED hub

-----------------------------------------------------------------------------
(* Recovery: the source is opened, the registry released, the destination torn
   down; a step that fails leaves the ticket pending. *)

\* Mutation: a step of the recovery that fails is forgotten.
OwesNothing(w, step) == Goes(w, step) /\ UNCHANGED move

Owes(w, step) ==
  /\ Goes(w, step)
  /\ move' = [move EXCEPT ![w].verdict = "recovery_pending"]

Release(w) ==
  /\ pc[w] = "release" /\ Released(move[w].src, w) /\ Goes(w, "unfreeze")
  /\ UNCHANGED <<hub, up, log, imports, late, turn, acked, move>>

ReleaseUnconfirmed(w) ==
  /\ pc[w] = "release"
  /\ UNCHANGED late \/ late' = late \cup {[do |-> "release", job |-> w]}
  /\ Owes(w, "teardown")
  /\ UNCHANGED <<hub, up, gate, log, imports, turn, acked>>

Provisioned == [registry EXCEPT !.status = "provisioned"]

Unfreeze(w) ==
  /\ pc[w] = "unfreeze" /\ registry.status = "migrating"
  /\ registry' = Provisioned /\ Goes(w, "teardown")
  /\ UNCHANGED <<ticket, rotation, pods, move>>

\* The row is not migrating any more, or the update is not answered.
UnfreezeUnconfirmed(w) ==
  /\ pc[w] = "unfreeze"
  /\ \/ UNCHANGED registry
     \/ registry.status = "migrating" /\ registry' = Provisioned
  /\ Owes(w, "teardown")
  /\ UNCHANGED <<ticket, rotation, pods>>

Teardown(w) ==
  /\ pc[w] = "teardown" /\ TakeDown(move[w].dst) /\ Goes(w, "finish")
  /\ UNCHANGED <<hub, move>>

TeardownUnconfirmed(w) ==
  /\ pc[w] = "teardown"
  /\ TakeDown(move[w].dst) \/ UNCHANGED pods
  /\ Owes(w, "finish")
  /\ UNCHANGED hub

\* finish writes the outcome where the ticket still is the job's own.
Written(w) ==
  ticket' = IF ticket.job = w THEN [ticket EXCEPT !.status = move[w].verdict] ELSE ticket

Finish(w) ==
  /\ pc[w] = "finish" /\ Written(w) /\ Goes(w, "done")
  /\ UNCHANGED <<registry, rotation, pods, move>>

\* The write is not answered.  A refused comparison is written inside the handler
\* that recovers from every exception, so this one starts a second recovery.
FinishUnanswered(w) ==
  /\ pc[w] = "finish" /\ ticket.job = w
  /\ \/ UNCHANGED ticket
     \/ (move[w].refused => ~RefusalIsAnswered) /\ Written(w)
  /\ IF move[w].refused
     THEN Recovers(w, FALSE)
     ELSE Goes(w, "done") /\ UNCHANGED move
  /\ UNCHANGED <<registry, rotation, pods>>

\* The worker dies, or an exception ends it; what it has sent goes on.
Die(w) ==
  /\ pc[w] \in Steps /\ Goes(w, "done")
  /\ UNCHANGED <<hub, pods, move>>

Step(w) ==
  \/ Ask(w) \/ ReadTicket(w) \/ Claim(w)
  \/ Freeze(w) \/ FreezeRefused(w) \/ FreezeUnanswered(w)
  \/ Drain(w) \/ Drained(w) \/ DrainUnconfirmed(w)
  \/ Build(w) \/ Export(w) \/ Import(w) \/ StepFails(w) \/ Verify(w)
  \/ Switch(w) \/ SwitchUnanswered(w) \/ Reap(w) \/ ReapUnconfirmed(w)
  \/ Release(w) \/ ReleaseUnconfirmed(w) \/ Unfreeze(w) \/ UnfreezeUnconfirmed(w)
  \/ Teardown(w) \/ TeardownUnconfirmed(w) \/ Finish(w) \/ FinishUnanswered(w)
  \/ Die(w)

Environment ==
  \/ Relay \/ Admit \/ Answer \/ EndTurn \/ \E h \in Host : OwnRecord(h)
  \/ PullKey \/ AttachKey \/ RecordKey \/ LeaveKey \/ ArriveLate
  \/ \E w \in Job : ImportRecord(w) \/ ImportDone(w) \/ ImportBreaks(w)

Next == Environment \/ \E w \in Job : Step(w)

Spec == Init /\ [][Next]_vars

-----------------------------------------------------------------------------
(* Correctness *)

\* Every variable has its type.
TypeOK ==
  /\ ticket \in Ticket
  /\ registry \in [status : RegistryStatus, host : Host]
  /\ rotation \in {"none", "pulled", "rotating", "attaching", "granting"}
  /\ up \subseteq Host
  /\ gate \in [Host -> [holder : Job \cup {NoJob}, released : Job \cup {NoJob}]]
  /\ log \in [Host -> Seq(Record)]
  /\ imports \subseteq Job
  /\ late \subseteq [do : {"prepare", "release"}, job : Job]
  /\ turn \in [host : Host \cup {NoHost}, admitted : BOOLEAN]
  /\ acked \subseteq Record
  /\ pc \in [Job -> Steps \cup {"idle", "done"}]
  /\ move \in [Job -> Move]

Records(s) == {s[i] : i \in DOMAIN s}

\* Nothing an owner was answered is lost: the host that the registry routes to
\* has a pod, and its log holds the record of every turn that was answered,
\* whatever requests were lost or late and wherever workers died, as long
\* as the ticket's write of a refused comparison is answered (RefusalIsAnswered;
\* "The order is the safety argument", pod_migration_service.py).
MemoryIsServed ==
  /\ registry.host \in up
  /\ acked \subseteq Records(log[registry.host])

\* A move that is reported as failed did not happen: the source serves, nobody
\* holds it, the registry is not frozen and no destination is left over; whatever
\* cannot be confirmed is reported as something else.
FailedMeansRestored ==
  ticket.status = "failed" =>
    /\ registry.status # "migrating"
    /\ \A h \in up : h = registry.host /\ gate[h].holder = NoJob

\* While the outcome of a switch is unknown both hosts are kept, and the source
\* stays closed.
UnknownSwitchKeepsBoth ==
  ticket.status = "switch_unknown" =>
    LET m == move[ticket.job]
    IN  {m.src, m.dst} \subseteq up /\ gate[m.src].holder = ticket.job

\* Of two moves that are asked for at once at most one does anything.
Working(w) == pc[w] \in Steps \ {"read", "claim"}

OneWorker == \A v, w \in Job : Working(v) /\ Working(w) => v = w

\* pod-migration.md, line 82: a superseded worker stops and does "not release
\* another operation's fence or tear down its destination"; nor does it unfreeze
\* the registry (end_migration).
SupersededStops ==
  [][\A w \in Job : ticket.job # w /\ Step(w) => UNCHANGED <<registry, gate, up>>]_vars

-----------------------------------------------------------------------------
(* The inductive invariant *)

\* What one worker can rely on: the ticket names it and says that it runs.
Alone ==
  \A w \in Job : Working(w) => ticket = [job |-> w, status |-> "running"]

Early == {"idle", "read", "claim", "freeze", "drain", "await", "build", "export", "import"}

Recovering == {"release", "unfreeze", "teardown"}

\* What each worker, dead or alive, has done so far.
SoFar(w) ==
  /\ pc[w] # "idle" => move[w].src # move[w].dst
  /\ pc[w] = "claim" => move[w].read.status \in Startable
  /\ pc[w] \in Early => move[w].rebuilt = <<>>
  /\ pc[w] \in Early \cup {"verify", "switch"} => w \notin imports
  /\ pc[w] \in Early \cup {"wait", "verify", "switch", "reap"} =>
       move[w].verdict = "failed" /\ ~move[w].refused

\* One pod runs, and takes turns.
Serving == up = {registry.host} /\ gate[registry.host].holder = NoJob

Quiet == Serving /\ registry.status # "migrating"

Fenced(w) == move[w].src = registry.host /\ gate[move[w].src].holder = w

BothUp(w) == up = {move[w].src, move[w].dst} /\ gate[move[w].dst].holder = NoJob

\* Where recovery starts from, the second time too.
Recoverable(w) ==
  /\ move[w].src = registry.host /\ move[w].src \in up
  /\ up \subseteq {move[w].src, move[w].dst}
  /\ gate[move[w].src].holder \in {w, NoJob}
  /\ gate[move[w].dst].holder = NoJob
  /\ move[w].verdict \in {"failed", "recovery_pending"}

\* Both hosts are kept while it is not known which one serves.
Kept(w) ==
  /\ {move[w].src, move[w].dst} \subseteq up
  /\ gate[move[w].src].holder = w
  /\ [do |-> "release", job |-> w] \notin late

Standing(w) ==
  /\ pc[w] = "freeze" => Quiet
  /\ pc[w] = "drain" => Serving
  /\ pc[w] \in {"await", "build"} => up = {registry.host} /\ Fenced(w)
  /\ pc[w] \in {"export", "import", "wait", "verify", "switch"} => BothUp(w) /\ Fenced(w)
  /\ pc[w] \in {"build", "export", "import", "wait", "verify", "switch"} => ~turn.admitted
  /\ pc[w] \in {"import", "wait", "verify", "switch"} => acked \subseteq Records(move[w].head)
  /\ pc[w] \in {"wait", "verify", "switch"} =>
       Records(move[w].rebuilt) \subseteq Records(log[move[w].dst])
  /\ pc[w] = "switch" => move[w].head = move[w].rebuilt
  /\ pc[w] = "reap" =>
       /\ BothUp(w) /\ move[w].dst = registry.host
       /\ gate[move[w].src].holder = w /\ registry.status # "migrating"
  /\ pc[w] \in Recovering \/ (pc[w] = "finish" /\ move[w].refused) => Recoverable(w)
  /\ pc[w] = "unfreeze" => gate[move[w].src].holder = NoJob
  /\ pc[w] = "teardown" /\ move[w].verdict = "failed" =>
       gate[move[w].src].holder = NoJob /\ registry.status # "migrating"
  /\ pc[w] = "finish" /\ move[w].verdict \in {"failed", "succeeded"} => Quiet
  /\ pc[w] = "finish" /\ move[w].verdict = "switch_unknown" => Kept(w)

\* A pod that is built finds its admission open.
GatesAreFresh == \A h \in Host \ up : gate[h].holder = NoJob

\* The late requests of a job are of one that was given up.
LateOf(w) ==
  /\ [do |-> "prepare", job |-> w] \in late =>
       /\ ticket.job = w /\ ticket.status \in {"running", "freeze_unknown"}
       /\ \/ pc[w] = "done"
          \/ pc[w] = "finish" /\ move[w].verdict = "freeze_unknown" /\ ~move[w].refused
  /\ [do |-> "release", job |-> w] \in late =>
       \/ pc[w] \in Recovering \cup {"done"}
       \/ pc[w] = "finish" /\ move[w].verdict \in {"failed", "recovery_pending"}

\* What the ticket of a move that has ended stands for.
TicketIsTrue ==
  /\ ticket.status # "none" => ticket.job \in Job
  /\ ticket.status \in Startable => Quiet
  /\ ticket.status = "switch_unknown" => pc[ticket.job] = "done" /\ Kept(ticket.job)

\* A turn that was relayed before a switch finds the old pod closed.
ShutOut ==
  LET v == ticket.job
  IN  /\ v \in Job /\ turn.host = move[v].src /\ gate[turn.host].holder = v
      /\ ticket.status \in {"running", "switch_unknown", "cleanup_pending"}
      /\ \/ pc[v] \in {"reap", "done"}
         \/ pc[v] = "finish" /\ ~move[v].refused
              /\ move[v].verdict \in {"switch_unknown", "cleanup_pending"}
      /\ [do |-> "release", job |-> v] \notin late

TurnIsServed ==
  /\ turn # NoTurn => turn.host \in up
  /\ turn.admitted => turn.host = registry.host
  /\ turn # NoTurn /\ turn.host # registry.host => ShutOut

IInv ==
  /\ TypeOK /\ Alone
  /\ \A w \in Job : SoFar(w) /\ Standing(w) /\ LateOf(w)
  /\ GatesAreFresh /\ TicketIsTrue
  /\ TurnIsServed /\ MemoryIsServed

=============================================================================
