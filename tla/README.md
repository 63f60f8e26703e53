# Verification of the private agent pod

TLA+ models, model-checking runs and machine-checked proofs for the durable core
of this repository: the *pod*, one owner's private agent, and the protocols by
which it keeps, moves and erases that owner's state.

## 1. Inventory

The repository is a monorepo: `consent-protocol/` (the FastAPI backend, the pod
process and everything they persist), `hushh-webapp/` (Next.js and Capacitor
clients), and packages, scripts, deployment and documents.  The logic that is
hard to get right is in `consent-protocol/hushh_mcp/services/`.  A pod runs
where its owner chooses, on a platform whose local disk is ephemeral; its truth
is an encrypted, hash-chained log in object storage, and everything else it has
(the working database, projections, leases, roles, receipts) is rebuilt from it.

| component | state | operations | interacts with | hard behaviour | correct when |
|---|---|---|---|---|---|
| **Commit log** `pod_commit_log.py`, `pod_log_replay.py`, `pod_log_inventory.py`, `pod_object_version.py` | `head.json` with its generation; sealed record objects; cursors in readers' memory | `append`, `replay`, `replay_since`, `fold_since`, `fence_for_erasure`, `fenced_record_keys` | the object store, by requests that may stay unanswered; every component below, by calls | racing writers, retries, late writes, crashes, a provider that forgets | it is an append-only log that a fence closes for good |
| **Local object store** (`LocalObjectStore`) | file pairs (content, `.gen`), redo journal, lock file | `get*`, `put`, `put_if_generation`, `delete` | the log; other processes on the same disk | a crash between any two file operations | it is an atomic compare-and-swap store |
| **Writer lease** `pod_runtime_writer.py` | lease records in the log; epoch, expiry and position in memory | `refresh`, `claim`, `append`, `hold`, `release`, heartbeat | the log (`expected_seq`), wall clocks | clocks that differ, restarts, a holder that is slow | no record of a runtime lies at a position where another owns the lease |
| **Upgrade admission and handoff** `pod_upgrade_admission.py`, `pod_runtime_work.py`, `pod_upgrade_handoff.py` | permits, drain flag, idle receipts | admit, drain, confirm idle, hand off | turns of the agent, the deployer | a turn admitted while draining | no work runs when the pod reports idle |
| **Pod role** `pod_role.py`, `pod_role_log.py`, `pod_role_guard.py` | a role object per pod (role, epoch, pinned key) with its version; a cache of it for 30 s in each process | set role, read role, append by role | orders of the hub; every append and every request of the pod | orders that are late or repeated, caches that outlive them | one pod at most is the primary of an epoch |
| **Standby sync** `pod_standby_sync*.py`, `pod_sync_*.py`, `personal_agent_standby_*.py` | the hub's placement and standby rows (epoch, lease, progress); the logs of two pods | claim, compare heads, export, import, record; add, remove and promote a standby | two pods and the hub, by signed HTTP requests | leases that expire under a slow transfer, imports that outlive their attempt, promotions in between | histories are never joined, and what is recorded as synced is in both logs |
| **Placement fence** `pod_placement_fence.py`, `personal_agent_standby_guard.py` | none | one read-only decision per request | the hub's rows | none of its own | not modelled |
| **Migration** `pod_migration_*.py` | a ticket per owner; the status and host of the registry's row; the two pods' logs and admissions | start, freeze, drain, build, export, import, verify, switch, reap, recover | the registry and its sweeps, the pods, the relay of turns, two clouds | answers that are lost, late requests, workers that die, a second move | the routed pod runs and has every answered record, and a failed move did not happen |
| **Authority and projection** `pod_authority_store.py`, `pod_session_authority.py`, `pod_recovery_projection.py` | projections and their cursor; sessions | refresh, issue, revoke | the log | a projection older than a revocation | what is served was committed, what is revoked is not served |
| **Cryptographic erasure** `pod_crypto_erase.py` | erase attempts, receipts | fence, list, delete, confirm | the log, key stores | an eraser that dies half-way | after the receipt nothing is readable, and no other attempt interferes |
| **Consent** `consent/token.py`, `consent_db.py`, `revocation_worker.py`, ... | tokens, requests, audit rows in SQL | issue, admit, revoke, expire | SQL, listeners | revocation racing a use | a revoked token admits nothing |
| **Wallet, schedules, deliveries, vault** | rows and leases in SQL or in the log | see the modules | SQL | duplicate delivery, two workers | each effect happens once |
| **Agents, voice, HTTP, clients, deployment** | none that is shared and durable | | | | not modelled: prompts, I/O and user interface |

Every row is a component of `PROJECT.json`, some of them split further.  The
hazards are listed there at the line where they bite, with the properties that
would catch them going wrong; a hazard without a property has a note that says
why.

## 2. Plan

In order of importance; each stage composes the ones before it or stands on what
they promise.

1. `AppendLog` (what the log promises), `PodCommitLog` (the log over a
   compare-and-swap store), `PodCommitLogFaults` (the same over a store that
   forgets), `PodCommitLogProofs`, `PodCommitLogReadProofs`.  **Done.**
2. `CasStore` (an atomic versioned object) and `LocalObjectStore` (file pairs, a
   redo journal, crashes between any two file operations), shown to implement
   it; `LocalObjectStoreProofs`.  **Done.**
3. `RuntimeWriter`: leases as records of a log that behaves like `AppendLog`,
   several runtimes with clocks of their own, approved handoffs;
   `RuntimeWriterProofs`.  **Done.**
4. `UpgradeAdmission`: turn permits, drain hooks, fences, idle receipts and
   releases over restarts and lost answers; `AdmissionGate` (what that promises);
   `UpgradeAdmissionProofs`; `UpgradeHandoff`, the hub that drains, polls, holds
   and releases such a pod; `UpgradeHandoffProofs`.  **Done.**
5. `StandbySync`: roles, sync attempts, imports and promotions;
   `StandbySyncProofs`.  **Done.**
6. `PodMigration`: the moves of an owner's agent between hosts, with lost answers
   and workers that die; `PodMigrationProofs`.  **Done.**
7. `CryptoErase` and `RecoveryProjection` on top of `AppendLog`.  Not done:
   section 7.

## 3. Modules and how they correspond to the code

### AppendLog
The promise: a sequence of payloads that only grows at its end until one erasure
attempt closes it.

### PodCommitLog
One caller (`Proc`) is one coroutine that uses a `PodCommitLog` object, with its
own cursor; callers may live in one process or in several.  Each request to the
store is one step, so that other callers act between any two requests of a call:

| in the model | in the code |
|---|---|
| `head`, `gen` | `head.json` and its version token |
| `records` | the `records/...` objects, unsealed |
| `late` | a `put_if_generation` whose caller was cancelled or timed out and which the store may still apply |
| `pc`, `call`, `swap`, `tries`, `wrote` | where a call stands, its arguments, the head it read or is about to write, the loop counter, the record keys it has put |
| `view` | the `PodLogCursor` a caller keeps |
| `chain`, `acked`, `orphans`, `fencedFor`, `inventories` | nothing: histories that the properties read and no action does |
| `AppendRead` ... `AppendUnconfirmed` | the body of `append`, request by request, with every early exit |
| `FenceRead` ... `FenceContradicted` | `fence_for_erasure` |
| `ReplayRead` ... `ReplayPublish` | `replay`, `replay_since`, `fold_since`; `ReplayOpen` is what the store answers `require_open`, `ReplayPublish` the return to the caller, later |
| `InventoryRead` ... `InventoryWalk` | `fenced_record_keys` / `fold_fenced` |
| `LateSwap`, `Crash` | the environment |

Abstractions.  A hash is what it binds: the sequence of payloads up to the
record (SHA-256 without collisions).  It does not bind the predecessor's key, so
the walk is modelled on keys *and* hashes.  Sealing is left out: a record is
what was put or nothing.  A version token is a number that never recurs, which
is what GCS generations are.  A walk over immutable records (`replay_chain`) is
one step; the head requests around it are not.  An unanswered put of a *record*
is subsumed by `Crash` and the unanswered head write.  `late` forgets writes
whose generation has passed: they can only be refused, with nobody listening.
Owner identities are fixed (one log, one configured owner), and malformed heads
or fences, which every reader refuses, do not occur.  `ReplayLimit` stands for
both `max_records` and `max_bytes`.

### PodCommitLogFaults
Adds a provider that breaks its contract, once in a behaviour (`Intact`):
`Rollback` serves an earlier head again (also behind a fence), `LoseTail` loses
the newest record.  A record that disappears after a writer has checked it and
before that writer's swap (`PastItsChecks`) is left out: nothing on the writer's
side could see it.

### CasStore, LocalObjectStore
`CasStore` is the `ObjectStore` protocol class: a versioned object and a write
that wins against the version its caller expects.  `LocalObjectStore` has the
files:

| in the model | in the code |
|---|---|
| `content`, `genFile` | an object's content file and its `.gen` file |
| `journal` | `.pending-write.json` |
| `lock` | `flock` on `.lock`, which the operating system drops when its holder dies |
| `pc`, `call`, `resume` | where an operation stands, its arguments, where it goes on after it has redone a journal |
| `seen`, `acked` | nothing: histories of the versions that callers were given and of the writers that were told they won |
| `Lock` | `_lock`: take the lock, then `_recover_pending_write` |
| `RedoContent`, `RedoGeneration`, `RedoUnlink` | the three file operations of a redo, which a put performs too after `_commit_pair` has written its journal |
| `DeleteGeneration`, `DeleteContent` | the two unlinks of `delete` |

A step is one replacement or removal of a file, and a process may die before any
of them.  File operations are durable in the order in which they are issued.  A
file's bytes are a model value; the digests in the journal are equality of
contents.  `Kept` says for which objects versions are promised: the log never
deletes its head, and deletes records only when it is erased, so the histories
speak of the objects that nobody deletes.

### RuntimeWriter
Several runtimes, one process and one epoch each, share one log.  The log is at
the level of `AppendLog`, which `PodCommitLog` implements: an append against a
position commits there or conflicts; its answer may be lost, and then it may
still commit later (`late`).

| in the model | in the code |
|---|---|
| `log` | the committed records that a writer looks at: leases, the markers of a handoff, and all others (`data`) |
| `projected` | the lease and the handoff that `project` arrives at after each record |
| `lost`, `turns` | `RuntimeWriter.lost`, `.active` |
| `pc`, `call`, `write`, `tries` | where the holder of `RuntimeWriter.lock` stands, its arguments, the append it sends, the rounds of `append` it has used |
| `HeldOnce` | `held_once` as of the last refresh: a lease of one's own is in the log |
| `Read`, `Submitted`, `Conflicts`, `SubmitUnanswered`, `Settle` | the loop of `append` |
| `Ensure`, `EnsureRefused`, `EnsureClaims` | `ensure` up to its claim: one refresh and the checks behind it, which no await interrupts |
| `Claimed` ... `ClaimFails` | `claim`, with its reconciliation of a conflict, a lost answer or a cancellation |
| `Confirm` | the refresh after a claim (`ensure`, line 116) |
| `Granted` | what the caller of `ensure` does next: prepare its record, count a turn, or nothing |
| `BeginHold`, `BeginRenew`, `BeginPrepare`, `BeginAppend`, `Release` | `hold`, a beat of `heartbeat`, `prepare_idle_writer`, `append`, `release` |
| `CancelCall`, `ReadFails`, `Crash`, `CommitLate` | the environment |

What a refresh brings a runtime to depends on the log only, and not on where its
cursor was, so the cursor and the projection in memory are not kept: `Now` is
that projection.  `refresh` and the checks behind it are one step because the
event loop does not leave the coroutine in between.  Writes to the store run to
completion when their caller is cancelled (`run_write_to_completion`), so a
cancelled claim waits for its write and then ends.

Clocks are readings from a set, any reading at any time, on any runtime; only
the two readings of one turn of the event loop (the check in `ensure`, the issue
in `claim`) do not go back.  `ConfirmsInTime` is an assumption that can be set:
nobody finds a lease expired that its claimer has committed and not yet read
back.  The code does not enforce it; section 6 says what follows.

Callers: any record at any position or at the one the caller has read; the
markers of `PodUpgradeAdmission` as it asks for them, the idle marker at the
position it vouches for.  A malformed marker is refused in `Malformed`.

### UpgradeAdmission
One process serves one incarnation of a pod; it may die, and another one starts
that knows only what the log says.  The log is again at the level of `AppendLog`.

| in the model | in the code |
|---|---|
| `log`, `late` | the lifecycle markers and whatever else is appended; markers whose append was not answered |
| `state` | the `_State` of the incarnation: operation, active turns, fence, receipt, hooks |
| `hydrated` | `_hydrated`: the state was never read, must be read again, or is current |
| `lock`, `pc`, `call`, `cursor` | who has `_condition`, where each coroutine stands, its arguments, the cursor it read |
| `closing`, `closed` | nothing: histories of the drain hooks |
| `Restored` | `_restore_lifecycle`, as a fact about the markers |
| `Apply`, `Loop` | one turn of the loop of `_restore_lifecycle`, and that loop, with which `RestoredIsTheLoop` compares it |
| `Admit`, `EndTurn`, `Return`, `CancelReturn` | `acquire_turn`, `TurnPermit.release`, `release_turn`, and its cancellation |
| `Prepare`, `AppendFence`, `RunHooks`, `Hooks`, `Finish` | `prepare`: up to the fence, the hooks outside the condition, what follows them |
| `ReadCursor`, `AppendIdle` | `_persist_idle`, for whichever call finds the pod idle |
| `Wait`, `Awake`, `Timeout`, `Release`, `AppendRelease` | `wait_idle`, `release` |
| `AppendFails`, `LateCommit`, `OtherAppend`, `Restart` | the environment |

Records are named by their positions, since a cursor's hash binds its position.
A turn of the event loop between two awaits is one step; an append is two, so
that it may fail, be lost, or find another record in its place.  `Settles` says
that a write without an answer is applied before the log is next read or never.
The code relies on it (its answer to a lost release is to read the log again);
section 6 says what a store that does not settle would do.

### AdmissionGate
The promise: one operation at a time closes the gate, turns enter only while it is
open, and it is declared idle, or opens again, only while no turn is inside.
`UpgradeAdmission` implements it (`GateSpec`): the holder is the operation of the
markers that no release has answered, the gate is declared idle when the last
marker says so, and inside are the tasks that hold a permit.  `PodMigration` takes
the pods' gates at this level.

A declaration may close a gate that is open.  The code does so where a release
fails without an answer while the hooks of a prepare are running: the release is
committed after all, and before any call has read the log again the hooks end and
the prepare, whose second half does not read it, writes its idle marker behind the
release.  The pod is closed once more, for the operation that was released, and
still no turn is at work.

### UpgradeHandoff
The hub's side (`PodUpgradeHandoffClient`, and the part of `upgrade` in
`user_gcp_backend.py` around it) composed with the pod of `UpgradeAdmission`:
`phase` is where the sweep's attempt stands, `handler` the coroutine of the pod
that serves its request, `stray` the requests that were given up before they
arrived.  `Serve` takes the hub on when the step that answers it is taken; an
answer of any other kind is a failure, which the hub undoes by a release.

### StandbySync
| in the model | in the code |
|---|---|
| `log` | each pod's log: for every record, the pod that wrote it |
| `role` | its role object; a missing one is `PRIMARY_AT_ZERO` |
| `lingers` | a process of the pod whose cached primary role is out of date, or an append of it that is under way |
| `row` | the registry's row and the standby's row: epoch, the two placements, lease, progress |
| `placed` | nothing: the placements that the hub has had, and may have signed an order for |
| `sync[w]` | attempt `w` of `StandbySyncService`: what it has read so far |
| `import[w]` | the import that a pod carries out for it, which goes on when the attempt is given up |
| `AddStandby`, `RemoveStandby`, `Claim`, `Record`, `Swap` | one statement each of `personal_agent_standby_sql.py` |
| `Pair` ... `ReadAfter`, `Fails`, `Abandon` | `_transfer`, `_pair`, `_head`, `_ferry`, one request per step |
| `ReadRole`, `Open` | the role that `sync_head`, `sync_export` and `sync_import` read first; what they read then is a step of its own |
| `Export`, `Place`, `ImportRecord`, `ImportDone`, `ImportEnds` | the routes of `pod_sync.py`; an import appends one record per step |
| `SetRole`, `CacheExpires`, `Write` | `store_role`, `cached_role`, `RoleAwareCommitLog.append` |

A head's hash covers every record up to it, so a head is the log that ends
there, and two heads are equal when the logs are.  Signatures hold, and a pod is
named by its keys.  The lease may expire under an attempt at any time; the
cooldown and the sweep only choose when attempts start.  Nothing in the
repository sends role orders or calls the swap yet: they are modelled from the
endpoint, the store and the statement, with orders for any placement that the
hub has had, late or again; that a standby has its role before it is recorded
follows `docs/future/personal-agent/STANDBY-SYNC.md`.

### PodMigration
A move (`Job`) is one call of `start` and `run_migration`, by a worker of its
own, which may die anywhere.

| in the model | in the code |
|---|---|
| `ticket` | the owner's row of `pod_migration_jobs`: whose it is, and its status; `freeze_unknown` and `switch_unknown` are failed tickets with the error codes that `start` does not accept |
| `registry` | status and host of the owner's row |
| `rotation` | where the sweep stands that pulls a pod's key and records a rotated one (`collect_pod_key`, `attach_pod_public_key`) |
| `up`, `log`, `gate` | the hosts that have a pod, their logs, the operation that holds each pod's admission |
| `late`, `imports` | prepares and releases that were given up and may still arrive; imports that go on when their step has failed |
| `turn`, `acked` | a turn that the relay has sent to the host it read; the records that turns were answered with |
| `pc`, `move` | the place of each worker in `run_migration` or `recover`, and its locals |
| `ReadTicket`, `Claim`, `Finish` | the two statements of `start`, and `finish` |
| `Freeze` ... `DrainUnconfirmed` | `freeze`: the registry's update, the prepare, the wait for the receipt |
| `Build` ... `Verify`, `StepFails` | the `try` of `run_migration` up to the comparison |
| `Switch` ... `ReapUnconfirmed` | the switch and the clean-up |
| `Release` ... `TeardownUnconfirmed` | `recover`: `unfreeze` in its two halves, then `rollback_destination` |
| `FinishUnanswered` | the ticket's write of an outcome, whose answer is lost |

A pod's admission is what `UpgradeAdmission` shows of it: a fence holds until its
own operation releases it, and a receipt means that no turn is left.  A record is
named by the host that wrote it and by its place, so equal logs have equal heads
and logs that were written apart do not; counts are then equal too.  The clouds
are behind interfaces that the repository does not implement
(`DestinationProvisioner`, `switch_over`, `reap`): a destination is built over
the log that an earlier pod left there or over none, a switch sets the row's host
and `provisioned`, a deletion has happened or not by the time its call ends, and
takes the requests under way at that host with it.  A pod that is drained writes
nothing of its own; one that does not serve and is not drained may
(`OwnRecord`).  A receipt or a stage that cannot be written is `StepFails` inside
the `try` and `Die` outside it; of the sweeps that record keys one is under way at
a time, and only for rows without a provision attempt, whose writes are compared;
a stale ticket is only reported, so nobody goes
on with the job of a dead worker.  `RefusalIsAnswered` is an assumption that can
be set; section 6 says what follows where it fails.

### MC modules
`MCPodCommitLog`, `MCPodCommitLogCalls`, `MCPodCommitLogFaults`, `MCLocalObjectStore`,
`MCRuntimeWriter`, `MCUpgradeAdmission`, `MCUpgradeHandoff`, `MCStandbySync` and
`MCPodMigration` hold symmetry sets, a view that drops the histories no property
of the faults run reads, the operations that the two runtimes were deployed for,
the callers that replay in the fair run and the constraint of the writer's run.

Operators that begin with a comment `Mutation:` are not used by the
specification.  Each is a plausible defect of the operator that follows it; the
project's tables say which property it breaks.

## 4. Runs

| run | question | bounds |
|---|---|---|
| `log_races` | does the log implement `AppendLog`, is every answer of `append`, every replay and every inventory right, and does every step of a call bring its end nearer, when appends, replays and erasers race?  (That a fence is final is part of `AppendLog`.) | 2 callers, 2 records, 2 tokens, 2 erasure attempts, 2 tries |
| `log_calls_end` | does every call end? | 2 callers, one of which replays, 3 records, 1 payload, 2 tokens, 1 attempt, 2 tries; fair |
| `log_faults` | is a lost record noticed before anything is built over it or closed over it, and does no cursor change its history? | 2 callers, 2 payloads, 2 records, 1 attempt, 1 try, 1 fault |
| `local_store` | does the store on disk implement `CasStore`, wherever its processes die? | 2 processes, 2 objects, one of which is deleted, 2 contents, 2 generations |
| `writer_races` | does every record stand behind its own writer's lease, does an approved handoff keep the log replayable, and is an idle runtime really closed? | 2 runtimes, 4 records, 2 tries, 1 turn, 1 late write, clocks 0 and 3 of a lease of 3 |
| `writer_pause` | `writer_races` without `ConfirmsInTime`.  **Violated**: section 6 | 2 runtimes, 3 records, 2 tries, no handoff, clocks 0, 2 and 3 |
| `admission_races` | does the pod implement `AdmissionGate`, does no turn run behind an idle marker, do receipts and releases name what they attest, and is `Restored` what the loop of the code computes? | 2 tasks, 2 operations, 4 records, 1 of another writer, 1 late write, 2 processes |
| `admission_overlap` | are the hooks of the handoff in force done before its idle marker? **Violated**: section 6 | the same with 5 records, 1 process, no other writer |
| `handoff_held` | is the pod idle while the hub holds it, and open once a release is answered? | 2 attempts of the hub, 2 tasks, 5 records, 2 processes, late prepares and polls |
| `standby_sync` | are histories never joined, and is recorded progress shared and kept? | 2 pods, 2 attempts at once, logs of 2 records, 2 promotions |
| `migration_moves` | does the routed pod have every answered record, wherever a move stops, and does its ticket say what is true? | 2 moves, 2 hosts, 2 records of each pod's own |
| `migration_superseded` | does a worker stop when its ticket is another's? **Violated**: section 6 | the same |

The inductive invariants of section 5 were checked on these instances before
they were proved; the runs keep only what is worth reading by itself, and of the
invariants the one whose run also shows that nobody waits for ever
(`local_store`).

Why these are enough.  Log: a race on the head needs two callers, and a third
brings no new order of one caller against the head, since late writes already
play an absent third; a lost race needs one retry to be repeated and one more to
give up; two tokens let two callers put records with one sequence number and let
a key collide; a divergent history needs two payloads.  `WithinBound` begins
appends only while all those under way fit, so no call is cut off by the bound.
Callers, tokens, payloads and attempts are interchangeable, which makes symmetry
sound for safety; the liveness run uses none.

`log_calls_end` has room for three records, since a loss needs a commit of the
other caller: an append loses both its tries to it and gives up, two appenders
race, and either races a write that is late.  That is paid for with what the
length does not need: one payload, one erasure attempt, and replays by one of
the callers.  Its view leaves out the histories and the records that calls have
put, which no guard reads and which change nothing that is left.  In a bounded
log the races run out by themselves; that they need not is what `CallsRunDown` is
for (`log_races`): no step that touches a call leaves it as many stages as it had.

Local store: one process that dies and one that recovers, and may die again; an
object whose journal is pending and another that the next process wants; two
generations, so that a put meets an absent object, its first version and its
second.

Writer: one runtime that holds the lease and one that wants it; the readings 0
and 3 of a lease of 3 make it fresh, due for renewal and expired; four records
are a lease, a fence, an idle marker and what comes behind it; a late write may
be of a runtime that is dead or has lost the lease meanwhile.  With a turn under
way a log is followed only as long as two more records fit (`TurnsFit`): what a
turn adds to the last records is that it ends.  Both runtimes may
have died, which is the only way in which these runs stop
(`CHECK_DEADLOCK FALSE`).

Admission: a prepare and a turn, or two prepares, that overlap; four records are
a fence, an idle marker, a release and one more, of another operation or another
process.  The runs stop when the log is full (`CHECK_DEADLOCK FALSE`).  Handoff:
a second attempt meets what the first one left behind.

Standby: two attempts, so that one outlives its lease while the other works; two
records, so that logs can be equal, shorter and forked; two promotions, so that
a pod is the primary, then the standby, then the primary again.  A third pod
with one promotion was explored as well, with the same result; it takes longer
than a run of the table should.

Migration: two moves, so that one meets what the other left behind, at once or
afterwards, and may go back to the host that the first one left; two records of
each pod's own, so that a destination's record can come between those of the
bundle.  Three hosts with one record each were explored as well, with the same
result.  The runs stop when both workers have ended and the logs are full
(`CHECK_DEADLOCK FALSE`).

Fairness.  `PodCommitLog!Fairness`, of `FairSpec` and of the run's `CallsSpec`,
asks weak fairness of each caller's own steps: asyncio schedules a ready
coroutine, and every store request ends with an answer, an error or its timeout.
Beginning a call, losing an answer, crashing and late writes are never forced.
No other module needs fairness: that the local store's lock is always released
shows as the absence of deadlock, and where a caller waits for another one
(`wait_idle`, the hub's polls), the code itself promises no end (section 6).

## 5. Proofs

### The log

`PodCommitLogProofs` proves, for any number of callers, payloads, tokens and
attempts, any number of tries and any length of log:

* `TypeCorrect`, `AckedRecordsStay`, `RefusedNeverCommits`, `RetriesAreSafe`;
* `CallsAreBounded`: every step that touches a call ends it or lowers the number of
  stages that it may still go through;
* `FenceHolds`: nothing is appended behind a fence; and
* `ImplementsAppendLog`: every step of the log is a step of `AppendLog` or none.

The assumptions are those on the constants: at least one try, `NoAttempt` is not
an attempt, `NoKey` is not a key.

The properties are not inductive: that an acknowledged record stays says nothing
about a write that is about to be applied.  The inductive invariant `IInv`
therefore speaks of every write that can still win.  Whoever is about to send
one (`HeldHead`) or has stopped waiting for one (`LateSwapsExtend`): if its
expected generation is the present one, then the present head is the one it was
made from, so it closes the log where it ends or extends it by one stored record
that is neither committed nor given up (`Extends`).  `OwnRecords` keeps the
records of different calls, and of late writes, apart; without it a refusal
could give up a record that somebody else is about to commit.  Each action is
one of five kinds (a local step, the end of a call, a put, a new head, a begin),
and one lemma per kind carries the invariant over.

`PodCommitLogReadProofs` proves what readers rely on: `ReplayIsTheLog`,
`CursorsStayCommitted`, `SnapshotsAreExact`, `OneEraserCloses`,
`InventoriesAreComplete`, and `VerificationsSucceed`: no race makes a verification fail, so tampering is
reported only where there is some.  The second invariant (`ReadersSeeTheLog`)
adds to the first that the committed records name each other in the order in
which they were committed, and that every head a call holds, every cursor and
every write that can still win is a position of that log or extends it by one.
The walks back along `prev_key` are recursive functions, about which the provers
have no induction: that a walk arrives where it should is proved from the least
position at which it would not, after an explicit function has been shown to
satisfy the equation that defines the walk.

Over a provider that breaks its contract, once in a behaviour
(`PodCommitLogFaults`), the same module proves `NoLossIsBuiltOver`, `NoLossIsFenced` and
`CursorsNeverGoBack`.  There the committed history is no guide, since the store may
serve an earlier head again, and the invariant (`TheLogSurvives`) says what is left:
the stored records are linked and each hash binds its predecessors, only the newest
record, the one that the head names, may be missing, and whatever head may still be
written was prepared on a history that is whole.  The last part needs
`append` to have read the record that it names as its predecessor, and
`fence_for_erasure` to have walked the whole history.  That a cursor never changes
its mind follows from the hashes alone: a walk that arrives at the cursor's hash
has walked an extension of what the cursor stands for.

### The local store

`LocalObjectStoreProofs` proves, for any number of processes, objects, contents
and generations: `CrashesAreRecovered` (a recovery never meets files that its
journal does not describe), `VersionsStay`, `OneWriterWins`, and
`ImplementsCasStore`.  The assumptions are that the values which stand for
"none" are none of the others, and that objects which are deleted are objects.

The inductive invariant relates the journal to the files: `LockIsHeld` (whoever
works holds the lock), `WorkIsSound` (how far a redo has come tells which of the
two files is already new), `OwnJournal` (a put goes on with the journal that it
wrote itself).  In the refinement an object's version is the one its journal
promises, if there is one, and the one in its files otherwise (`Versioned`): a
put takes effect when its journal is written, and every redo stutters.

### The writer leases

`RuntimeWriterProofs` proves, for any number of runtimes, operations, clock
readings, retries and late writes, and any length of the log:

* `EveryLogIsReplayable`, with no assumption about time at all: no race writes a
  log that a replay takes for tampered with;
* `AppendsAreOwned`, `IdleStaysIdle` and `LostIsSilent`, each of the form
  `ConfirmsInTime /\ Spec => []P`;
* `TypesHold`, and the inductive invariant (`InvariantHolds`).

That the log is replayable says nothing about appends under way, so the
invariant speaks of all that may yet commit (`Pending`): what was checked of
such an append holds at the position that it names (`Sound`), and since the log
only grows, it goes on to hold there, whatever the others commit; if it commits
at all, it commits there.  Ownership needs one more part, for the append that
follows a claim and is prepared without a check: `ConfirmsAlone`, while a
claimer confirms the lease in force nobody else has an append that names the end
of the log.  That is the part for which `ConfirmsInTime` is assumed.  Every
action is one of three kinds (nothing is sent and nothing commits; a pending
append commits; one is sent that was checked at the end), and one lemma per kind
carries the invariant over.

### The admission of work

`UpgradeAdmissionProofs` proves, for any tasks, operations, processes, hooks and
lengths of the log:

* on every store: `TypesHold`, `WorkAlwaysCounted`, `ReceiptAlwaysExact`,
  `IdleAlwaysFenced`;
* on stores that settle before they are read (`Settles`):
  `IdleAlwaysMeansNoWork` and `ReleaseAlwaysMatchesIdle`;
* `RestoredAlwaysTheLoop`: what the model reads off the markers at once is what the
  loop of the code computes from one after the other;
* `IInvHolds`, the inductive invariant, in two halves of the same names, `Sound`
  and `Settled`.

That no turn runs behind an idle marker is not inductive: the marker may still
be on its way, or have been written by a process that is dead.  `Settled`
therefore says what a process that has read the log may rely on
(`ReadMeansRefusing`: while a handoff is open, or may become so by a late
marker, turns are refused), what holds of markers that may yet be committed
(`LateIdleMeansNoWork`), and to whom a retained idle marker and a late release
belong (`ReleasesAreOwn`).  `Sound` holds the bookkeeping: who has the condition,
that nobody declares idle or releases while a turn is counted (`NoneIsCounted`),
and that the fence and the idle marker a process remembers are in the log.

The loop is a recursive function.  For every prefix of the log `RestoredTo` reads
off at once what the markers in it make of the state; it is the state itself for
no markers (`ReadNothing`), `Restored` for all of them (`ReadAll`), and from one
prefix to the next it changes as one turn of the loop does (`ReadNext`, from the
lemmas about one more marker).  So it satisfies the loop's equation, and the loop
agrees with it at every position, since there is none at which it would first
differ.

### The handoff

`UpgradeHandoffProofs` proves, for any attempts of the hub, requests given up and
arriving late, tasks, operations, processes and lengths of the log:

* on every store: `HubKeepsThePod` (whatever the hub asks, the pod keeps the
  invariant above) and `HubTypesHold`;
* on stores that settle: `ReceiptAlwaysLast`, `AnsweredReleaseAlwaysDurable`, and
  the refinements `ImplementsAdmissionGate` for the pod by itself and
  `HubMeetsAdmissionGate` for the pod under the hub;
* on stores that settle, where only the hub releases and its releases do not
  arrive late: `HeldAlwaysIdle`.  Section 6 says what a late release does.

The hub believes a receipt, which is a statement about the log of some time ago.
`LogEnds` keeps it true: once a process that has read the log knows of a handoff,
nothing that was written before is still on its way, so its receipt is the last
marker; and a process that knows of none has no idle marker behind it.  A release
keeps the condition from its beginning to its end (`ReleasesAreInside`), so an
answer of it is about the log as it stands.  From the receipt on, `Holds` is kept
by every step of the pod and of the hub: whatever may still be committed is an
idle marker of the same operation, and no release is under way.

The refinement needs that what the process remembers, what the log ends with and
what may be committed late speak of one operation (`OneHandoff`), and that a
release which may still be committed finds no work (`LateReleaseMeansNoWork`):
its caller saw none, and the process that lost its answer refuses turns until it
has read the log again, by when the store has settled.

### The standby

`StandbySyncProofs` proves, for any pods, attempts, epochs and lengths of the
logs: `HistoriesAreKept`, `ProgressIsShared`, `OnePrimary`, `ProgressOnlyGrows`,
`RolesBeforeProgress`, `Types`, and the inductive invariant (`Inductive`).

An attempt acts on heads that it read long ago, and an import on a range that
was exported before a promotion.  The invariant says why that is safe: logs only
grow, so what an attempt has read stays a prefix of the logs it was read from
(`AttemptIsSound`), a range stays a prefix of its signer's log, and what has
been placed so far is a prefix of the range (`ImportIsSound`).  One primary in
an epoch follows from the placements (`PlacedIsSound`: the hub has named one per
epoch; `RolesArePlaced`: every pod's role is that of a placement), not from the
order in which roles arrive.  That recorded progress is shared needs the head
that is read again after the import; that it is kept needs the order between a
longer head and the one recorded before, which only the common prefix gives.

### The moves

`PodMigrationProofs` proves, for any number of moves, hosts, turns, lost answers
and late requests, and any length of the logs: `MemoryIsAlwaysServed`,
`FailedIsRestored`, `UnknownSwitchIsKept`, `OneWorkerAtATime`, `TypesHold` and
the inductive invariant (`InvariantHolds`).  Each assumes `RefusalIsAnswered`;
without it they do not hold (section 6).

The argument is that one worker at a time does anything (`Alone`): whoever is
past `Claim` has the ticket, which says that it runs, and every way to take the
ticket from a job goes through a verdict that the job writes as its last step.
What a worker may rely on at each of its steps (`Standing`) then needs no
interleaving with another worker, only with turns, sweeps and late requests.
The fence, not the frozen registry, keeps the log still while it is copied,
since a rotated key may set the registry back; so `Standing` says from `await` on
that the source is held, and from `build` on that no turn is left.  The records
are carried across by three inclusions: what was answered is in the exported
head, the head equals the rebuilt log at the comparison, and the rebuilt log
stays part of the destination's.  Late prepares and releases are harmless because
of what the ticket must say while they are on their way (`LateOf`): no other move
can have started.  A turn that was relayed before a switch and arrives after it
finds the old pod closed (`ShutOut`).

### Only model-checked

`EveryCallEnds`, since liveness under fairness is out of the prover's reach (its
safety half, that no call can go on for ever by steps, is `CallsAreBounded`), and
the absence of deadlock (`local_store`, the log's and the standby's runs).  The
three violated properties of section 6 are counterexamples, which TLC finds.

## 6. Disagreements between code and documentation, and gaps

Held by a run:

* `writer_pause`: the runbook `dev-pod-first-light-runbook.md` says (line 819)
  "Every append checks ownership."  After a claim, `ensure` refreshes the
  projection and returns its position without looking at the lease again
  (`pod_runtime_writer.py` lines 115-118).  If the claimer was slow by a whole
  lease and another runtime took over before that refresh, its record is
  appended behind the other's lease.  `ConfirmsInTime` excludes exactly this;
  under it ownership is proved.
* `admission_overlap`: `test_pod_upgrade_admission.py` line 333 says "only
  acknowledged shutdown permits the retry to issue idle".  The drain hooks run
  outside the condition, and the first prepare whose hooks end sets
  `drain_hooks_complete` for the handoff in force, also when that is another one
  (`pod_upgrade_admission.py` line 334).

* `migration_superseded`: `docs/reference/architecture/pod-migration.md` line 82
  says of a superseded worker: "Stop; do not release another operation's fence or
  tear down its destination."  `run_migration` writes a refused comparison to the
  ticket (`pod_migration_service.py` lines 426 and 431) inside the `try` whose
  handler recovers from every exception (line 440).  Where that write commits and
  only its answer is lost, the ticket says failed, another move may start, and
  the first worker recovers a second time.  `end_migration` asks for a row that
  is migrating, not for whose; `rollback_destination` may delete a host that the
  other move has built, or has switched to, so `MemoryIsServed` fails as well.

Seen while modelling, held by no run:

* `pod_commit_log.py` lines 22-24 promise that a truncated log is refused.  A
  provider that serves an older `head.json` again truncates it (`Rollback`), and
  a replay that has no cursor (any replay after a restart) loads the rest without
  an error.  Only a reader that kept its cursor notices (`CursorsOnlyAdvance`).
* A replay looks at the head once more before it returns (`require_open`, line
  1028), so as not to "release a captured history after observing the durable
  closure" (line 999).  A fence that wins between the store's answer and the
  return is not observed, and the history is released behind it (`ReplayOpen`,
  `ReplayPublish`).  `require_open` says itself that it does not drain work in
  flight, so nothing is contradicted; an eraser must not take the fence for the
  end of all readings.
* A runtime that dies while it drains keeps every successor out, however long its
  lease has expired (`pod_runtime_writer.py` line 106), until the approved
  successor or the owner acts.  `test_draining_blocks_expiry_takeover_and_idle_requires_approved_successor`
  states this as intended.
* The freeze of a move is a status of the registry's row, and
  `attach_pod_public_key` writes `provisioned` over it when a restarted pod has a
  new key (`personal_agent_provisioning_service.py` lines 1132 and 1193).  Turns
  are relayed again, `begin_migration`'s account of the freeze (lines 1709-1712
  of `personal_agent_registry_repo.py`) notwithstanding; the pod's own fence
  keeps them out, so nothing is lost (`MemoryIsServed`), but a move that fails then
  ends as `recovery_pending`, because its row is not migrating any more.
* The undo of a failed attempt is a release that names no idle record
  (`user_gcp_backend.py` line 1788).  If it arrives only when a retry of the
  same operation holds the pod, it opens the pod under the hub.  `HeldIsIdle` is
  checked with late prepares and polls, and breaks when `Delayed` also contains
  `"release"`.
* When the last turn has counted its permit down and its idle marker cannot be
  appended (`pod_runtime_work.py` line 53), nobody tries again until a further
  prepare, and the hub polls the status for a receipt without a deadline
  (`pod_upgrade_handoff.py` lines 186 and 216).  The state is safe; the handoff
  may never end.
* A release whose answer is lost makes the pod read its log again
  (`pod_upgrade_admission.py` lines 410-412).  On a store that applies the write
  only after that reading, the pod goes on refusing turns in a log that says
  released, or the other way round for an idle marker; `Settles` excludes it.
* A prepare whose hooks end after a release that was committed without an answer
  may close the pod again for the operation that was released (section 3,
  `AdmissionGate`).
* A cached primary role is trusted for up to thirty seconds (`pod_role.py` line
  245), so a demoted pod may write records that no other pod has.  They stay on
  that pod: the next sync reports a fork, no history is joined and no recorded
  progress is lost (`HistoryIsKept`, `ProgressIsKept`).

## 7. Not modelled

The components marked so in `PROJECT.json`, and why:

* **Cryptographic erasure** (`pod_crypto_erase.py`): the fence and the inventory
  that it relies on are modelled and proved (`FencedForOne`,
  `InventoryIsComplete`); the deletion of keys and objects is a retried walk
  over that inventory, which an eraser that dies half-way begins again.
* **Session authority and recovery projection**: read models over
  `replay_since`, whose cursors `PodCommitLog` models (`CursorsAreCommitted`);
  what they project from the records is not modelled.
* **Consent, wallet, scheduled work**: state machines whose atomicity is mostly
  that of single SQL transactions, in other services than the pod's durable core.
* **Placement fence of the hub**: one read-only decision per request.
* **Storage transport**: pure I/O; its outcomes are the branches of
  `PodCommitLog`.
* **Agents, voice, HTTP surface, clients, deployment**: prompts, I/O, wiring and
  user interface, without durable state of their own.

Within the log's files: validation of object keys and version tokens (pure
functions over text), credentials of `GcsObjectStore`, the AES-GCM sealing
itself, and byte limits.  Within the local store: reordering of file operations
by a power loss.  Within the writer: a wall clock that steps back between the
check of an expired lease and the claim of the next (two lines apart, with no
await between them), which would write a lease that replays reject; and the
validation of a record's fields.  Within the admission: the writer's lease, which
a deployment may put under its appends (`RuntimeWriter`), and the checks of
model and evidence that the hub makes before it asks a pod.  Within the standby
sync: signatures, proofs and nonces, the size of a range, the request guard
(which only refuses), and the refusal of imports by a pod with a runtime writer,
which is one of an import's ends.  Within the migration: the sealing of the
bundle, the provisioner's and the registry's other columns, and the screens that
report a stage.
