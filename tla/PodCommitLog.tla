---------------------------- MODULE PodCommitLog ----------------------------
(***************************************************************************)
(* The pod's system of record (hushh_mcp/services/pod_commit_log.py): a    *)
(* hash-chained log in an object store that offers one primitive, a        *)
(* compare-and-swap on an object's generation.                             *)
(*                                                                         *)
(*   head.json     the pointer: the position of the newest committed       *)
(*                 record, or the marker of an erasure fence               *)
(*   records/...   one immutable object per record, each naming its        *)
(*                 predecessor by key and by hash                          *)
(*                                                                         *)
(* A caller (Proc) is one coroutine using the log: it appends, brings its  *)
(* cursor up to date (replay_since / fold_since; replay is the same with   *)
(* no cursor), fences the log for erasure, or lists what is behind the     *)
(* fence.  Every store request is one step, so any other caller may act    *)
(* between two requests of one call.                                       *)
(*                                                                         *)
(* A record's hash is modelled by what it binds: _record_sha covers the    *)
(* sequence number, the payload and the predecessor's hash, so the hash    *)
(* of a record is the sequence of payloads that leads to it.  It does not  *)
(* cover the predecessor's KEY, and neither does the model's.              *)
(***************************************************************************)
EXTENDS Naturals, Sequences, FiniteSets

CONSTANTS
  Proc,         \* concurrent callers, in this process or in others
  Payload,      \* what a record carries (kind and payload)
  Token,        \* the random suffixes of record keys (secrets.token_hex)
  Attempt,      \* erasure attempts
  NoAttempt,    \* head.json is not a fence
  NoKey,        \* prev_key of the first record; the key of an absent head
  MaxRetries,   \* PodCommitLog._max_retries
  ReplayLimit,  \* max_records of replay_since
  MaxSeq        \* bound of the model: appends are begun only within it

ASSUME RetriesAssumption == MaxRetries \in Nat \ {0}
ASSUME BoundsAssumption == MaxSeq \in Nat /\ ReplayLimit \in Nat
ASSUME NoAttemptAssumption == NoAttempt \notin Attempt
ASSUME NoKeyAssumption == NoKey \notin (Nat \X Token)

VARIABLES
  head,         \* contents of head.json
  gen,          \* its generation, 0 while it does not exist
  records,      \* the record objects: a function from their keys
  late,         \* conditional writes sent by a caller that stopped waiting
  pc,           \* where each caller's call stands
  call,         \* the arguments of each caller's call
  swap,         \* the head it read, later the head it wants to swap in
  tries,        \* lost races of this call
  wrote,        \* record keys this call has put
  view,         \* each caller's cursor: the last position it verified
  chain,        \* history: keys of the committed records, in order
  acked,        \* history: appends that returned a record
  orphans,      \* history: keys a call put and can no longer commit
  fencedFor,    \* history: attempts whose fence_for_erasure returned
  inventories   \* history: key sets returned by fenced_record_keys

store == <<head, gen, records, late>>
local == <<pc, call, swap, tries, wrote, view>>
results == <<acked, orphans, fencedFor, inventories>>
vars == <<store, local, chain, results>>

-----------------------------------------------------------------------------
(* Positions, heads and records *)

Key == (Nat \ {0}) \X Token
Sha == Seq(Payload)

Position == [seq : Nat, key : Key \cup {NoKey}, sha : Sha]
HeadFile == [seq : Nat, key : Key \cup {NoKey}, sha : Sha,
             fence : Attempt \cup {NoAttempt}]
Record == [seq : Nat \ {0}, payload : Payload,
           prevKey : Key \cup {NoKey}, prevSha : Sha, sha : Sha]

Origin == [seq |-> 0, key |-> NoKey, sha |-> << >>]
AbsentHead == [seq |-> 0, key |-> NoKey, sha |-> << >>, fence |-> NoAttempt]
PositionOf(h) == [seq |-> h.seq, key |-> h.key, sha |-> h.sha]

IsFenced(h) == h.fence # NoAttempt

RecordAfter(h, payload) ==
  [seq |-> h.seq + 1, payload |-> payload, prevKey |-> h.key,
   prevSha |-> h.sha, sha |-> Append(h.sha, payload)]

HeadOf(key, record) ==
  [seq |-> record.seq, key |-> key, sha |-> record.sha, fence |-> NoAttempt]

\* Mutation: the marker forgets the head it replaces.
MarkerOverNothing(h, attempt) ==
  [seq |-> 0, key |-> NoKey, sha |-> << >>, fence |-> attempt]

\* The fence marker carries the coordinates of the head it replaces.
MarkerOver(h, attempt) ==
  [seq |-> h.seq, key |-> h.key, sha |-> h.sha, fence |-> attempt]

\* The predecessor check of append
PredecessorVerifies(h) ==
  /\ h.key \in DOMAIN records
  /\ records[h.key].seq = h.seq
  /\ records[h.key].sha = h.sha

\* How the walk of replay_chain names position i: as its successor does, or as
\* the head h does.
Links(h, floor) ==
  LET Before(l) == IF l.key \in DOMAIN records
                     THEN [key |-> records[l.key].prevKey,
                           sha |-> records[l.key].prevSha]
                     ELSE [key |-> NoKey, sha |-> << >>]
      link[i \in floor .. h.seq] ==
        IF i = h.seq THEN [key |-> h.key, sha |-> h.sha]
                     ELSE Before(link[i + 1])
  IN  link

RecordsVerify(h, floor) ==
  LET link == Links(h, floor) IN
  \A i \in floor + 1 .. h.seq :
    /\ link[i].key \in DOMAIN records
    /\ records[link[i].key].seq = i
    /\ records[link[i].key].sha = link[i].sha

\* Mutation: the last link is not compared with the anchor.
ChainVerifiesLoosely(h, anchor) ==
  h.seq >= anchor.seq /\ RecordsVerify(h, anchor.seq)

\* The walk of replay_chain from head h back to a verified anchor
ChainVerifies(h, anchor) ==
  /\ h.seq >= anchor.seq
  /\ RecordsVerify(h, anchor.seq)
  /\ Links(h, anchor.seq)[anchor.seq] = [key |-> anchor.key, sha |-> anchor.sha]

-----------------------------------------------------------------------------
(* Shared pieces of the actions *)

AppendPc == {"read", "verify", "put", "swap"}
FencePc == {"fence_read", "fence_walk", "fence_swap", "fence_confirm"}
ReplayPc == {"replay_read", "replay_walk", "replay_open", "replay_release"}
InventoryPc == {"inventory_read", "inventory_walk"}
Pc == {"idle"} \cup AppendPc \cup FencePc \cup ReplayPc \cup InventoryPc

AppendCall == [payload : Payload, snapshot : BOOLEAN]
EraseCall == [attempt : Attempt \cup {NoAttempt}]
NoCall == [attempt |-> NoAttempt]

Swap == [expected : Nat, head : HeadFile]
NoSwap == [expected |-> 0, head |-> AbsentHead]

\* The store's compare-and-swap of head.json, when it succeeds.  Generations
\* never recur, so every other write in flight has become a lost race, with
\* nobody waiting for its answer: it is forgotten.
SwapHead(request) ==
  /\ gen = request.expected
  /\ head' = request.head
  /\ gen' = gen + 1
  /\ late' = {}
  /\ chain' = IF IsFenced(request.head)
                THEN chain ELSE Append(chain, request.head.key)

\* The conditional write of p goes out and nobody waits for its answer.
SendAndForget(p) ==
  late' = IF swap[p].expected = gen THEN late \cup {swap[p]} ELSE late

Goto(p, label) == pc' = [pc EXCEPT ![p] = label]

\* The call ends, by a return or by an exception.
Finish(p) ==
  /\ Goto(p, "idle")
  /\ call' = [call EXCEPT ![p] = NoCall]
  /\ swap' = [swap EXCEPT ![p] = NoSwap]
  /\ tries' = [tries EXCEPT ![p] = 0]
  /\ wrote' = [wrote EXCEPT ![p] = {}]

Begin(p, label, arguments) ==
  /\ pc[p] = "idle"
  /\ Goto(p, label)
  /\ call' = [call EXCEPT ![p] = arguments]
  /\ UNCHANGED <<store, swap, tries, wrote, view, chain, results>>

\* Read head.json and its generation, and go on.
ReadHead(p, next) ==
  /\ Goto(p, next)
  /\ swap' = [swap EXCEPT ![p] = [expected |-> gen, head |-> head]]
  /\ UNCHANGED <<store, call, tries, wrote, view, chain, results>>

WillSwapIn(p, h) ==
  swap' = [swap EXCEPT ![p] = [expected |-> swap[p].expected, head |-> h]]

\* The call raises and has nothing more in flight: whatever records it put are
\* orphans.  An append that raises PodLogConflict, PodLogFenced,
\* PodLogTampered or FileExistsError has committed nothing.
Refuse(p) ==
  /\ Finish(p)
  /\ orphans' = orphans \cup wrote[p]
  /\ UNCHANGED <<store, view, chain, acked, fencedFor, inventories>>

\* A lost race: start over from a fresh pointer, or give up.
Retry(p, label) ==
  /\ tries[p] + 1 < MaxRetries
  /\ Goto(p, label)
  /\ tries' = [tries EXCEPT ![p] = @ + 1]
  /\ UNCHANGED <<store, call, swap, wrote, view, chain, results>>

GiveUp(p) == tries[p] + 1 >= MaxRetries /\ Refuse(p)

\* Mutation: an unanswered write is reported as one that was not applied.
LoseAnswerAsRefusal(p) ==
  /\ Finish(p)
  /\ SendAndForget(p)
  /\ orphans' = orphans \cup wrote[p]
  /\ UNCHANGED <<head, gen, records, view, chain, acked, fencedFor, inventories>>

\* The answer to a conditional write never arrives (a timeout, an error
\* status, a cancelled caller): the call raises, and the write may still be
\* applied, now or later, or never.
LoseAnswer(p) ==
  /\ Finish(p)
  /\ SendAndForget(p)
  /\ orphans' = orphans \cup (wrote[p] \ {swap[p].head.key})
  /\ UNCHANGED <<head, gen, records, view, chain, acked, fencedFor, inventories>>

-----------------------------------------------------------------------------
(* append *)

\* MaxSeq bounds the model: with every append under way committed, and a late
\* write too, the log stays within it.
WithinBound ==
  head.seq + Cardinality({q \in Proc : pc[q] \in AppendPc})
    + (IF late = {} THEN 0 ELSE 1) < MaxSeq

\* A snapshot append passes expected_seq, the sequence of its own cursor.
BeginAppend(p) ==
  \E payload \in Payload, snapshot \in BOOLEAN :
    /\ WithinBound
    /\ Begin(p, "read", [payload |-> payload, snapshot |-> snapshot])

\* Mutation: expected_seq is compared on the first try only.
AppendStaleOnce(p) ==
  call[p].snapshot /\ tries[p] = 0 /\ head.seq # view[p].seq

AppendStale(p) == call[p].snapshot /\ head.seq # view[p].seq

\* Mutation: append looks at the position only, not at the fence.
AppendReadThroughFence(p) ==
  /\ pc[p] = "read"
  /\ ~AppendStale(p)
  /\ ReadHead(p, IF head.seq = 0 THEN "put" ELSE "verify")

AppendRead(p) ==
  /\ pc[p] = "read"
  /\ ~IsFenced(head)
  /\ ~AppendStale(p)
  /\ ReadHead(p, IF head.seq = 0 THEN "put" ELSE "verify")

\* PodLogFenced, or PodLogConflict for a stale snapshot
AppendRefused(p) ==
  /\ pc[p] = "read"
  /\ IsFenced(head) \/ AppendStale(p)
  /\ Refuse(p)

\* Mutation: the predecessor is not read.
AppendVerifySkipped(p) ==
  /\ pc[p] = "verify"
  /\ Goto(p, "put")
  /\ UNCHANGED <<store, call, swap, tries, wrote, view, chain, results>>

AppendVerify(p) ==
  /\ pc[p] = "verify"
  /\ PredecessorVerifies(swap[p].head)
  /\ Goto(p, "put")
  /\ UNCHANGED <<store, call, swap, tries, wrote, view, chain, results>>

AppendTampered(p) ==
  /\ pc[p] = "verify"
  /\ ~PredecessorVerifies(swap[p].head)
  /\ Refuse(p)

AppendPut(p) ==
  \E token \in Token :
    LET record == RecordAfter(swap[p].head, call[p].payload)
        key == <<record.seq, token>>
    IN  /\ pc[p] = "put"
        /\ key \notin DOMAIN records
        /\ records' = [k \in DOMAIN records \cup {key} |->
                         IF k = key THEN record ELSE records[k]]
        /\ WillSwapIn(p, HeadOf(key, record))
        /\ wrote' = [wrote EXCEPT ![p] = @ \cup {key}]
        /\ Goto(p, "swap")
        /\ UNCHANGED <<head, gen, late, call, tries, view, chain, results>>

\* The write-once put raises: the random key exists (FileExistsError).
AppendPutCollides(p) ==
  /\ pc[p] = "put"
  /\ \E token \in Token : <<swap[p].head.seq + 1, token>> \in DOMAIN records
  /\ Refuse(p)

AppendWins(p) ==
  LET won == swap[p].head IN
  /\ pc[p] = "swap"
  /\ SwapHead(swap[p])
  /\ Finish(p)
  /\ acked' = acked \cup {[key |-> won.key, seq |-> won.seq,
                            snapshot |-> call[p].snapshot, base |-> view[p]]}
  /\ orphans' = orphans \cup (wrote[p] \ {won.key})
  /\ UNCHANGED <<records, view, fencedFor, inventories>>

\* Mutation: a lost race refreshes the generation and writes the same head.
AppendLosesBlindly(p) ==
  /\ pc[p] = "swap"
  /\ gen # swap[p].expected
  /\ swap' = [swap EXCEPT ![p].expected = gen]
  /\ UNCHANGED <<store, pc, call, tries, wrote, view, chain, results>>

\* Mutation: a loser waits for the generation that it has read to come back.
AppendLosesForEver(p) ==
  /\ pc[p] = "swap"
  /\ gen # swap[p].expected
  /\ UNCHANGED vars

\* Mutation: lost races are not counted.
AppendLosesUncounted(p) ==
  /\ pc[p] = "swap"
  /\ gen # swap[p].expected
  /\ Goto(p, "read")
  /\ UNCHANGED <<store, call, swap, tries, wrote, view, chain, results>>

AppendLoses(p) ==
  /\ pc[p] = "swap"
  /\ gen # swap[p].expected
  /\ Retry(p, "read") \/ GiveUp(p)

\* Mutation: an unanswered write is retried like a lost race.
AppendUnconfirmedRetries(p) ==
  /\ pc[p] = "swap"
  /\ tries[p] + 1 < MaxRetries
  /\ SendAndForget(p)
  /\ Goto(p, "read")
  /\ tries' = [tries EXCEPT ![p] = @ + 1]
  /\ UNCHANGED <<head, gen, records, call, swap, wrote, view, chain, results>>

AppendUnconfirmed(p) == pc[p] = "swap" /\ LoseAnswer(p)

-----------------------------------------------------------------------------
(* fence_for_erasure *)

BeginFence(p) ==
  \E attempt \in Attempt : Begin(p, "fence_read", [attempt |-> attempt])

FenceRead(p) ==
  /\ pc[p] = "fence_read"
  /\ ~IsFenced(head)
  /\ ReadHead(p, "fence_walk")

Fenced(p) ==
  /\ Finish(p)
  /\ fencedFor' = fencedFor \cup {call[p].attempt}
  /\ UNCHANGED <<store, view, chain, acked, orphans, inventories>>

\* Mutation: any fence will do.
FenceFoundAny(p) == pc[p] = "fence_read" /\ IsFenced(head) /\ Fenced(p)

\* The fence is already there: ours is done, another attempt's refuses.
FenceFound(p) ==
  /\ pc[p] = "fence_read"
  /\ IsFenced(head)
  /\ IF head.fence = call[p].attempt THEN Fenced(p) ELSE Refuse(p)

\* Mutation: the history is closed unread.
FenceWalkSkipped(p) ==
  /\ pc[p] = "fence_walk"
  /\ WillSwapIn(p, MarkerOver(swap[p].head, call[p].attempt))
  /\ Goto(p, "fence_swap")
  /\ UNCHANGED <<store, call, tries, wrote, view, chain, results>>

\* The history is replayed before it is closed.
FenceWalk(p) ==
  /\ pc[p] = "fence_walk"
  /\ ChainVerifies(swap[p].head, Origin)
  /\ WillSwapIn(p, MarkerOver(swap[p].head, call[p].attempt))
  /\ Goto(p, "fence_swap")
  /\ UNCHANGED <<store, call, tries, wrote, view, chain, results>>

FenceTampered(p) ==
  /\ pc[p] = "fence_walk"
  /\ ~ChainVerifies(swap[p].head, Origin)
  /\ Refuse(p)

FenceWins(p) ==
  /\ pc[p] = "fence_swap"
  /\ SwapHead(swap[p])
  /\ Goto(p, "fence_confirm")
  /\ UNCHANGED <<records, call, swap, tries, wrote, view, results>>

FenceLoses(p) ==
  /\ pc[p] = "fence_swap"
  /\ gen # swap[p].expected
  /\ Retry(p, "fence_read") \/ GiveUp(p)

FenceUnconfirmed(p) == pc[p] = "fence_swap" /\ LoseAnswer(p)

\* The marker is read back before the fence is reported.
FenceConfirm(p) ==
  /\ pc[p] = "fence_confirm"
  /\ head = swap[p].head
  /\ gen = swap[p].expected + 1
  /\ Fenced(p)

FenceContradicted(p) ==
  /\ pc[p] = "fence_confirm"
  /\ head # swap[p].head \/ gen # swap[p].expected + 1
  /\ Refuse(p)

-----------------------------------------------------------------------------
(* replay_since, fold_since and replay (which has no cursor) *)

BeginReplay(p) == Begin(p, "replay_read", NoCall)

ReplayRead(p) ==
  /\ pc[p] = "replay_read"
  /\ ~IsFenced(head)
  /\ ReadHead(p, "replay_walk")

ReplayRefused(p) ==
  /\ pc[p] \in {"replay_read", "replay_open"}
  /\ IsFenced(head)
  /\ Refuse(p)

ReplayWalk(p) ==
  /\ pc[p] = "replay_walk"
  /\ ChainVerifies(swap[p].head, view[p])
  /\ Goto(p, "replay_open")
  /\ UNCHANGED <<store, call, swap, tries, wrote, view, chain, results>>

\* PodLogTampered; or PodLogConflict, when replay_since has more new records
\* to read than its limit (fold_since has none).
ReplayWalkFails(p) ==
  /\ pc[p] = "replay_walk"
  /\ \/ ~ChainVerifies(swap[p].head, view[p])
     \/ swap[p].head.seq > view[p].seq + ReplayLimit
  /\ Refuse(p)

\* require_open: the store answers with a head that is no fence.
ReplayOpen(p) ==
  /\ pc[p] = "replay_open"
  /\ ~IsFenced(head)
  /\ Goto(p, "replay_release")
  /\ UNCHANGED <<store, call, swap, tries, wrote, view, chain, results>>

\* The records and the cursor go to the caller, whatever has been swapped in
\* since the store gave that answer.
ReplayPublish(p) ==
  /\ pc[p] = "replay_release"
  /\ view' = [view EXCEPT ![p] = PositionOf(swap[p].head)]
  /\ Finish(p)
  /\ UNCHANGED <<store, chain, results>>

-----------------------------------------------------------------------------
(* fenced_record_keys: what the eraser must delete *)

BeginInventory(p) ==
  \E attempt \in Attempt : Begin(p, "inventory_read", [attempt |-> attempt])

InventoryRead(p) ==
  /\ pc[p] = "inventory_read"
  /\ head.fence = call[p].attempt
  /\ ReadHead(p, "inventory_walk")

\* The fence is absent, another attempt's, or not the one first read; or the
\* chain behind it does not verify.
InventoryRefused(p) ==
  /\ pc[p] \in InventoryPc
  /\ \/ head.fence # call[p].attempt
     \/ /\ pc[p] = "inventory_walk"
        /\ \/ PositionOf(head) # PositionOf(swap[p].head)
           \/ ~ChainVerifies(swap[p].head, Origin)
  /\ Refuse(p)

\* The keys collected on the way from the fence's prior head.
KeysBehind(h) ==
  LET key[i \in 1 .. h.seq] ==
        IF i = h.seq THEN h.key ELSE records[key[i + 1]].prevKey
  IN  {k \in DOMAIN records : \E i \in 1 .. h.seq : k = key[i]}

\* Mutation: every stored record is listed.
InventoryWalkLists(p) ==
  /\ pc[p] = "inventory_walk"
  /\ head.fence = call[p].attempt
  /\ Finish(p)
  /\ inventories' = inventories \cup {DOMAIN records}
  /\ UNCHANGED <<store, view, chain, acked, orphans, fencedFor>>

InventoryWalk(p) ==
  /\ pc[p] = "inventory_walk"
  /\ ChainVerifies(swap[p].head, Origin)
  /\ head.fence = call[p].attempt
  /\ PositionOf(head) = PositionOf(swap[p].head)
  /\ Finish(p)
  /\ inventories' = inventories \cup {KeysBehind(swap[p].head)}
  /\ UNCHANGED <<store, view, chain, acked, orphans, fencedFor>>

-----------------------------------------------------------------------------
(* The environment *)

\* A write whose sender stopped waiting is applied.
LateSwap ==
  \E request \in late :
    SwapHead(request) /\ UNCHANGED <<records, local, results>>

\* The process dies: its call and its cursor are gone, what it sent is not.
Crash(p) ==
  /\ Finish(p)
  /\ view' = [view EXCEPT ![p] = Origin]
  /\ IF pc[p] \in {"swap", "fence_swap"} THEN SendAndForget(p) ELSE UNCHANGED late
  /\ orphans' = orphans \cup (IF pc[p] = "swap"
                                THEN wrote[p] \ {swap[p].head.key} ELSE wrote[p])
  /\ UNCHANGED <<head, gen, records, chain, acked, fencedFor, inventories>>

-----------------------------------------------------------------------------
(* The specification *)

Init ==
  /\ head = AbsentHead
  /\ gen = 0
  /\ records = [k \in {} |-> NoKey]
  /\ late = {}
  /\ pc = [p \in Proc |-> "idle"]
  /\ call = [p \in Proc |-> NoCall]
  /\ swap = [p \in Proc |-> NoSwap]
  /\ tries = [p \in Proc |-> 0]
  /\ wrote = [p \in Proc |-> {}]
  /\ view = [p \in Proc |-> Origin]
  /\ chain = << >>
  /\ acked = {}
  /\ orphans = {}
  /\ fencedFor = {}
  /\ inventories = {}

AppendStep(p) ==
  \/ AppendRead(p) \/ AppendRefused(p) \/ AppendVerify(p) \/ AppendTampered(p)
  \/ AppendPut(p) \/ AppendPutCollides(p)
  \/ AppendWins(p) \/ AppendLoses(p)

FenceStep(p) ==
  \/ FenceRead(p) \/ FenceFound(p) \/ FenceWalk(p) \/ FenceTampered(p)
  \/ FenceWins(p) \/ FenceLoses(p)
  \/ FenceConfirm(p) \/ FenceContradicted(p)

ReplayStep(p) ==
  \/ ReplayRead(p) \/ ReplayRefused(p) \/ ReplayWalk(p)
  \/ ReplayWalkFails(p) \/ ReplayOpen(p) \/ ReplayPublish(p)

InventoryStep(p) == InventoryRead(p) \/ InventoryRefused(p) \/ InventoryWalk(p)

Step(p) == AppendStep(p) \/ FenceStep(p) \/ ReplayStep(p) \/ InventoryStep(p)

\* The conditional write of p goes unanswered.
Unanswered(p) == AppendUnconfirmed(p) \/ FenceUnconfirmed(p)

BeginCall(p) ==
  BeginAppend(p) \/ BeginFence(p) \/ BeginReplay(p) \/ BeginInventory(p)

Next ==
  \/ LateSwap
  \/ \E p \in Proc : BeginCall(p) \/ Step(p) \/ Unanswered(p) \/ Crash(p)

Spec == Init /\ [][Next]_vars

\* A call that is under way goes on: asyncio schedules every ready coroutine,
\* and every store request is answered or, by its timeout, ends the call
\* unanswered.  Nothing makes a caller begin a call.
Fairness == \A p \in Proc : WF_vars(Step(p))

FairSpec == Spec /\ Fairness

-----------------------------------------------------------------------------
(* Correctness *)

Committed == {chain[i] : i \in DOMAIN chain}

\* Every variable has its type.
TypeOK ==
  /\ head \in HeadFile
  /\ gen \in Nat
  /\ DOMAIN records \subseteq Key
  /\ \A k \in DOMAIN records : records[k] \in Record
  /\ late \subseteq Swap
  /\ pc \in [Proc -> Pc]
  /\ call \in [Proc -> AppendCall \cup EraseCall]
  /\ swap \in [Proc -> Swap]
  /\ tries \in [Proc -> 0 .. MaxRetries - 1]
  /\ wrote \in [Proc -> SUBSET Key]
  /\ view \in [Proc -> Position]
  /\ chain \in Seq(Key)
  /\ acked \subseteq [key : Key, seq : Nat, snapshot : BOOLEAN, base : Position]
  /\ orphans \subseteq Key
  /\ fencedFor \subseteq Attempt
  /\ inventories \subseteq SUBSET Key

\* Whatever races, crashes and late writes came before, a replay from scratch
\* would verify, and would return exactly the committed records in the order
\* in which they were committed: no orphan is reachable and none is missing.
ReplayReturnsCommitted ==
  /\ head.seq = Len(chain)
  /\ ChainVerifies(head, Origin)
  /\ KeysBehind(head) = Committed
  /\ \A i \in DOMAIN chain : records[chain[i]].seq = i

\* A record whose append returned stays where it was committed, for ever.
AckedStaysCommitted ==
  \A a \in acked : a.seq \in DOMAIN chain /\ chain[a.seq] = a.key

\* An append made from a snapshot lands directly behind that snapshot: no
\* competing commit slips between what the caller read and what it wrote, not
\* even on a retry.
SnapshotIsExact ==
  \A a \in acked :
    a.snapshot => /\ a.seq = a.base.seq + 1
                  /\ records[a.key].prevKey = a.base.key
                  /\ records[a.key].prevSha = a.base.sha

\* An append that refused (a stale snapshot, a fence, retries exhausted) has
\* committed nothing and never will, and a lost race leaves only an orphan.
OrphansNeverCommit == orphans \cap Committed = {}

\* A call that is still trying has committed nothing so far, so its next try
\* cannot commit its payload twice.
RetryingMeansUncommitted ==
  \A p \in Proc : pc[p] # "idle" => wrote[p] \cap Committed = {}

\* What a caller has verified is a prefix of what is committed: a cursor names
\* a committed record, at its position, by its key and its hash.
CursorsAreCommitted ==
  \A p \in Proc :
    view[p] # Origin =>
      /\ view[p].seq \in DOMAIN chain
      /\ view[p].key = chain[view[p].seq]
      /\ view[p].sha = records[view[p].key].sha

\* At most one erasure attempt is ever told that it closed the log, and the
\* log is closed for it: no restart and no late write gives the log to another.
FencedForOne == \A attempt \in fencedFor : head.fence = attempt

\* An eraser is handed the key of every committed record and of nothing else.
InventoryIsComplete == \A keys \in inventories : keys = Committed

\* Nothing is committed behind a fence and no fence is replaced, by a writer
\* that read the head before it or by a write that was under way.
FenceIsFinal == [][IsFenced(head) => UNCHANGED <<head, chain>>]_vars

\* What a call can still have before it: the stages of this try, and all those
\* of the tries that max_retries leaves it.
Stages ==
  [idle |-> 0, read |-> 4, verify |-> 3, put |-> 2, swap |-> 1,
   fence_read |-> 4, fence_walk |-> 3, fence_swap |-> 2, fence_confirm |-> 1,
   replay_read |-> 4, replay_walk |-> 3, replay_open |-> 2, replay_release |-> 1,
   inventory_read |-> 2, inventory_walk |-> 1]

StagesLeft(p) ==
  IF pc[p] = "idle" THEN 0 ELSE 4 * (MaxRetries - 1 - tries[p]) + Stages[pc[p]]

\* However many commits, fences and late writes of others come in between, a call
\* is over within 4 * max_retries stages: whatever step touches it leaves it fewer.
\* (EveryCallEnds can lose a race only as often as the bounded log is appended to.)
CallsRunDown ==
  [][\A p \in Proc : pc[p] # "idle" =>
       \/ UNCHANGED <<pc[p], call[p], swap[p], tries[p], wrote[p], view[p]>>
       \/ StagesLeft(p)' < StagesLeft(p)]_vars

\* Every call ends, in a return or an exception, however the races go.
EveryCallEnds == \A p \in Proc : pc[p] # "idle" ~> pc[p] = "idle"

-----------------------------------------------------------------------------
(* The inductive invariant behind these properties *)

\* The head names the newest committed record; what is committed or given up
\* is stored, and an acknowledged record is where it was committed.
LogIsSound ==
  /\ head.seq = Len(chain)
  /\ chain # << >> => head.key = chain[Len(chain)]
  /\ \A i \in DOMAIN chain :
       chain[i] \in DOMAIN records /\ records[chain[i]].seq = i
  /\ orphans \subseteq DOMAIN records
  /\ OrphansNeverCommit
  /\ AckedStaysCommitted

\* A head that may replace the present one closes the log at its tail, or
\* extends it by one stored record that is neither committed nor given up.
Extends(h) ==
  /\ ~IsFenced(head)
  /\ IF IsFenced(h)
       THEN PositionOf(h) = PositionOf(head)
       ELSE /\ h.seq = head.seq + 1
            /\ h.key \in DOMAIN records
            /\ records[h.key].seq = h.seq
            /\ h.key \notin Committed \cup orphans

LateSwapsExtend ==
  \A request \in late : request.expected = gen /\ Extends(request.head)

\* The records a call has put are its own: no other call's, not committed, not
\* given up, not in a write that nobody waits for.
OwnRecords(p) ==
  /\ wrote[p] \subseteq DOMAIN records
  /\ wrote[p] \cap (Committed \cup orphans) = {}
  /\ \A q \in Proc \ {p} : wrote[p] \cap wrote[q] = {}
  /\ \A request \in late :
       ~IsFenced(request.head) => request.head.key \notin wrote[p]

\* A head read at the present generation is the present head; a head to be
\* swapped in at the present generation extends it.
HeldHead(p) ==
  /\ swap[p].expected <= gen
  /\ pc[p] \in {"verify", "put", "fence_walk"} => ~IsFenced(swap[p].head)
  /\ (pc[p] \in {"verify", "put", "fence_walk"} /\ swap[p].expected = gen) =>
       swap[p].head = head
  /\ pc[p] = "swap" => ~IsFenced(swap[p].head) /\ swap[p].head.key \in wrote[p]
  /\ pc[p] = "fence_swap" => IsFenced(swap[p].head)
  /\ (pc[p] \in {"swap", "fence_swap"} /\ swap[p].expected = gen) =>
       Extends(swap[p].head)

Arguments(p) ==
  /\ pc[p] \in AppendPc => call[p] \in AppendCall
  /\ pc[p] \in FencePc => call[p] \in [attempt : Attempt]

IInv ==
  /\ TypeOK
  /\ LogIsSound
  /\ LateSwapsExtend
  /\ \A p \in Proc : OwnRecords(p) /\ HeldHead(p) /\ Arguments(p)

-----------------------------------------------------------------------------
\* The log implements AppendLog: committed payloads, closed by the fence.
Log == INSTANCE AppendLog WITH
  log <- [i \in DOMAIN chain |-> records[chain[i]].payload],
  closedBy <- head.fence

LogSpec == Log!Spec
=============================================================================
