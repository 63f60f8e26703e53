----------------------- MODULE PodCommitLogReadProofs -----------------------
(***************************************************************************)
(* Proofs about what the readers of PodCommitLog are given: a replay that  *)
(* verifies, cursors, snapshots, the fence and the inventory behind it;    *)
(* and what is left of this over the store of PodCommitLogFaults, which    *)
(* serves older heads and loses records.                                   *)
(***************************************************************************)
EXTENDS PodCommitLogProofs, PodCommitLogFaults, WellFoundedInduction

-----------------------------------------------------------------------------
(* The inductive invariant *)

\* The name and the hash of position i of the log.
KeyAt(i) == IF i = 0 THEN NoKey ELSE chain[i]
ShaAt(i) == IF i = 0 THEN << >> ELSE records[chain[i]].sha

\* h (a head or a cursor) is a position of the log.
OnChain(h) ==
  /\ h.seq \in 0 .. Len(chain)
  /\ h.key = KeyAt(h.seq)
  /\ h.sha = ShaAt(h.seq)

\* Every committed record names its predecessor, by key and by hash.
Linked ==
  \A i \in 1 .. Len(chain) :
    /\ chain[i] \in DOMAIN records
    /\ records[chain[i]].seq = i
    /\ records[chain[i]].prevKey = KeyAt(i - 1)
    /\ records[chain[i]].prevSha = ShaAt(i - 1)

\* The record of h was put behind the present head.
ContinuesHead(h) ==
  /\ records[h.key].sha = h.sha
  /\ records[h.key].prevKey = head.key
  /\ records[h.key].prevSha = head.sha

LateIsLinked ==
  \A request \in late : ~IsFenced(request.head) => ContinuesHead(request.head)

\* Where a call holds a head that it has read
HoldsRead ==
  {"verify", "put", "fence_walk", "replay_walk", "replay_open", "replay_release",
   "inventory_walk"}

\* What a call holds between two requests: the head it read is a position of
\* the log, the head it is about to swap in names a record put behind such a
\* position (behind its own cursor, if it appends from a snapshot), a marker
\* names the attempt it was written for, and a replay walks towards its cursor.
CallIsLinked(p) ==
  /\ OnChain(view[p])
  /\ pc[p] \in HoldsRead => OnChain(swap[p].head)
  /\ pc[p] = "verify" => swap[p].head.seq # 0
  /\ pc[p] = "replay_walk" => view[p].seq <= swap[p].head.seq
  /\ pc[p] = "swap" => records[swap[p].head.key].sha = swap[p].head.sha
  /\ pc[p] = "swap" /\ swap[p].expected = gen => ContinuesHead(swap[p].head)
  /\ pc[p] \in {"verify", "put"} /\ call[p].snapshot =>
       PositionOf(swap[p].head) = view[p]
  /\ pc[p] = "swap" /\ call[p].snapshot =>
       /\ swap[p].head.seq = view[p].seq + 1
       /\ records[swap[p].head.key].prevKey = view[p].key
       /\ records[swap[p].head.key].prevSha = view[p].sha
  /\ pc[p] \in {"fence_swap", "fence_confirm"} => swap[p].head.fence = call[p].attempt
  /\ pc[p] \in InventoryPc => call[p].attempt \in Attempt

\* What erasers have been told holds of the closed log.
ErasersAreRight ==
  /\ FencedForOne
  /\ InventoryIsComplete
  /\ inventories # {} => IsFenced(head)

\* The invariant behind what readers see, next to IInv
RInv ==
  /\ Linked
  /\ OnChain(head)
  /\ LateIsLinked
  /\ \A p \in Proc : CallIsLinked(p)
  /\ SnapshotIsExact
  /\ ErasersAreRight

-----------------------------------------------------------------------------
(* The walk back through the log *)

\* A recursive function is known by the smallest place at which it would be
\* wrong: there is none.
LEMMA LessIsWellFounded == IsWellFoundedOn({ss \in Nat \X Nat : ss[1] < ss[2]}, Nat)
BY NatLessThanWellFounded DEF OpToRel

LEMMA LeastElement ==
  ASSUME NEW T, T \subseteq Nat, T # {}
  PROVE  \E n \in T : \A m \in T : n <= m
<1>1. PICK n \in T : \A m \in T : ~(<<m, n>> \in {ss \in Nat \X Nat : ss[1] < ss[2]})
  BY LessIsWellFounded, WFMin
<1>2. \A m \in T : ~(m < n)
  BY <1>1
<1> QED
  BY <1>2

\* The link of one record, as Links computes it
Before(l) == IF l.key \in DOMAIN records
               THEN [key |-> records[l.key].prevKey,
                     sha |-> records[l.key].prevSha]
               ELSE [key |-> NoKey, sha |-> << >>]

PlaceAt(i) == [key |-> KeyAt(i), sha |-> ShaAt(i)]

\* w satisfies the equation that defines the walk of replay_chain.
WalkSolves(w, h, floor) ==
  w = [i \in floor .. h.seq |->
        IF i = h.seq THEN [key |-> h.key, sha |-> h.sha] ELSE Before(w[i + 1])]

LEMMA LinksSolve ==
  ASSUME NEW h, NEW floor, NEW w, WalkSolves(w, h, floor)
  PROVE  WalkSolves(Links(h, floor), h, floor)
BY DEF WalkSolves, Links, Before

LEMMA LinksAreTheChain ==
  ASSUME chain \in Seq(Key), Linked, NEW h, OnChain(h), NEW floor \in 0 .. h.seq
  PROVE  Links(h, floor) = [i \in floor .. h.seq |-> PlaceAt(i)]
<1> DEFINE w == [i \in floor .. h.seq |-> PlaceAt(i)]
           link == Links(h, floor)
<1>0. h.seq \in Nat /\ floor \in Nat /\ h.seq <= Len(chain) /\ Len(chain) \in Nat
  BY DEF OnChain
<1>1. ASSUME NEW i \in floor .. h.seq, i # h.seq
      PROVE  i + 1 \in floor .. h.seq /\ Before(PlaceAt(i + 1)) = PlaceAt(i)
  <2>1. i + 1 \in 1 .. Len(chain) /\ i + 1 \in floor .. h.seq /\ i + 1 # 0 /\ (i + 1) - 1 = i
    BY <1>0, <1>1
  <2>2. KeyAt(i + 1) = chain[i + 1]
    BY <2>1 DEF KeyAt
  <2>3. /\ chain[i + 1] \in DOMAIN records
        /\ records[chain[i + 1]].prevKey = KeyAt(i)
        /\ records[chain[i + 1]].prevSha = ShaAt(i)
    BY <2>1 DEF Linked
  <2> QED
    BY <2>1, <2>2, <2>3 DEF Before, PlaceAt
<1>2. PlaceAt(h.seq) = [key |-> h.key, sha |-> h.sha]
  BY DEF OnChain, PlaceAt
<1>3. WalkSolves(w, h, floor)
  BY <1>1, <1>2 DEF WalkSolves
<1> HIDE DEF w, link
<1>4. WalkSolves(link, h, floor)
  BY <1>3, LinksSolve DEF link
<1>5. link = [i \in floor .. h.seq |->
               IF i = h.seq THEN [key |-> h.key, sha |-> h.sha] ELSE Before(link[i + 1])]
  BY <1>4 DEF WalkSolves
<1>6. ASSUME NEW j \in floor .. h.seq, link[j] # PlaceAt(j)
      PROVE  FALSE
  <2> DEFINE T == {n \in Nat : h.seq - n \in floor .. h.seq /\ link[h.seq - n] # PlaceAt(h.seq - n)}
  <2>1. h.seq - j \in T
    BY <1>0, <1>6
  <2>2. PICK n \in T : \A m \in T : n <= m
    BY <2>1, LeastElement
  <2>3. CASE n = 0
    BY <1>0, <1>2, <1>5, <2>2, <2>3
  <2>4. CASE n # 0
    <3> DEFINE i == h.seq - n
    <3>1. i \in floor .. h.seq /\ i # h.seq /\ i + 1 = h.seq - (n - 1) /\ n - 1 \in Nat
      BY <1>0, <2>2, <2>4
    <3>2. n - 1 \notin T
      BY <2>2, <3>1
    <3>3. link[i + 1] = PlaceAt(i + 1)
      BY <1>1, <3>1, <3>2
    <3>4. link[i] = Before(link[i + 1])
      BY <1>5, <3>1
    <3>5. link[i] = PlaceAt(i)
      BY <1>1, <3>1, <3>3, <3>4
    <3> QED
      BY <2>2, <3>5
  <2> QED
    BY <2>3, <2>4
<1>7. link = [i \in floor .. h.seq |-> link[i]]
  BY <1>5
<1> QED
  BY <1>6, <1>7 DEF link

\* A walk between two positions of the log verifies.
LEMMA WalkVerifies ==
  ASSUME chain \in Seq(Key), Linked, NEW h, OnChain(h),
         NEW anchor, OnChain(anchor), anchor.seq <= h.seq
  PROVE  ChainVerifies(h, anchor)
<1> DEFINE link == Links(h, anchor.seq)
<1>1. anchor.seq \in 0 .. h.seq /\ h.seq \in 0 .. Len(chain) /\ Len(chain) \in Nat
  BY DEF OnChain
<1>2. link = [i \in anchor.seq .. h.seq |-> PlaceAt(i)]
  BY <1>1, LinksAreTheChain
<1> HIDE DEF link
<1>3. ASSUME NEW i \in anchor.seq + 1 .. h.seq
      PROVE  /\ link[i].key \in DOMAIN records
             /\ records[link[i].key].seq = i
             /\ records[link[i].key].sha = link[i].sha
  <2>1. i \in 1 .. Len(chain) /\ i # 0 /\ i \in anchor.seq .. h.seq
    BY <1>1
  <2>2. link[i].key = chain[i] /\ link[i].sha = records[chain[i]].sha
    BY <1>2, <2>1 DEF PlaceAt, KeyAt, ShaAt
  <2> QED
    BY <2>1, <2>2 DEF Linked
<1>4. link[anchor.seq] = [key |-> anchor.key, sha |-> anchor.sha]
  BY <1>1, <1>2 DEF PlaceAt, OnChain
<1> QED
  BY <1>1, <1>3, <1>4 DEF ChainVerifies, RecordsVerify, link

\* w satisfies the equation by which KeysBehind collects.
CollectSolves(w, h) ==
  w = [i \in 1 .. h.seq |-> IF i = h.seq THEN h.key ELSE records[w[i + 1]].prevKey]

LEMMA KeysBehindCollects ==
  ASSUME NEW h, NEW w, CollectSolves(w, h)
  PROVE  \E key : /\ CollectSolves(key, h)
                  /\ KeysBehind(h) = {k \in DOMAIN records : \E i \in 1 .. h.seq : k = key[i]}
<1> DEFINE key == CHOOSE key : CollectSolves(key, h)
<1>1. CollectSolves(key, h)
  OBVIOUS
<1>2. KeysBehind(h) = {k \in DOMAIN records : \E i \in 1 .. h.seq : k = key[i]}
  BY DEF KeysBehind, CollectSolves
<1> QED
  BY <1>1, <1>2

LEMMA CollectIsTheChain ==
  ASSUME chain \in Seq(Key), Linked, NEW h, OnChain(h), NEW key, CollectSolves(key, h)
  PROVE  \A i \in 1 .. h.seq : key[i] = chain[i]
<1>1. h.seq \in Nat /\ h.seq <= Len(chain) /\ Len(chain) \in Nat
  BY DEF OnChain
<1>2. key = [i \in 1 .. h.seq |-> IF i = h.seq THEN h.key ELSE records[key[i + 1]].prevKey]
  BY DEF CollectSolves
<1>3. ASSUME NEW j \in 1 .. h.seq, key[j] # chain[j]
      PROVE  FALSE
  <2> DEFINE T == {n \in Nat : h.seq - n \in 1 .. h.seq /\ key[h.seq - n] # chain[h.seq - n]}
  <2>1. h.seq - j \in T
    BY <1>1, <1>3
  <2>2. PICK n \in T : \A m \in T : n <= m
    BY <2>1, LeastElement
  <2>3. CASE n = 0
    BY <1>1, <1>2, <2>2, <2>3 DEF OnChain, KeyAt
  <2>4. CASE n # 0
    <3> DEFINE i == h.seq - n
    <3>1. i \in 1 .. h.seq /\ i # h.seq /\ i + 1 = h.seq - (n - 1) /\ n - 1 \in Nat
          /\ i + 1 \in 1 .. h.seq /\ i + 1 \in 1 .. Len(chain) /\ (i + 1) - 1 = i /\ i # 0
      BY <1>1, <2>2, <2>4
    <3>2. n - 1 \notin T
      BY <2>2, <3>1
    <3>3. key[i + 1] = chain[i + 1]
      BY <3>1, <3>2
    <3>4. key[i] = records[key[i + 1]].prevKey
      BY <1>2, <3>1
    <3>5. records[chain[i + 1]].prevKey = chain[i]
      BY <3>1 DEF Linked, KeyAt
    <3> QED
      BY <2>2, <3>3, <3>4, <3>5
  <2> QED
    BY <2>3, <2>4
<1> QED
  BY <1>3

\* The inventory of a position of the log is the log up to there.
LEMMA KeysAreTheChain ==
  ASSUME chain \in Seq(Key), Linked, NEW h, OnChain(h)
  PROVE  KeysBehind(h) = {chain[i] : i \in 1 .. h.seq}
<1> DEFINE w == [i \in 1 .. h.seq |-> chain[i]]
<1>1. h.seq \in Nat /\ h.seq <= Len(chain) /\ Len(chain) \in Nat
  BY DEF OnChain
<1>2. ASSUME NEW i \in 1 .. h.seq, i # h.seq
      PROVE  i + 1 \in 1 .. h.seq /\ chain[i] = records[chain[i + 1]].prevKey
  <2>1. i + 1 \in 1 .. h.seq /\ i + 1 \in 1 .. Len(chain) /\ (i + 1) - 1 = i /\ i # 0
    BY <1>1, <1>2
  <2> QED
    BY <2>1 DEF Linked, KeyAt
<1>3. h.seq \in 1 .. h.seq => chain[h.seq] = h.key
  BY <1>1 DEF OnChain, KeyAt
<1>4. CollectSolves(w, h)
  BY <1>2, <1>3 DEF CollectSolves
<1>5. PICK key : /\ CollectSolves(key, h)
                 /\ KeysBehind(h) = {k \in DOMAIN records : \E i \in 1 .. h.seq : k = key[i]}
  BY <1>4, KeysBehindCollects
<1>6. \A i \in 1 .. h.seq : key[i] = chain[i]
  BY <1>5, CollectIsTheChain
<1>7. \A i \in 1 .. h.seq : chain[i] \in DOMAIN records
  BY <1>1 DEF Linked
<1> QED
  BY <1>5, <1>6, <1>7

-----------------------------------------------------------------------------
(* What the invariant says of the present state *)

LEMMA CommittedByIndex ==
  ASSUME chain \in Seq(Key)
  PROVE  Committed = {chain[i] : i \in 1 .. Len(chain)}
<1>1. DOMAIN chain = 1 .. Len(chain)
  OBVIOUS
<1> QED
  BY <1>1 DEF Committed

LEMMA OriginIsOnChain ==
  ASSUME chain \in Seq(Key)
  PROVE  OnChain(Origin)
<1>1. 0 \in 0 .. Len(chain)
  OBVIOUS
<1> QED
  BY <1>1 DEF OnChain, Origin, KeyAt, ShaAt

LEMMA HeadIsTheEnd ==
  ASSUME IInv, RInv
  PROVE  /\ chain \in Seq(Key)
         /\ head.seq = Len(chain)
         /\ Linked
         /\ OnChain(head)
BY DEF IInv, TypeOK, LogIsSound, RInv

LEMMA ReplaySeesTheLog ==
  ASSUME IInv, RInv
  PROVE  ReplayReturnsCommitted
<1>1. chain \in Seq(Key) /\ head.seq = Len(chain) /\ Linked /\ OnChain(head)
  BY HeadIsTheEnd
<1>2. OnChain(Origin) /\ Origin.seq <= head.seq
  BY <1>1, OriginIsOnChain DEF Origin
<1>3. ChainVerifies(head, Origin)
  BY <1>1, <1>2, WalkVerifies
<1>4. KeysBehind(head) = Committed
  BY <1>1, KeysAreTheChain, CommittedByIndex
<1>5. \A i \in DOMAIN chain : records[chain[i]].seq = i
  BY DEF IInv, LogIsSound
<1> QED
  BY <1>1, <1>3, <1>4, <1>5 DEF ReplayReturnsCommitted

LEMMA CursorsAreOnTheLog ==
  ASSUME IInv, RInv
  PROVE  CursorsAreCommitted
<1> SUFFICES ASSUME NEW p \in Proc, view[p] # Origin
             PROVE  /\ view[p].seq \in DOMAIN chain
                    /\ view[p].key = chain[view[p].seq]
                    /\ view[p].sha = records[view[p].key].sha
  BY DEF CursorsAreCommitted
<1>1. OnChain(view[p]) /\ view[p] \in Position /\ chain \in Seq(Key)
  BY DEF IInv, TypeOK, RInv, CallIsLinked
<1>2. view[p].seq # 0
  BY <1>1 DEF OnChain, KeyAt, ShaAt, Origin, Position
<1>3. view[p].seq \in DOMAIN chain
  BY <1>1, <1>2 DEF OnChain
<1> QED
  BY <1>1, <1>2, <1>3 DEF OnChain, KeyAt, ShaAt

-----------------------------------------------------------------------------
(* What a step does to the store *)

RecordsGrow ==
  \A k \in DOMAIN records : k \in DOMAIN records' /\ records'[k] = records[k]

\* Nothing is committed; a write that nobody waits for any more was made from
\* the present head.
Quiet ==
  /\ UNCHANGED <<head, gen, chain>>
  /\ RecordsGrow
  /\ \A request \in late' :
       \/ request \in late
       \/ IsFenced(request.head)
       \/ request.head.key \in DOMAIN records /\ ContinuesHead(request.head)

\* A record is committed, or the log is closed.
Commits(request) ==
  /\ request \in Swap
  /\ SwapHead(request)
  /\ Extends(request.head)
  /\ ~IsFenced(request.head) => ContinuesHead(request.head)
  /\ records' = records

StoreStep == Quiet \/ \E request \in Swap : Commits(request)

LEMMA ForgetIsQuiet ==
  ASSUME IInv, RInv, NEW p \in Proc, pc[p] \in {"swap", "fence_swap"},
         SendAndForget(p), UNCHANGED <<head, gen, records, chain>>
  PROVE  Quiet
<1>1. pc[p] = "swap" => ~IsFenced(swap[p].head) /\ swap[p].head.key \in DOMAIN records
  BY DEF IInv, HeldHead, OwnRecords
<1>2. pc[p] = "fence_swap" => IsFenced(swap[p].head)
  BY DEF IInv, HeldHead
<1>3. pc[p] = "swap" /\ swap[p].expected = gen => ContinuesHead(swap[p].head)
  BY DEF RInv, CallIsLinked
<1>4. \A request \in late' : request \in late \/ (request = swap[p] /\ swap[p].expected = gen)
  BY DEF SendAndForget
<1>5. RecordsGrow
  BY DEF RecordsGrow
<1> QED
  BY <1>1, <1>2, <1>3, <1>4, <1>5 DEF Quiet

LEMMA StoreSteps ==
  ASSUME IInv, RInv, [Next]_vars
  PROVE  StoreStep
<1>1. CASE UNCHANGED vars
  BY <1>1 DEF StoreStep, Quiet, RecordsGrow, vars, store
<1>2. CASE LateSwap
  <2>1. PICK request \in late : SwapHead(request) /\ records' = records
    BY <1>2 DEF LateSwap
  <2>2. request \in Swap /\ Extends(request.head)
    BY <2>1 DEF IInv, TypeOK, LateSwapsExtend
  <2>3. ~IsFenced(request.head) => ContinuesHead(request.head)
    BY <2>1 DEF RInv, LateIsLinked
  <2> QED
    BY <2>1, <2>2, <2>3 DEF StoreStep, Commits
<1>3. ASSUME NEW p \in Proc, pc[p] \in {"swap", "fence_swap"},
             SwapHead(swap[p]), records' = records
      PROVE  StoreStep
  <2>1. swap[p] \in Swap /\ Extends(swap[p].head) /\ swap[p].expected = gen
    BY <1>3 DEF IInv, TypeOK, HeldHead, SwapHead
  <2>2. ~IsFenced(swap[p].head) => pc[p] = "swap"
    BY <1>3 DEF IInv, HeldHead
  <2>3. ~IsFenced(swap[p].head) => ContinuesHead(swap[p].head)
    BY <2>1, <2>2 DEF RInv, CallIsLinked
  <2> QED
    BY <1>3, <2>1, <2>3 DEF StoreStep, Commits
<1>4. ASSUME NEW p \in Proc, BeginCall(p)
      PROVE  Quiet
  BY <1>4 DEF Quiet, RecordsGrow, BeginCall, BeginAppend, BeginFence, BeginReplay,
              BeginInventory, Begin, store
<1>5. ASSUME NEW p \in Proc, Unanswered(p)
      PROVE  Quiet
  BY <1>5, ForgetIsQuiet DEF Unanswered, AppendUnconfirmed, FenceUnconfirmed, LoseAnswer
<1>6. ASSUME NEW p \in Proc, Crash(p)
      PROVE  Quiet
  <2>1. CASE pc[p] \in {"swap", "fence_swap"}
    BY <1>6, <2>1, ForgetIsQuiet DEF Crash
  <2>2. CASE pc[p] \notin {"swap", "fence_swap"}
    BY <1>6, <2>2 DEF Crash, Quiet, RecordsGrow
  <2> QED
    BY <2>1, <2>2
<1>7. ASSUME NEW p \in Proc, AppendStep(p)
      PROVE  StoreStep
  <2>1. CASE AppendWins(p)
    BY <1>3, <2>1 DEF AppendWins
  <2>2. CASE AppendPut(p)
    BY <2>2 DEF AppendPut, StoreStep, Quiet, RecordsGrow
  <2> QED
    BY <1>7, <2>1, <2>2
       DEF StoreStep, Quiet, RecordsGrow, AppendStep, AppendRead, AppendRefused, AppendVerify,
           AppendTampered, AppendPutCollides, AppendLoses, ReadHead, Refuse, Retry, GiveUp, store
<1>8. ASSUME NEW p \in Proc, FenceStep(p)
      PROVE  StoreStep
  <2>1. CASE FenceWins(p)
    BY <1>3, <2>1 DEF FenceWins
  <2> QED
    BY <1>8, <2>1
       DEF StoreStep, Quiet, RecordsGrow, FenceStep, FenceRead, FenceFound, FenceWalk,
           FenceTampered, FenceLoses, FenceConfirm, FenceContradicted, Fenced, ReadHead,
           Refuse, Retry, GiveUp, store
<1>9. ASSUME NEW p \in Proc, ReplayStep(p) \/ InventoryStep(p)
      PROVE  StoreStep
  BY <1>9 DEF StoreStep, Quiet, RecordsGrow, ReplayStep, ReplayRead, ReplayRefused, ReplayWalk,
              ReplayWalkFails, ReplayOpen, ReplayPublish, InventoryStep, InventoryRead,
              InventoryRefused, InventoryWalk, ReadHead, Refuse, store
<1> QED
  BY <1>1, <1>2, <1>4, <1>5, <1>6, <1>7, <1>8, <1>9 DEF Next, Step, StoreStep

-----------------------------------------------------------------------------
(* The parts of the invariant that speak of the log *)

\* No position of the log is ever renamed.
ChainGrows ==
  /\ Len(chain') \in Nat
  /\ Len(chain) <= Len(chain')
  /\ \A i \in 1 .. Len(chain) :
       /\ chain'[i] = chain[i]
       /\ records'[chain[i]] = records[chain[i]]

LEMMA QuietKeepsTheLog ==
  ASSUME IInv, RInv, Quiet
  PROVE  ChainGrows /\ Linked' /\ OnChain(head)' /\ LateIsLinked'
<1>1. chain \in Seq(Key) /\ Linked /\ OnChain(head) /\ chain' = chain /\ head' = head
  BY HeadIsTheEnd DEF Quiet
<1>2. \A i \in 1 .. Len(chain) :
        /\ chain[i] \in DOMAIN records'
        /\ records'[chain[i]] = records[chain[i]]
  BY <1>1 DEF Linked, Quiet, RecordsGrow
<1>3. ChainGrows
  BY <1>1, <1>2 DEF ChainGrows
<1>4. \A i \in 0 .. Len(chain) : KeyAt(i)' = KeyAt(i) /\ ShaAt(i)' = ShaAt(i)
  BY <1>1, <1>2 DEF KeyAt, ShaAt
<1>5. Linked'
  <2> SUFFICES ASSUME NEW i \in 1 .. Len(chain)
               PROVE  /\ chain[i] \in DOMAIN records'
                      /\ records'[chain[i]].seq = i
                      /\ records'[chain[i]].prevKey = KeyAt(i - 1)'
                      /\ records'[chain[i]].prevSha = ShaAt(i - 1)'
    BY <1>1 DEF Linked
  <2>1. i - 1 \in 0 .. Len(chain)
    BY <1>1
  <2> QED
    BY <1>1, <1>2, <1>4, <2>1 DEF Linked
<1>6. OnChain(head)'
  BY <1>1, <1>2 DEF OnChain, KeyAt, ShaAt
<1>7. LateIsLinked'
  <2> SUFFICES ASSUME NEW request \in late', ~IsFenced(request.head)
               PROVE  /\ records'[request.head.key].sha = request.head.sha
                      /\ records'[request.head.key].prevKey = head'.key
                      /\ records'[request.head.key].prevSha = head'.sha
    BY DEF LateIsLinked, ContinuesHead, IsFenced
  <2>1. request.head.key \in DOMAIN records /\ ContinuesHead(request.head)
    BY DEF Quiet, IInv, LateSwapsExtend, Extends, RInv, LateIsLinked
  <2> QED
    BY <1>1, <2>1 DEF Quiet, RecordsGrow, ContinuesHead
<1> QED
  BY <1>3, <1>5, <1>6, <1>7

LEMMA CommitKeepsTheLog ==
  ASSUME IInv, RInv, NEW request \in Swap, Commits(request)
  PROVE  ChainGrows /\ Linked' /\ OnChain(head)' /\ LateIsLinked'
<1>1. chain \in Seq(Key) /\ Linked /\ OnChain(head) /\ head.seq = Len(chain) /\ records' = records
  BY HeadIsTheEnd DEF Commits
<1>2. head' = request.head /\ late' = {}
  BY DEF Commits, SwapHead
<1>3. LateIsLinked'
  BY <1>2 DEF LateIsLinked
<1>4. CASE IsFenced(request.head)
  <2>1. chain' = chain
    BY <1>4 DEF Commits, SwapHead
  <2>2. head'.seq = head.seq /\ head'.key = head.key /\ head'.sha = head.sha
    BY <1>2, <1>4 DEF Commits, Extends, PositionOf
  <2>3. ChainGrows
    BY <1>1, <2>1 DEF ChainGrows
  <2>4. Linked'
    BY <1>1, <2>1 DEF Linked, KeyAt, ShaAt
  <2>5. OnChain(head)'
    BY <1>1, <2>1, <2>2 DEF OnChain, KeyAt, ShaAt
  <2> QED
    BY <1>3, <2>3, <2>4, <2>5
<1>5. CASE ~IsFenced(request.head)
  <2> DEFINE key == request.head.key
             end == Len(chain) + 1
  <2>1. /\ key \in DOMAIN records /\ key \in Key
        /\ request.head.seq = end
        /\ records[key].seq = end
        /\ records[key].sha = request.head.sha
        /\ records[key].prevKey = head.key
        /\ records[key].prevSha = head.sha
    BY <1>1, <1>5 DEF Commits, Extends, ContinuesHead, IInv, TypeOK
  <2>2. chain' = Append(chain, key)
    BY <1>5 DEF Commits, SwapHead
  <2>3. /\ Len(chain') = end /\ end \in Nat /\ Len(chain) \in Nat
        /\ chain'[end] = key
        /\ \A i \in 1 .. Len(chain) : chain'[i] = chain[i]
    BY <1>1, <2>1, <2>2
  <2> HIDE DEF key, end
  <2>4. Len(chain) = end - 1
    BY <2>3 DEF end
  <2>5. ChainGrows
    BY <1>1, <2>3, <2>4 DEF ChainGrows
  <2>6. \A i \in 0 .. Len(chain) : KeyAt(i)' = KeyAt(i) /\ ShaAt(i)' = ShaAt(i)
    BY <1>1, <2>3 DEF KeyAt, ShaAt
  <2>7. KeyAt(Len(chain)) = head.key /\ ShaAt(Len(chain)) = head.sha
    BY <1>1 DEF OnChain
  <2>8. Linked'
    <3> SUFFICES ASSUME NEW i \in 1 .. end
                 PROVE  /\ chain'[i] \in DOMAIN records
                        /\ records[chain'[i]].seq = i
                        /\ records[chain'[i]].prevKey = KeyAt(i - 1)'
                        /\ records[chain'[i]].prevSha = ShaAt(i - 1)'
      BY <1>1, <2>3 DEF Linked
    <3>1. i - 1 \in 0 .. Len(chain)
      BY <2>3, <2>4
    <3>2. CASE i = end
      <4>1. i - 1 = Len(chain)
        BY <2>3, <2>4, <3>2
      <4>2. KeyAt(i - 1)' = head.key /\ ShaAt(i - 1)' = head.sha
        BY <2>6, <2>7, <3>1, <4>1
      <4> QED
        BY <2>1, <2>3, <3>2, <4>2
    <3>3. CASE i # end
      <4>1. i \in 1 .. Len(chain)
        BY <2>3, <2>4, <3>3
      <4> QED
        BY <1>1, <2>3, <2>6, <3>1, <4>1 DEF Linked
    <3> QED
      BY <3>2, <3>3
  <2>9. OnChain(head)'
    <3>1. head'.seq = end /\ head'.key = key /\ head'.sha = records[key].sha /\ end # 0
      BY <1>2, <2>1, <2>3, <2>4 DEF key
    <3> QED
      BY <1>1, <2>3, <3>1 DEF OnChain, KeyAt, ShaAt
  <2> QED
    BY <1>3, <2>5, <2>8, <2>9
<1> QED
  BY <1>4, <1>5

LEMMA TheLogIsKept ==
  ASSUME IInv, RInv, StoreStep
  PROVE  ChainGrows /\ Linked' /\ OnChain(head)' /\ LateIsLinked'
BY QuietKeepsTheLog, CommitKeepsTheLog DEF StoreStep

\* A position of the log stays one.
LEMMA PositionsStay ==
  ASSUME IInv, RInv, ChainGrows, NEW h, OnChain(h)
  PROVE  /\ h.seq \in 0 .. Len(chain')
         /\ h.key = IF h.seq = 0 THEN NoKey ELSE chain'[h.seq]
         /\ h.sha = IF h.seq = 0 THEN << >> ELSE records'[chain'[h.seq]].sha
<1>1. chain \in Seq(Key)
  BY HeadIsTheEnd
<1>2. CASE h.seq = 0
  BY <1>1, <1>2 DEF OnChain, KeyAt, ShaAt, ChainGrows
<1>3. CASE h.seq # 0
  <2>1. h.seq \in 1 .. Len(chain)
    BY <1>1, <1>3 DEF OnChain
  <2> QED
    BY <1>1, <1>3, <2>1 DEF OnChain, KeyAt, ShaAt, ChainGrows
<1> QED
  BY <1>2, <1>3

-----------------------------------------------------------------------------
(* The part of the invariant that speaks of each call *)

\* A call on which nothing happens, whatever happens to the log
Rests(p) ==
  /\ pc'[p] = pc[p]
  /\ call'[p] = call[p]
  /\ swap'[p] = swap[p]
  /\ view'[p] = view[p]

LEMMA RestingCallStaysLinked ==
  ASSUME IInv, RInv, StoreStep, NEW p \in Proc, Rests(p)
  PROVE  CallIsLinked(p)'
<1>1. ChainGrows
  BY TheLogIsKept
<1>2. CallIsLinked(p) /\ HeldHead(p) /\ OwnRecords(p)
  BY DEF RInv, IInv
<1>3. OnChain(view[p])'
  BY <1>1, <1>2, PositionsStay DEF Rests, CallIsLinked, OnChain, KeyAt, ShaAt
<1>4. pc'[p] \in HoldsRead => OnChain(swap[p].head)'
  <2> SUFFICES ASSUME pc'[p] \in HoldsRead
               PROVE  OnChain(swap[p].head)'
    OBVIOUS
  <2>1. OnChain(swap[p].head)
    BY <1>2 DEF CallIsLinked, Rests, HoldsRead
  <2> QED
    BY <1>1, <2>1, PositionsStay DEF Rests, OnChain, KeyAt, ShaAt
<1>5. pc'[p] = "swap" =>
        /\ swap[p].head.key \in DOMAIN records
        /\ records'[swap[p].head.key] = records[swap[p].head.key]
  BY <1>2 DEF Rests, HeldHead, OwnRecords, StoreStep, Quiet, RecordsGrow, Commits
<1>6. pc'[p] = "swap" => records'[swap'[p].head.key].sha = swap'[p].head.sha
  BY <1>2, <1>5 DEF Rests, CallIsLinked
<1>7. pc'[p] = "swap" /\ swap'[p].expected = gen' => ContinuesHead(swap[p].head)'
  <2>1. CASE Quiet
    BY <1>2, <1>5, <2>1 DEF Rests, CallIsLinked, Quiet, ContinuesHead
  <2>2. CASE \E request \in Swap : Commits(request)
    <3>1. gen' = gen + 1 /\ gen \in Nat /\ swap[p].expected <= gen /\ swap[p].expected \in Nat
      BY <1>2, <2>2 DEF Commits, SwapHead, HeldHead, IInv, TypeOK, Swap
    <3> QED
      BY <3>1 DEF Rests
  <2> QED
    BY <2>1, <2>2 DEF StoreStep
<1>8. /\ pc'[p] = "verify" => swap'[p].head.seq # 0
      /\ pc'[p] = "replay_walk" => view'[p].seq <= swap'[p].head.seq
      /\ pc'[p] \in {"verify", "put"} /\ call'[p].snapshot =>
           PositionOf(swap'[p].head) = view'[p]
      /\ pc'[p] \in {"fence_swap", "fence_confirm"} => swap'[p].head.fence = call'[p].attempt
      /\ pc'[p] \in InventoryPc => call'[p].attempt \in Attempt
  BY <1>2 DEF Rests, CallIsLinked
<1>9. pc'[p] = "swap" /\ call'[p].snapshot =>
        /\ swap'[p].head.seq = view'[p].seq + 1
        /\ records'[swap'[p].head.key].prevKey = view'[p].key
        /\ records'[swap'[p].head.key].prevSha = view'[p].sha
  BY <1>2, <1>5 DEF Rests, CallIsLinked
<1> QED
  BY <1>3, <1>4, <1>6, <1>7, <1>8, <1>9 DEF CallIsLinked, PositionOf

\* A call that holds nothing: it has ended, or is about to read the head.
LEMMA FreshCallIsLinked ==
  ASSUME NEW p \in Proc, OnChain(view[p])',
         pc'[p] \in {"idle", "read", "fence_read", "replay_read", "inventory_read"},
         pc'[p] = "inventory_read" => call'[p].attempt \in Attempt
  PROVE  CallIsLinked(p)'
BY DEF CallIsLinked, HoldsRead, InventoryPc

LEMMA CursorStays ==
  ASSUME IInv, RInv, StoreStep, NEW p \in Proc, view'[p] = view[p]
  PROVE  OnChain(view[p])'
<1>1. ChainGrows /\ OnChain(view[p])
  BY TheLogIsKept DEF RInv, CallIsLinked
<1> QED
  BY <1>1, PositionsStay DEF OnChain, KeyAt, ShaAt

\* The call goes on to a step that still holds the head that was read.
LEMMA ReadHeadStaysOnChain ==
  ASSUME IInv, RInv, StoreStep, NEW p \in Proc, swap'[p].head = swap[p].head,
         OnChain(swap[p].head)
  PROVE  OnChain(swap[p].head)'
<1>1. ChainGrows
  BY TheLogIsKept
<1> QED
  BY <1>1, PositionsStay DEF OnChain, KeyAt, ShaAt

LEMMA FinishEndsCall ==
  ASSUME TypeOK, NEW p \in Proc, Finish(p)
  PROVE  /\ pc'[p] = "idle"
         /\ \A q \in Proc \ {p} :
              pc'[q] = pc[q] /\ call'[q] = call[q] /\ swap'[q] = swap[q]
BY DEF TypeOK, Finish, Goto

\* A call returns or raises, and its cursor stays.
LEMMA EndKeepsCallsLinked ==
  ASSUME IInv, RInv, StoreStep, NEW p \in Proc, Finish(p), view' = view
  PROVE  \A q \in Proc : CallIsLinked(q)'
<1>1. CallIsLinked(p)'
  BY FinishEndsCall, CursorStays, FreshCallIsLinked DEF IInv
<1>2. ASSUME NEW q \in Proc \ {p} PROVE CallIsLinked(q)'
  BY FinishEndsCall, RestingCallStaysLinked DEF IInv, Rests
<1> QED
  BY <1>1, <1>2

\* Only the call of p moves.
Alone(p) == \A q \in Proc \ {p} : Rests(q)

LEMMA AloneSuffices ==
  ASSUME IInv, RInv, StoreStep, NEW p \in Proc, Alone(p), CallIsLinked(p)'
  PROVE  \A q \in Proc : CallIsLinked(q)'
BY RestingCallStaysLinked DEF Alone

LEMMA RefuseKeepsCallsLinked ==
  ASSUME IInv, RInv, StoreStep, NEW p \in Proc, Refuse(p)
  PROVE  \A q \in Proc : CallIsLinked(q)'
BY EndKeepsCallsLinked DEF Refuse

LEMMA RetryKeepsCallsLinked ==
  ASSUME IInv, RInv, StoreStep, NEW p \in Proc, NEW label \in {"read", "fence_read"},
         Retry(p, label)
  PROVE  \A q \in Proc : CallIsLinked(q)'
<1>1. Alone(p) /\ pc'[p] = label /\ view'[p] = view[p]
  BY DEF IInv, TypeOK, Retry, Goto, Alone, Rests
<1>2. CallIsLinked(p)'
  BY <1>1, CursorStays, FreshCallIsLinked
<1> QED
  BY <1>1, <1>2, AloneSuffices

LEMMA ReadHeadKeepsCallsLinked ==
  ASSUME IInv, RInv, StoreStep, NEW p \in Proc, NEW label \in HoldsRead,
         ReadHead(p, label),
         label \in {"verify", "put"} /\ call[p].snapshot => head.seq = view[p].seq,
         label = "verify" => head.seq # 0,
         label = "inventory_walk" => pc[p] = "inventory_read"
  PROVE  \A q \in Proc : CallIsLinked(q)'
<1>1. /\ Alone(p) /\ pc'[p] = label /\ view'[p] = view[p] /\ call'[p] = call[p]
      /\ swap'[p] = [expected |-> gen, head |-> head]
      /\ UNCHANGED <<head, chain, records>>
  BY DEF IInv, TypeOK, ReadHead, Goto, Alone, Rests, store
<1>2. OnChain(view[p]) /\ OnChain(head) /\ view[p] \in Position /\ head \in HeadFile
  BY DEF RInv, CallIsLinked, IInv, TypeOK
<1>3. OnChain(view[p])' /\ OnChain(swap[p].head)'
  BY <1>1, <1>2 DEF OnChain, KeyAt, ShaAt
<1>4. head.seq = view[p].seq => PositionOf(head) = view[p]
  BY <1>2 DEF OnChain, PositionOf, Position
<1>5. view[p].seq <= head.seq
  BY <1>2, HeadIsTheEnd DEF OnChain
<1>6. label = "inventory_walk" => call[p].attempt \in Attempt
  BY DEF RInv, CallIsLinked, InventoryPc
<1> QED
  <2>1. CallIsLinked(p)'
    BY <1>1, <1>3, <1>4, <1>5, <1>6 DEF CallIsLinked, HoldsRead, InventoryPc, PositionOf
  <2> QED
    BY <1>1, <2>1, AloneSuffices

LEMMA AppendPutKeepsCallsLinked ==
  ASSUME IInv, RInv, StoreStep, NEW p \in Proc, AppendPut(p)
  PROVE  \A q \in Proc : CallIsLinked(q)'
<1> DEFINE record == RecordAfter(swap[p].head, call[p].payload)
<1>1. PICK token \in Token :
        LET key == <<record.seq, token>>
        IN  /\ pc[p] = "put"
            /\ key \notin DOMAIN records
            /\ records' = [k \in DOMAIN records \cup {key} |->
                             IF k = key THEN record ELSE records[k]]
            /\ WillSwapIn(p, HeadOf(key, record))
            /\ wrote' = [wrote EXCEPT ![p] = @ \cup {key}]
            /\ Goto(p, "swap")
            /\ UNCHANGED <<head, gen, late, call, tries, view, chain, results>>
  BY DEF AppendPut
<1> DEFINE key == <<record.seq, token>>
<1>2. /\ Alone(p) /\ pc'[p] = "swap" /\ view'[p] = view[p] /\ call'[p] = call[p]
      /\ swap'[p] = [expected |-> swap[p].expected, head |-> HeadOf(key, record)]
      /\ gen' = gen /\ head' = head
  BY <1>1 DEF IInv, TypeOK, WillSwapIn, Goto, Alone, Rests
<1>3. records'[key] = record
  BY <1>1
<1>4. /\ record.seq = swap[p].head.seq + 1
      /\ record.prevKey = swap[p].head.key
      /\ record.prevSha = swap[p].head.sha
      /\ HeadOf(key, record).key = key
      /\ HeadOf(key, record).seq = record.seq
      /\ HeadOf(key, record).sha = record.sha
  BY DEF RecordAfter, HeadOf
<1> HIDE DEF record, key
<1>5. swap[p].expected = gen => swap[p].head = head
  BY <1>1 DEF IInv, HeldHead
<1>6. call[p].snapshot => PositionOf(swap[p].head) = view[p]
  BY <1>1 DEF RInv, CallIsLinked
<1>7. call[p].snapshot =>
        /\ swap[p].head.seq = view[p].seq
        /\ swap[p].head.key = view[p].key
        /\ swap[p].head.sha = view[p].sha
  BY <1>6 DEF PositionOf
<1>8. OnChain(view[p])'
  BY <1>2, CursorStays
<1>9. ContinuesHead(swap[p].head)' \/ swap'[p].expected # gen'
  BY <1>2, <1>3, <1>4, <1>5 DEF ContinuesHead
<1>10. CallIsLinked(p)'
  BY <1>2, <1>3, <1>4, <1>7, <1>8, <1>9 DEF CallIsLinked, HoldsRead, InventoryPc
<1> QED
  BY <1>2, <1>10, AloneSuffices

LEMMA AppendStepKeepsCallsLinked ==
  ASSUME IInv, RInv, StoreStep, NEW p \in Proc, AppendStep(p)
  PROVE  \A q \in Proc : CallIsLinked(q)'
<1>1. CASE AppendRead(p)
  BY <1>1, ReadHeadKeepsCallsLinked DEF AppendRead, AppendStale, HoldsRead
<1>2. CASE AppendRefused(p)
  BY <1>2, RefuseKeepsCallsLinked DEF AppendRefused
<1>3. CASE AppendVerify(p)
  <2>1. /\ Alone(p) /\ pc'[p] = "put" /\ view'[p] = view[p] /\ call'[p] = call[p]
        /\ swap'[p] = swap[p] /\ pc[p] = "verify"
    BY <1>3 DEF IInv, TypeOK, AppendVerify, Goto, Alone, Rests
  <2>2. OnChain(swap[p].head) /\ (call[p].snapshot => PositionOf(swap[p].head) = view[p])
    BY <2>1 DEF RInv, CallIsLinked, HoldsRead
  <2>3. OnChain(view[p])' /\ OnChain(swap[p].head)'
    BY <2>1, <2>2, CursorStays, ReadHeadStaysOnChain
  <2>4. CallIsLinked(p)'
    BY <2>1, <2>2, <2>3 DEF CallIsLinked, HoldsRead, InventoryPc, PositionOf
  <2> QED
    BY <2>1, <2>4, AloneSuffices
<1>4. CASE AppendTampered(p)
  BY <1>4, RefuseKeepsCallsLinked DEF AppendTampered
<1>5. CASE AppendPut(p)
  BY <1>5, AppendPutKeepsCallsLinked
<1>6. CASE AppendPutCollides(p)
  BY <1>6, RefuseKeepsCallsLinked DEF AppendPutCollides
<1>7. CASE AppendWins(p)
  BY <1>7, EndKeepsCallsLinked DEF AppendWins
<1>8. CASE AppendLoses(p)
  BY <1>8, RetryKeepsCallsLinked, RefuseKeepsCallsLinked DEF AppendLoses, GiveUp
<1> QED
  BY <1>1, <1>2, <1>3, <1>4, <1>5, <1>6, <1>7, <1>8 DEF AppendStep

LEMMA FenceStepKeepsCallsLinked ==
  ASSUME IInv, RInv, StoreStep, NEW p \in Proc, FenceStep(p)
  PROVE  \A q \in Proc : CallIsLinked(q)'
<1>1. CASE FenceRead(p)
  BY <1>1, ReadHeadKeepsCallsLinked DEF FenceRead, HoldsRead
<1>2. CASE FenceFound(p)
  BY <1>2, RefuseKeepsCallsLinked, EndKeepsCallsLinked DEF FenceFound, Fenced
<1>3. CASE FenceWalk(p)
  <2>1. /\ Alone(p) /\ pc'[p] = "fence_swap" /\ view'[p] = view[p] /\ call'[p] = call[p]
        /\ swap'[p].head = MarkerOver(swap[p].head, call[p].attempt)
    BY <1>3 DEF IInv, TypeOK, FenceWalk, WillSwapIn, Goto, Alone, Rests
  <2>2. swap'[p].head.fence = call'[p].attempt
    BY <2>1 DEF MarkerOver
  <2>3. CallIsLinked(p)'
    BY <2>1, <2>2, CursorStays DEF CallIsLinked, HoldsRead, InventoryPc
  <2> QED
    BY <2>1, <2>3, AloneSuffices
<1>4. CASE FenceTampered(p)
  BY <1>4, RefuseKeepsCallsLinked DEF FenceTampered
<1>5. CASE FenceWins(p)
  <2>1. /\ Alone(p) /\ pc[p] = "fence_swap" /\ pc'[p] = "fence_confirm"
        /\ view'[p] = view[p] /\ call'[p] = call[p] /\ swap'[p] = swap[p]
    BY <1>5 DEF IInv, TypeOK, FenceWins, Goto, Alone, Rests
  <2>2. swap[p].head.fence = call[p].attempt
    BY <2>1 DEF RInv, CallIsLinked
  <2>3. CallIsLinked(p)'
    BY <2>1, <2>2, CursorStays DEF CallIsLinked, HoldsRead, InventoryPc
  <2> QED
    BY <2>1, <2>3, AloneSuffices
<1>6. CASE FenceLoses(p)
  BY <1>6, RetryKeepsCallsLinked, RefuseKeepsCallsLinked DEF FenceLoses, GiveUp
<1>7. CASE FenceConfirm(p)
  BY <1>7, EndKeepsCallsLinked DEF FenceConfirm, Fenced
<1>8. CASE FenceContradicted(p)
  BY <1>8, RefuseKeepsCallsLinked DEF FenceContradicted
<1> QED
  BY <1>1, <1>2, <1>3, <1>4, <1>5, <1>6, <1>7, <1>8 DEF FenceStep

LEMMA ReplayStepKeepsCallsLinked ==
  ASSUME IInv, RInv, StoreStep, NEW p \in Proc, ReplayStep(p)
  PROVE  \A q \in Proc : CallIsLinked(q)'
<1>1. CASE ReplayRead(p)
  BY <1>1, ReadHeadKeepsCallsLinked DEF ReplayRead, HoldsRead
<1>2. CASE ReplayRefused(p)
  BY <1>2, RefuseKeepsCallsLinked DEF ReplayRefused
<1>3. CASE ReplayWalk(p)
  <2>1. /\ Alone(p) /\ pc[p] = "replay_walk" /\ pc'[p] = "replay_open"
        /\ view'[p] = view[p] /\ swap'[p] = swap[p]
    BY <1>3 DEF IInv, TypeOK, ReplayWalk, Goto, Alone, Rests
  <2>2. OnChain(swap[p].head)
    BY <2>1 DEF RInv, CallIsLinked, HoldsRead
  <2>3. OnChain(view[p])' /\ OnChain(swap[p].head)'
    BY <2>1, <2>2, CursorStays, ReadHeadStaysOnChain
  <2>4. CallIsLinked(p)'
    BY <2>1, <2>3 DEF CallIsLinked, InventoryPc
  <2> QED
    BY <2>1, <2>4, AloneSuffices
<1>4. CASE ReplayWalkFails(p)
  BY <1>4, RefuseKeepsCallsLinked DEF ReplayWalkFails
<1>5. CASE ReplayPublish(p)
  <2>1. /\ Finish(p) /\ pc[p] = "replay_release"
        /\ view' = [view EXCEPT ![p] = PositionOf(swap[p].head)]
        /\ chain' = chain /\ records' = records
    BY <1>5 DEF ReplayPublish, store
  <2>2. OnChain(swap[p].head)
    BY <2>1 DEF RInv, CallIsLinked, HoldsRead
  <2>3. view'[p] = PositionOf(swap[p].head)
    BY <2>1 DEF IInv, TypeOK
  <2>4. OnChain(view[p])'
    BY <2>1, <2>2, <2>3 DEF OnChain, KeyAt, ShaAt, PositionOf
  <2>5. CallIsLinked(p)'
    BY <2>1, <2>4, FinishEndsCall, FreshCallIsLinked DEF IInv
  <2>6. Alone(p)
    BY <2>1, FinishEndsCall DEF IInv, TypeOK, Alone, Rests
  <2> QED
    BY <2>5, <2>6, AloneSuffices
<1>6. CASE ReplayOpen(p)
  <2>1. /\ Alone(p) /\ pc[p] = "replay_open" /\ pc'[p] = "replay_release"
        /\ view'[p] = view[p] /\ swap'[p] = swap[p]
    BY <1>6 DEF IInv, TypeOK, ReplayOpen, Goto, Alone, Rests
  <2>2. OnChain(swap[p].head)
    BY <2>1 DEF RInv, CallIsLinked, HoldsRead
  <2>3. OnChain(view[p])' /\ OnChain(swap[p].head)'
    BY <2>1, <2>2, CursorStays, ReadHeadStaysOnChain
  <2>4. CallIsLinked(p)'
    BY <2>1, <2>3 DEF CallIsLinked, InventoryPc
  <2> QED
    BY <2>1, <2>4, AloneSuffices
<1> QED
  BY <1>1, <1>2, <1>3, <1>4, <1>5, <1>6 DEF ReplayStep

LEMMA InventoryStepKeepsCallsLinked ==
  ASSUME IInv, RInv, StoreStep, NEW p \in Proc, InventoryStep(p)
  PROVE  \A q \in Proc : CallIsLinked(q)'
<1>1. CASE InventoryRead(p)
  BY <1>1, ReadHeadKeepsCallsLinked DEF InventoryRead, HoldsRead
<1>2. CASE InventoryRefused(p)
  BY <1>2, RefuseKeepsCallsLinked DEF InventoryRefused
<1>3. CASE InventoryWalk(p)
  BY <1>3, EndKeepsCallsLinked DEF InventoryWalk
<1> QED
  BY <1>1, <1>2, <1>3 DEF InventoryStep

LEMMA BeginKeepsCallsLinked ==
  ASSUME IInv, RInv, StoreStep, NEW p \in Proc, NEW label, NEW arguments,
         Begin(p, label, arguments),
         label \in {"read", "fence_read", "replay_read", "inventory_read"},
         label = "inventory_read" => arguments.attempt \in Attempt
  PROVE  \A q \in Proc : CallIsLinked(q)'
<1>1. Alone(p) /\ pc'[p] = label /\ call'[p] = arguments /\ view'[p] = view[p]
  BY DEF IInv, TypeOK, Begin, Goto, Alone, Rests
<1>2. CallIsLinked(p)'
  BY <1>1, CursorStays, FreshCallIsLinked
<1> QED
  BY <1>1, <1>2, AloneSuffices

LEMMA BeginCallKeepsCallsLinked ==
  ASSUME IInv, RInv, StoreStep, NEW p \in Proc, BeginCall(p)
  PROVE  \A q \in Proc : CallIsLinked(q)'
<1>1. CASE BeginAppend(p)
  BY <1>1, BeginKeepsCallsLinked DEF BeginAppend
<1>2. CASE BeginFence(p)
  BY <1>2, BeginKeepsCallsLinked DEF BeginFence
<1>3. CASE BeginReplay(p)
  BY <1>3, BeginKeepsCallsLinked DEF BeginReplay
<1>4. CASE BeginInventory(p)
  BY <1>4, BeginKeepsCallsLinked DEF BeginInventory
<1> QED
  BY <1>1, <1>2, <1>3, <1>4 DEF BeginCall

LEMMA CrashKeepsCallsLinked ==
  ASSUME IInv, IInv', RInv, StoreStep, NEW p \in Proc, Crash(p)
  PROVE  \A q \in Proc : CallIsLinked(q)'
<1>1. view'[p] = Origin
  BY DEF IInv, TypeOK, Crash
<1>2. OnChain(view[p])'
  <2>1. chain' \in Seq(Key)
    BY DEF IInv, TypeOK
  <2>2. 0 \in 0 .. Len(chain')
    BY <2>1
  <2> QED
    BY <1>1, <2>2 DEF OnChain, Origin, KeyAt, ShaAt
<1>3. CallIsLinked(p)'
  BY <1>2, FinishEndsCall, FreshCallIsLinked DEF IInv, Crash
<1>4. Alone(p)
  BY FinishEndsCall DEF IInv, TypeOK, Crash, Alone, Rests
<1> QED
  BY <1>3, <1>4, AloneSuffices

LEMMA CallsStayLinked ==
  ASSUME IInv, IInv', RInv, [Next]_vars
  PROVE  \A q \in Proc : CallIsLinked(q)'
<1> StoreStep
  BY StoreSteps
<1>1. CASE UNCHANGED vars
  BY <1>1, RestingCallStaysLinked DEF vars, local, Rests
<1>2. CASE LateSwap
  BY <1>2, RestingCallStaysLinked DEF LateSwap, local, Rests
<1>3. CASE \E p \in Proc : BeginCall(p) \/ Step(p) \/ Unanswered(p) \/ Crash(p)
  <2>1. PICK p \in Proc : BeginCall(p) \/ Step(p) \/ Unanswered(p) \/ Crash(p)
    BY <1>3
  <2>2. CASE BeginCall(p)
    BY <2>2, BeginCallKeepsCallsLinked
  <2>3. CASE Step(p)
    BY <2>3, AppendStepKeepsCallsLinked, FenceStepKeepsCallsLinked,
       ReplayStepKeepsCallsLinked, InventoryStepKeepsCallsLinked DEF Step
  <2>4. CASE Unanswered(p)
    BY <2>4, EndKeepsCallsLinked
       DEF Unanswered, AppendUnconfirmed, FenceUnconfirmed, LoseAnswer
  <2>5. CASE Crash(p)
    BY <2>5, CrashKeepsCallsLinked
  <2> QED
    BY <2>1, <2>2, <2>3, <2>4, <2>5
<1> QED
  BY <1>1, <1>2, <1>3 DEF Next

-----------------------------------------------------------------------------
(* The parts of the invariant that speak of what callers were told *)

LEMMA AcksComeFromWins ==
  ASSUME [Next]_vars
  PROVE  acked' = acked \/ \E p \in Proc : AppendWins(p)
<1>1. ASSUME NEW p \in Proc, AppendStep(p), ~AppendWins(p)
      PROVE  acked' = acked
  BY <1>1 DEF AppendStep, AppendRead, AppendRefused, AppendVerify, AppendTampered, AppendPut,
              AppendPutCollides, AppendLoses, ReadHead, Refuse, Retry, GiveUp, results
<1>2. ASSUME NEW p \in Proc, FenceStep(p)
      PROVE  acked' = acked
  BY <1>2 DEF FenceStep, FenceRead, FenceFound, FenceWalk, FenceTampered, FenceWins, FenceLoses,
              FenceConfirm, FenceContradicted, Fenced, ReadHead, Refuse, Retry, GiveUp, results
<1>3. ASSUME NEW p \in Proc, ReplayStep(p) \/ InventoryStep(p)
      PROVE  acked' = acked
  BY <1>3 DEF ReplayStep, ReplayRead, ReplayRefused, ReplayWalk, ReplayWalkFails, ReplayOpen,
              ReplayPublish, InventoryStep, InventoryRead, InventoryRefused, InventoryWalk,
              ReadHead, Refuse, results
<1>4. ASSUME NEW p \in Proc, BeginCall(p) \/ Unanswered(p) \/ Crash(p)
      PROVE  acked' = acked
  BY <1>4 DEF BeginCall, BeginAppend, BeginFence, BeginReplay, BeginInventory, Begin,
              Unanswered, AppendUnconfirmed, FenceUnconfirmed, LoseAnswer, Crash, results
<1>5. LateSwap \/ UNCHANGED vars => acked' = acked
  BY DEF LateSwap, vars, results
<1> QED
  BY <1>1, <1>2, <1>3, <1>4, <1>5 DEF Next, Step

LEMMA SnapshotsStayExact ==
  ASSUME IInv, RInv, [Next]_vars
  PROVE  SnapshotIsExact'
<1> SUFFICES ASSUME NEW a \in acked', a.snapshot
             PROVE  /\ a.seq = a.base.seq + 1
                    /\ records'[a.key].prevKey = a.base.key
                    /\ records'[a.key].prevSha = a.base.sha
  BY DEF SnapshotIsExact
<1>1. CASE a \in acked
  <2>1. a.key \in DOMAIN records
    BY <1>1 DEF IInv, LogIsSound, AckedStaysCommitted
  <2>2. records'[a.key] = records[a.key]
    BY <2>1, StoreSteps DEF StoreStep, Quiet, RecordsGrow, Commits
  <2> QED
    BY <1>1, <2>2 DEF RInv, SnapshotIsExact
<1>2. CASE a \notin acked
  <2>1. PICK p \in Proc : AppendWins(p)
    BY <1>2, AcksComeFromWins
  <2>2. /\ a = [key |-> swap[p].head.key, seq |-> swap[p].head.seq,
                snapshot |-> call[p].snapshot, base |-> view[p]]
        /\ records' = records /\ pc[p] = "swap"
    BY <1>2, <2>1 DEF AppendWins
  <2>3. call[p].snapshot => /\ swap[p].head.seq = view[p].seq + 1
                            /\ records[swap[p].head.key].prevKey = view[p].key
                            /\ records[swap[p].head.key].prevSha = view[p].sha
    BY <2>2 DEF RInv, CallIsLinked
  <2> QED
    BY <2>2, <2>3
<1> QED
  BY <1>1, <1>2

\* Whoever is told something about the closed log is told so while the log is
\* closed, and is told what is true.
ErasersAreTold ==
  /\ \A attempt \in fencedFor' : attempt \in fencedFor \/ head.fence = attempt
  /\ \A keys \in inventories' :
       keys \in inventories \/ (IsFenced(head) /\ keys = Committed)

LEMMA ErasersAreToldTheTruth ==
  ASSUME IInv, RInv, [Next]_vars
  PROVE  ErasersAreTold
<1>1. ASSUME NEW p \in Proc, AppendStep(p)
      PROVE  UNCHANGED <<fencedFor, inventories>>
  BY <1>1 DEF AppendStep, AppendRead, AppendRefused, AppendVerify, AppendTampered, AppendPut,
              AppendPutCollides, AppendWins, AppendLoses, ReadHead, Refuse, Retry, GiveUp, results
<1>2. ASSUME NEW p \in Proc, FenceStep(p)
      PROVE  ErasersAreTold
  <2>1. CASE FenceFound(p)
    BY <2>1 DEF FenceFound, Fenced, Refuse, ErasersAreTold
  <2>2. CASE FenceConfirm(p)
    <3>1. swap[p].head.fence = call[p].attempt
      BY <2>2 DEF FenceConfirm, RInv, CallIsLinked
    <3> QED
      BY <2>2, <3>1 DEF FenceConfirm, Fenced, ErasersAreTold
  <2>3. CASE ~FenceFound(p) /\ ~FenceConfirm(p)
    BY <1>2, <2>3
       DEF FenceStep, FenceRead, FenceWalk, FenceTampered, FenceWins, FenceLoses,
           FenceContradicted, ReadHead, Refuse, Retry, GiveUp, results, ErasersAreTold
  <2> QED
    BY <2>1, <2>2, <2>3
<1>3. ASSUME NEW p \in Proc, InventoryWalk(p)
      PROVE  ErasersAreTold
  <2>1. /\ pc[p] = "inventory_walk" /\ head.fence = call[p].attempt
        /\ PositionOf(head) = PositionOf(swap[p].head)
        /\ inventories' = inventories \cup {KeysBehind(swap[p].head)}
        /\ fencedFor' = fencedFor
    BY <1>3 DEF InventoryWalk
  <2>2. OnChain(swap[p].head) /\ call[p].attempt \in Attempt
    BY <2>1 DEF RInv, CallIsLinked, HoldsRead, InventoryPc
  <2>3. chain \in Seq(Key) /\ Linked /\ swap[p].head.seq = Len(chain)
    BY <2>1, HeadIsTheEnd DEF PositionOf
  <2>4. KeysBehind(swap[p].head) = Committed
    BY <2>2, <2>3, KeysAreTheChain, CommittedByIndex
  <2>5. IsFenced(head)
    BY <2>1, <2>2, NoAttemptAssumption DEF IsFenced
  <2> QED
    BY <2>1, <2>4, <2>5 DEF ErasersAreTold
<1>4. ASSUME NEW p \in Proc, ReplayStep(p) \/ InventoryRead(p) \/ InventoryRefused(p)
      PROVE  UNCHANGED <<fencedFor, inventories>>
  BY <1>4 DEF ReplayStep, ReplayRead, ReplayRefused, ReplayWalk, ReplayWalkFails, ReplayOpen,
              ReplayPublish, InventoryRead, InventoryRefused, ReadHead, Refuse, results
<1>5. ASSUME NEW p \in Proc, BeginCall(p) \/ Unanswered(p) \/ Crash(p)
      PROVE  UNCHANGED <<fencedFor, inventories>>
  BY <1>5 DEF BeginCall, BeginAppend, BeginFence, BeginReplay, BeginInventory, Begin,
              Unanswered, AppendUnconfirmed, FenceUnconfirmed, LoseAnswer, Crash, results
<1>6. LateSwap \/ UNCHANGED vars => UNCHANGED <<fencedFor, inventories>>
  BY DEF LateSwap, vars, results
<1>7. UNCHANGED <<fencedFor, inventories>> => ErasersAreTold
  BY DEF ErasersAreTold
<1> QED
  BY <1>1, <1>2, <1>3, <1>4, <1>5, <1>6, <1>7 DEF Next, Step, InventoryStep

LEMMA ErasersStayRight ==
  ASSUME IInv, RInv, [Next]_vars
  PROVE  ErasersAreRight'
<1>1. fencedFor \subseteq Attempt
  BY DEF IInv, TypeOK
<1>2. ErasersAreTold /\ StoreStep
  BY ErasersAreToldTheTruth, StoreSteps
<1>3. CASE IsFenced(head)
  <2>1. head' = head /\ chain' = chain
    BY <1>2, <1>3 DEF StoreStep, Quiet, Commits, Extends
  <2>2. Committed' = Committed
    BY <2>1 DEF Committed
  <2> QED
    BY <1>2, <1>3, <2>1, <2>2
       DEF RInv, ErasersAreRight, FencedForOne, InventoryIsComplete, ErasersAreTold, IsFenced
<1>4. CASE ~IsFenced(head)
  <2>1. fencedFor = {} /\ inventories = {}
    BY <1>1, <1>4, NoAttemptAssumption DEF RInv, ErasersAreRight, FencedForOne, IsFenced
  <2>2. inventories' = {}
    BY <1>2, <1>4, <2>1 DEF ErasersAreTold
  <2>3. fencedFor' = {}
    <3> SUFFICES ASSUME NEW attempt \in fencedFor' PROVE FALSE
      OBVIOUS
    <3>1. head.fence = attempt
      BY <1>2, <2>1 DEF ErasersAreTold
    <3>2. attempt \in Attempt
      BY NextKeepsIInv DEF IInv, TypeOK
    <3> QED
      BY <1>4, <3>1, <3>2, NoAttemptAssumption DEF IsFenced
  <2> QED
    BY <2>2, <2>3 DEF ErasersAreRight, FencedForOne, InventoryIsComplete
<1> QED
  BY <1>3, <1>4

-----------------------------------------------------------------------------
(* The theorems *)

LEMMA InitEstablishesRInv ==
  ASSUME Init
  PROVE  RInv
<1>1. chain = << >> /\ chain \in Seq(Key) /\ Len(chain) = 0
  BY DEF Init
<1>2. Linked
  BY <1>1 DEF Linked
<1>3. OnChain(Origin) /\ OnChain(head)
  BY <1>1 DEF Init, OnChain, Origin, AbsentHead, KeyAt, ShaAt
<1>4. LateIsLinked /\ SnapshotIsExact /\ ErasersAreRight
  BY DEF Init, LateIsLinked, SnapshotIsExact, ErasersAreRight, FencedForOne, InventoryIsComplete
<1>5. ASSUME NEW p \in Proc PROVE CallIsLinked(p)
  BY <1>3, <1>5 DEF Init, CallIsLinked, HoldsRead, InventoryPc
<1> QED
  BY <1>2, <1>3, <1>4, <1>5 DEF RInv

LEMMA NextKeepsRInv ==
  ASSUME IInv, RInv, [Next]_vars
  PROVE  RInv'
<1>1. IInv' /\ StoreStep
  BY NextKeepsIInv, StoreSteps
<1>2. Linked' /\ OnChain(head)' /\ LateIsLinked'
  BY <1>1, TheLogIsKept
<1>3. \A p \in Proc : CallIsLinked(p)'
  BY <1>1, CallsStayLinked
<1>4. SnapshotIsExact' /\ ErasersAreRight'
  BY SnapshotsStayExact, ErasersStayRight
<1> QED
  BY <1>2, <1>3, <1>4 DEF RInv

\* What callers read is the log: in every reachable state the committed records
\* name each other in the order of their commits (as replay_chain expects), and
\* so do every head that a call holds, every cursor and every write that can
\* still win.
THEOREM ReadersSeeTheLog == Spec => []RInv
<1>1. Init => RInv
  BY InitEstablishesRInv
<1>2. IInv /\ RInv /\ [Next]_vars => RInv'
  BY NextKeepsRInv
<1> QED
  BY <1>1, <1>2, InvariantHolds, PTL DEF Spec

\* A replay from scratch verifies in every reachable state and returns exactly
\* the committed records, in the order of their commits.
THEOREM ReplayIsTheLog == Spec => []ReplayReturnsCommitted
<1>1. IInv /\ RInv => ReplayReturnsCommitted
  BY ReplaySeesTheLog
<1> QED
  BY <1>1, InvariantHolds, ReadersSeeTheLog, PTL

\* A cursor that replay_since has returned names a committed record, at its
\* position, by its key and its hash.
THEOREM CursorsStayCommitted == Spec => []CursorsAreCommitted
<1>1. IInv /\ RInv => CursorsAreCommitted
  BY CursorsAreOnTheLog
<1> QED
  BY <1>1, InvariantHolds, ReadersSeeTheLog, PTL

\* A record appended with expected_seq lies directly behind the snapshot that
\* the caller had read, however many races the append has lost before.
THEOREM SnapshotsAreExact == Spec => []SnapshotIsExact
<1>1. RInv => SnapshotIsExact
  BY DEF RInv
<1> QED
  BY <1>1, ReadersSeeTheLog, PTL

\* At most one erasure attempt is ever told that it has closed the log, and the
\* log stays closed for it.
THEOREM OneEraserCloses == Spec => []FencedForOne
<1>1. RInv => FencedForOne
  BY DEF RInv, ErasersAreRight
<1> QED
  BY <1>1, ReadersSeeTheLog, PTL

\* fenced_record_keys returns the key of every committed record and no other.
THEOREM InventoriesAreComplete == Spec => []InventoryIsComplete
<1>1. RInv => InventoryIsComplete
  BY DEF RInv, ErasersAreRight
<1> QED
  BY <1>1, ReadersSeeTheLog, PTL

\* On a store that keeps its promises, no race makes the log look tampered with:
\* whatever append, fence_for_erasure, a replay or fenced_record_keys is about
\* to verify will verify.
NoFalseAlarm ==
  \A p \in Proc :
    /\ pc[p] = "verify" => PredecessorVerifies(swap[p].head)
    /\ pc[p] \in {"fence_walk", "inventory_walk"} => ChainVerifies(swap[p].head, Origin)
    /\ pc[p] = "replay_walk" => ChainVerifies(swap[p].head, view[p])

LEMMA WalksVerify ==
  ASSUME IInv, RInv
  PROVE  NoFalseAlarm
<1> SUFFICES ASSUME NEW p \in Proc, pc[p] \in HoldsRead
             PROVE  /\ pc[p] = "verify" => PredecessorVerifies(swap[p].head)
                    /\ pc[p] \in {"fence_walk", "inventory_walk"} =>
                         ChainVerifies(swap[p].head, Origin)
                    /\ pc[p] = "replay_walk" => ChainVerifies(swap[p].head, view[p])
  BY DEF NoFalseAlarm, HoldsRead
<1>1. chain \in Seq(Key) /\ Linked /\ OnChain(swap[p].head) /\ OnChain(view[p])
  BY HeadIsTheEnd DEF RInv, CallIsLinked
<1>2. OnChain(Origin) /\ Origin.seq <= swap[p].head.seq
  BY <1>1, OriginIsOnChain DEF Origin, OnChain
<1>3. ChainVerifies(swap[p].head, Origin)
  BY <1>1, <1>2, WalkVerifies
<1>4. pc[p] = "replay_walk" => ChainVerifies(swap[p].head, view[p])
  BY <1>1, WalkVerifies DEF RInv, CallIsLinked
<1>5. swap[p].head.seq # 0 => PredecessorVerifies(swap[p].head)
  <2> SUFFICES ASSUME swap[p].head.seq # 0 PROVE PredecessorVerifies(swap[p].head)
    OBVIOUS
  <2>1. swap[p].head.seq \in 1 .. Len(chain)
    BY <1>1 DEF OnChain
  <2> QED
    BY <1>1, <2>1 DEF OnChain, KeyAt, ShaAt, Linked, PredecessorVerifies
<1>6. pc[p] = "verify" => swap[p].head.seq # 0
  BY DEF RInv, CallIsLinked
<1> QED
  BY <1>3, <1>4, <1>5, <1>6

\* Neither PodLogTampered nor a refused fence can come from a race, a crash or a
\* late write.
THEOREM VerificationsSucceed == Spec => []NoFalseAlarm
<1>1. IInv /\ RInv => NoFalseAlarm
  BY WalksVerify
<1> QED
  BY <1>1, InvariantHolds, ReadersSeeTheLog, PTL

\* A cursor moves when a replay publishes, and dies with its process.
LEMMA CursorsMoveByReplay ==
  ASSUME TypeOK, [Next]_vars, NEW p \in Proc, view'[p] # view[p], view'[p] # Origin
  PROVE  ReplayPublish(p)
<1>1. ASSUME NEW q \in Proc, AppendStep(q)
      PROVE  view' = view
  BY <1>1 DEF AppendStep, AppendRead, AppendRefused, AppendVerify, AppendTampered, AppendPut,
              AppendPutCollides, AppendWins, AppendLoses, ReadHead, Refuse, Retry, GiveUp
<1>2. ASSUME NEW q \in Proc, FenceStep(q)
      PROVE  view' = view
  BY <1>2 DEF FenceStep, FenceRead, FenceFound, FenceWalk, FenceTampered, FenceWins, FenceLoses,
              FenceConfirm, FenceContradicted, Fenced, ReadHead, Refuse, Retry, GiveUp
<1>3. ASSUME NEW q \in Proc, ReplayStep(q), ~ReplayPublish(q)
      PROVE  view' = view
  BY <1>3 DEF ReplayStep, ReplayRead, ReplayRefused, ReplayWalk, ReplayWalkFails, ReplayOpen,
              ReadHead, Refuse
<1>4. ASSUME NEW q \in Proc, InventoryStep(q)
      PROVE  view' = view
  BY <1>4 DEF InventoryStep, InventoryRead, InventoryRefused, InventoryWalk, ReadHead, Refuse
<1>5. ASSUME NEW q \in Proc, BeginCall(q) \/ Unanswered(q)
      PROVE  view' = view
  BY <1>5 DEF BeginCall, BeginAppend, BeginFence, BeginReplay, BeginInventory, Begin,
              Unanswered, AppendUnconfirmed, FenceUnconfirmed, LoseAnswer
<1>6. ASSUME NEW q \in Proc, Crash(q)
      PROVE  view'[p] = view[p] \/ view'[p] = Origin
  BY <1>6 DEF Crash, TypeOK
<1>7. LateSwap \/ UNCHANGED vars => view' = view
  BY DEF LateSwap, vars, local
<1>8. ASSUME NEW q \in Proc, ReplayPublish(q)
      PROVE  view'[p] = view[p] \/ q = p
  BY <1>8 DEF ReplayPublish, TypeOK
<1> QED
  BY <1>1, <1>2, <1>3, <1>4, <1>5, <1>6, <1>7, <1>8 DEF Next, Step

-----------------------------------------------------------------------------
(* A store that loses what it was given: the inductive invariant *)

\* The hash that a head of the present history had at position i.
PastSha(i) == SubSeq(head.sha, 1, i)

\* A record object is sealed: its name and its hash are those of its contents.
RecordsBind ==
  \A k \in DOMAIN records :
    /\ k[1] = records[k].seq
    /\ records[k].sha = Append(records[k].prevSha, records[k].payload)

HeadIsNewest ==
  /\ head.seq = Len(chain)
  /\ head.key = KeyAt(Len(chain))
  /\ Len(head.sha) = Len(chain)

\* What is stored of the log is linked; only the newest record may be missing,
\* or may have been written anew with another payload.
LogIsLinked ==
  \A i \in 1 .. Len(chain) :
    /\ chain[i][1] = i
    /\ chain[i] \in DOMAIN records =>
         /\ records[chain[i]].prevKey = KeyAt(i - 1)
         /\ records[chain[i]].prevSha = PastSha(i - 1)
    /\ i < Len(chain) =>
         chain[i] \in DOMAIN records /\ records[chain[i]].sha = PastSha(i)

\* The record that the head names is there.
Whole == head.seq # 0 => PredecessorVerifies(head)

\* The store has served an older head.
RolledBack == gen # head.seq + (IF IsFenced(head) THEN 1 ELSE 0)

\* h can replace the present head, and it was prepared when the log was whole.
Prepared(h) ==
  /\ ~IsFenced(head) /\ Whole
  /\ IF IsFenced(h)
       THEN PositionOf(h) = PositionOf(head)
       ELSE /\ h.seq = head.seq + 1
            /\ h.key \in DOMAIN records /\ h.key[1] = h.seq
            /\ ContinuesHead(h)

\* h names a position of the log, whether its record is there or not.
NamesPosition(h) ==
  /\ h.seq \in 0 .. Len(chain)
  /\ h.key = KeyAt(h.seq)
  /\ h.sha = PastSha(h.seq)

\* What a call holds
CallSurvives(p) ==
  /\ swap[p].expected <= gen
  /\ swap[p].expected = gen =>
       /\ pc[p] \in {"verify", "put", "fence_walk"} => swap[p].head = head /\ ~IsFenced(head)
       /\ pc[p] = "put" => Whole
       /\ pc[p] \in {"swap", "fence_swap"} => Prepared(swap[p].head)
  /\ pc[p] \in {"verify", "put"} /\ ~RolledBack => NamesPosition(swap[p].head)
  /\ pc[p] \in {"replay_open", "replay_release"} =>
       IsPrefixOf(view[p].sha, swap[p].head.sha)

LogSurvives ==
  /\ RecordsBind /\ HeadIsNewest /\ LogIsLinked
  /\ RolledBack \/ IsFenced(head) => Whole
  /\ \A request \in late : request.expected = gen /\ Prepared(request.head)

FInv ==
  /\ Typed
  /\ LogSurvives
  /\ \A p \in Proc : CallSurvives(p)

-----------------------------------------------------------------------------
(* The walk over whatever the store has kept *)

\* There is a walk from any head to any floor below it: the shortest one that
\* there is not could be had by one more link.
LEMMA WalkExists ==
  ASSUME NEW h, h.seq \in Nat, NEW floor \in 0 .. h.seq
  PROVE  \E w : WalkSolves(w, h, floor)
<1> DEFINE T == {n \in Nat : n <= h.seq /\ ~\E w : WalkSolves(w, h, h.seq - n)}
<1>1. ASSUME T # {}
      PROVE  FALSE
  <2>1. PICK n \in T : \A m \in T : n <= m
    BY <1>1, LeastElement
  <2>2. n # 0
    <3> DEFINE w == [i \in h.seq .. h.seq |->
                      IF i = h.seq THEN [key |-> h.key, sha |-> h.sha] ELSE h]
    <3>1. \A i \in h.seq .. h.seq : i = h.seq
      OBVIOUS
    <3>2. WalkSolves(w, h, h.seq)
      BY <3>1 DEF WalkSolves
    <3> QED
      BY <2>1, <3>2
  <2> DEFINE k == h.seq - n
  <2>3. n - 1 \in Nat /\ n - 1 <= h.seq /\ n - 1 \notin T /\ k \in Nat /\ k < h.seq
    BY <2>1, <2>2
  <2>4. h.seq - (n - 1) = k + 1
    BY <2>1
  <2>5. PICK v : WalkSolves(v, h, k + 1)
    BY <2>3, <2>4
  <2> DEFINE w == [i \in k .. h.seq |-> IF i = k THEN Before(v[k + 1]) ELSE v[i]]
  <2> HIDE DEF k
  <2>6. v = [i \in k + 1 .. h.seq |->
              IF i = h.seq THEN [key |-> h.key, sha |-> h.sha] ELSE Before(v[i + 1])]
    BY <2>5 DEF WalkSolves
  <2>7. ASSUME NEW i \in k .. h.seq
        PROVE  w[i] = IF i = h.seq THEN [key |-> h.key, sha |-> h.sha] ELSE Before(w[i + 1])
    <3>1. CASE i = k
      <4>1. i # h.seq /\ i + 1 \in k .. h.seq /\ i + 1 # k
        BY <2>3, <3>1
      <4>2. w[i] = Before(v[k + 1]) /\ w[i + 1] = v[k + 1]
        BY <3>1, <4>1
      <4> QED
        BY <4>1, <4>2
    <3>2. CASE i # k /\ i # h.seq
      <4>1. i \in k + 1 .. h.seq /\ i + 1 \in k .. h.seq /\ i + 1 # k
        BY <2>3, <3>2
      <4>2. w[i] = v[i] /\ w[i + 1] = v[i + 1]
        BY <3>2, <4>1
      <4>3. v[i] = Before(v[i + 1])
        BY <2>6, <3>2, <4>1
      <4> QED
        BY <3>2, <4>2, <4>3
    <3>3. CASE i = h.seq
      <4>1. i \in k + 1 .. h.seq /\ i # k
        BY <2>3, <3>3
      <4>2. v[i] = [key |-> h.key, sha |-> h.sha]
        BY <2>6, <3>3, <4>1
      <4> QED
        BY <3>3, <4>1, <4>2
    <3> QED
      BY <3>1, <3>2, <3>3
  <2>8. WalkSolves(w, h, k)
    BY <2>7 DEF WalkSolves
  <2> QED
    BY <2>1, <2>8 DEF k
<1>2. h.seq - floor \notin T
  BY <1>1
<1>3. h.seq - (h.seq - floor) = floor /\ h.seq - floor \in Nat /\ h.seq - floor <= h.seq
  OBVIOUS
<1> QED
  BY <1>2, <1>3

LEMMA WalkIsLinks ==
  ASSUME NEW h, h.seq \in Nat, NEW floor \in 0 .. h.seq, NEW link, link = Links(h, floor)
  PROVE  \A i \in floor .. h.seq :
           link[i] = IF i = h.seq THEN [key |-> h.key, sha |-> h.sha] ELSE Before(link[i + 1])
<1>1. PICK w : WalkSolves(w, h, floor)
  BY WalkExists
<1>2. WalkSolves(link, h, floor)
  BY <1>1, LinksSolve
<1>3. link = [i \in floor .. h.seq |->
               IF i = h.seq THEN [key |-> h.key, sha |-> h.sha] ELSE Before(link[i + 1])]
  BY <1>2 DEF WalkSolves
<1> QED
  BY <1>3

LEMMA PrefixFacts ==
  ASSUME NEW S, NEW s \in Seq(S), NEW n \in 0 .. Len(s)
  PROVE  /\ SubSeq(s, 1, n) \in Seq(S)
         /\ Len(SubSeq(s, 1, n)) = n
         /\ \A i \in 1 .. n : SubSeq(s, 1, n)[i] = s[i]
<1>1. n \in Int /\ 1 \in Int /\ Len(s) \in Nat /\ n \in Nat
  OBVIOUS
<1>2. \A i \in 1 .. n : s[i] \in S
  BY <1>1
<1>3. /\ SubSeq(s, 1, n) \in Seq(S)
      /\ Len(SubSeq(s, 1, n)) = IF 1 <= n THEN n - 1 + 1 ELSE 0
      /\ \A i \in 1 .. n - 1 + 1 : SubSeq(s, 1, n)[i] = s[1 + i - 1]
  BY <1>1, <1>2, SubSeqProperties
<1>4. (IF 1 <= n THEN n - 1 + 1 ELSE 0) = n /\ n - 1 + 1 = n
  BY <1>1
<1>5. \A i \in 1 .. n : 1 + i - 1 = i
  BY <1>1
<1> QED
  BY <1>3, <1>4, <1>5

\* Prefixes of two sequences that agree up to there are the same.
LEMMA SamePrefix ==
  ASSUME NEW S, NEW s \in Seq(S), NEW t \in Seq(S),
         NEW n \in 0 .. Len(s), n <= Len(t), \A i \in 1 .. n : s[i] = t[i]
  PROVE  SubSeq(s, 1, n) = SubSeq(t, 1, n)
<1>1. n \in 0 .. Len(t)
  OBVIOUS
<1>2. /\ SubSeq(s, 1, n) \in Seq(S) /\ Len(SubSeq(s, 1, n)) = n
      /\ \A i \in 1 .. n : SubSeq(s, 1, n)[i] = s[i]
  BY PrefixFacts
<1>3. /\ SubSeq(t, 1, n) \in Seq(S) /\ Len(SubSeq(t, 1, n)) = n
      /\ \A i \in 1 .. n : SubSeq(t, 1, n)[i] = t[i]
  BY <1>1, PrefixFacts
<1> QED
  BY <1>2, <1>3, SeqEqual

LEMMA PrefixByIndex ==
  ASSUME NEW s \in Sha, NEW t \in Sha
  PROVE  IsPrefixOf(s, t) <=> Len(s) <= Len(t) /\ \A i \in 1 .. Len(s) : t[i] = s[i]
<1>1. CASE Len(s) <= Len(t)
  <2>0. Len(s) \in 0 .. Len(t) /\ t \in Seq(Payload)
    BY <1>1 DEF Sha
  <2>1. SubSeq(t, 1, Len(s)) \in Sha /\ Len(SubSeq(t, 1, Len(s))) = Len(s)
    BY <2>0, PrefixFacts DEF Sha
  <2>2. \A i \in 1 .. Len(s) : SubSeq(t, 1, Len(s))[i] = t[i]
    BY <2>0, PrefixFacts
  <2>3. ASSUME \A i \in 1 .. Len(s) : t[i] = s[i]
        PROVE  SubSeq(t, 1, Len(s)) = s
    <3>1. /\ s \in Seq(Payload) /\ Len(s) \in 0 .. Len(s) /\ Len(s) <= Len(t)
          /\ \A i \in 1 .. Len(s) : s[i] = t[i]
      BY <1>1, <2>3 DEF Sha
    <3>2. SubSeq(s, 1, Len(s)) = SubSeq(t, 1, Len(s))
      BY <2>0, <3>1, SamePrefix
    <3> QED
      BY <3>1, <3>2, SubSeqFull
  <2> QED
    BY <1>1, <2>2, <2>3 DEF IsPrefixOf
<1>2. CASE ~(Len(s) <= Len(t))
  BY <1>2 DEF IsPrefixOf
<1> QED
  BY <1>1, <1>2

\* A walk that verifies goes from a history to one that it extends: a hash binds
\* its predecessor's.
LEMMA WalkExtends ==
  ASSUME TypeOK, RecordsBind, NEW h \in HeadFile, NEW anchor \in Position,
         ChainVerifies(h, anchor)
  PROVE  IsPrefixOf(anchor.sha, h.sha)
<1> DEFINE link == Links(h, anchor.seq)
<1>1. h.seq \in Nat /\ anchor.seq \in 0 .. h.seq /\ h.sha \in Sha /\ anchor.sha \in Sha
  BY DEF HeadFile, Position, ChainVerifies
<1>2. \A i \in anchor.seq .. h.seq :
        link[i] = IF i = h.seq THEN [key |-> h.key, sha |-> h.sha] ELSE Before(link[i + 1])
  BY <1>1, WalkIsLinks
<1>3. \A i \in anchor.seq + 1 .. h.seq :
        /\ link[i].key \in DOMAIN records
        /\ records[link[i].key].sha = link[i].sha
  BY DEF ChainVerifies, RecordsVerify
<1>4. link[anchor.seq].sha = anchor.sha
  BY DEF ChainVerifies
<1> HIDE DEF link
<1> DEFINE Good(i) == link[i].sha \in Sha /\ IsPrefixOf(link[i].sha, h.sha)
           T == {n \in Nat : n <= h.seq - anchor.seq /\ ~Good(h.seq - n)}
<1>5. Good(h.seq)
  BY <1>1, <1>2, PrefixByIndex
<1>6. ASSUME NEW i \in anchor.seq .. h.seq, i # h.seq, Good(i + 1)
      PROVE  Good(i)
  <2>1. i + 1 \in anchor.seq + 1 .. h.seq
    BY <1>1, <1>6
  <2>2. /\ link[i + 1].key \in DOMAIN records
        /\ records[link[i + 1].key].sha = link[i + 1].sha
    BY <1>3, <2>1
  <2>3. link[i].sha = records[link[i + 1].key].prevSha
    <3>1. link[i] = Before(link[i + 1])
      BY <1>2, <1>6
    <3> QED
      BY <2>2, <3>1 DEF Before
  <2> DEFINE r == records[link[i + 1].key]
  <2>4. r \in Record /\ r.sha = Append(r.prevSha, r.payload)
    BY <2>2 DEF TypeOK, RecordsBind
  <2> HIDE DEF r
  <2>5. r.prevSha \in Sha /\ r.sha \in Sha /\ r.payload \in Payload
    BY <2>4 DEF Record
  <2>6. Len(r.sha) = Len(r.prevSha) + 1 /\ \A j \in 1 .. Len(r.prevSha) : r.sha[j] = r.prevSha[j]
    BY <2>4, <2>5
  <2>7. IsPrefixOf(r.sha, h.sha)
    BY <1>6, <2>2 DEF r
  <2>8. Len(r.sha) <= Len(h.sha) /\ \A j \in 1 .. Len(r.sha) : h.sha[j] = r.sha[j]
    BY <1>1, <2>5, <2>7, PrefixByIndex
  <2>9. Len(r.prevSha) <= Len(h.sha) /\ \A j \in 1 .. Len(r.prevSha) : h.sha[j] = r.prevSha[j]
    BY <1>1, <2>5, <2>6, <2>8
  <2>10. IsPrefixOf(r.prevSha, h.sha)
    BY <1>1, <2>5, <2>9, PrefixByIndex
  <2> QED
    BY <2>3, <2>5, <2>10 DEF r
<1>7. ASSUME T # {}
      PROVE  FALSE
  <2> HIDE DEF Good
  <2>1. PICK n \in T : \A m \in T : n <= m
    BY <1>7, LeastElement
  <2>2. n # 0
    BY <1>1, <1>5, <2>1
  <2>3. n - 1 \in Nat /\ n - 1 <= h.seq - anchor.seq /\ n - 1 \notin T
        /\ h.seq - (n - 1) = (h.seq - n) + 1
        /\ h.seq - n \in anchor.seq .. h.seq /\ h.seq - n # h.seq
    BY <1>1, <2>1, <2>2
  <2>4. Good((h.seq - n) + 1)
    BY <2>3
  <2>5. Good(h.seq - n)
    BY <1>6, <2>3, <2>4
  <2> QED
    BY <2>1, <2>5
<1>8. h.seq - anchor.seq \notin T /\ h.seq - anchor.seq \in Nat
      /\ h.seq - (h.seq - anchor.seq) = anchor.seq
  BY <1>1, <1>7
<1>9. Good(anchor.seq)
  BY <1>1, <1>8
<1> QED
  BY <1>4, <1>9

\* A history that verifies from scratch is whole.
LEMMA VerifiedIsWhole ==
  ASSUME TypeOK, ChainVerifies(head, Origin)
  PROVE  Whole
<1> SUFFICES ASSUME head.seq # 0 PROVE PredecessorVerifies(head)
  BY DEF Whole
<1>1. head.seq \in Nat /\ 0 \in 0 .. head.seq /\ head.seq \in 0 .. head.seq
      /\ head.seq \in 0 + 1 .. head.seq
  BY DEF TypeOK, HeadFile
<1>2. Origin.seq = 0
  BY DEF Origin
<1>3. Links(head, 0)[head.seq] = [key |-> head.key, sha |-> head.sha]
  BY <1>1, WalkIsLinks
<1> DEFINE link == Links(head, 0)
<1>4. /\ link[head.seq].key \in DOMAIN records
      /\ records[link[head.seq].key].seq = head.seq
      /\ records[link[head.seq].key].sha = link[head.seq].sha
  BY <1>1, <1>2 DEF ChainVerifies, RecordsVerify
<1> QED
  BY <1>3, <1>4 DEF PredecessorVerifies

LEMMA PastIsTyped ==
  ASSUME TypeOK, HeadIsNewest
  PROVE  /\ Len(chain) \in Nat /\ head.seq = Len(chain) /\ head.sha \in Sha
         /\ PastSha(Len(chain)) = head.sha /\ PastSha(0) = << >>
         /\ \A i \in 0 .. Len(chain) : PastSha(i) \in Sha /\ Len(PastSha(i)) = i
<1>1. head.sha \in Sha /\ chain \in Seq(Key)
  BY DEF TypeOK, HeadFile
<1>2. Len(chain) \in Nat /\ Len(head.sha) = Len(chain) /\ head.seq = Len(chain)
  BY <1>1 DEF HeadIsNewest
<1>3. \A i \in 0 .. Len(chain) : PastSha(i) \in Sha /\ Len(PastSha(i)) = i
  BY <1>1, <1>2, PrefixFacts DEF PastSha, Sha
<1>4. PastSha(Len(chain)) = head.sha
  BY <1>1, <1>2, SubSeqFull DEF PastSha, Sha
<1>5. PastSha(0) = << >>
  BY <1>2, SubSeqEmpty DEF PastSha
<1> QED
  BY <1>2, <1>1, <1>3, <1>4, <1>5

\* A whole log verifies from scratch.
LEMMA WholeVerifies ==
  ASSUME TypeOK, RecordsBind, HeadIsNewest, LogIsLinked, Whole
  PROVE  ChainVerifies(head, Origin)
<1>1. /\ Len(chain) \in Nat /\ head.seq = Len(chain) /\ chain \in Seq(Key)
      /\ PastSha(Len(chain)) = head.sha /\ PastSha(0) = << >>
  BY PastIsTyped DEF TypeOK
<1>2. ASSUME NEW i \in 1 .. Len(chain)
      PROVE  /\ chain[i] \in DOMAIN records
             /\ records[chain[i]].seq = i
             /\ records[chain[i]].sha = PastSha(i)
  <2>1. CASE i < Len(chain)
    BY <1>2, <2>1 DEF LogIsLinked, RecordsBind
  <2>2. CASE i = Len(chain)
    <3>1. head.seq # 0 /\ head.key = chain[i]
      BY <1>1, <1>2, <2>2 DEF HeadIsNewest, KeyAt
    <3> QED
      BY <1>1, <2>2, <3>1 DEF Whole, PredecessorVerifies
  <2> QED
    BY <1>1, <2>1, <2>2
<1>3. \A i \in 0 .. Len(chain) : ShaAt(i) = PastSha(i)
  BY <1>1, <1>2 DEF ShaAt
<1>4. Linked
  <2> SUFFICES ASSUME NEW i \in 1 .. Len(chain)
               PROVE  /\ chain[i] \in DOMAIN records
                      /\ records[chain[i]].seq = i
                      /\ records[chain[i]].prevKey = KeyAt(i - 1)
                      /\ records[chain[i]].prevSha = ShaAt(i - 1)
    BY DEF Linked
  <2>1. i - 1 \in 0 .. Len(chain)
    BY <1>1
  <2> QED
    BY <1>2, <1>3, <2>1 DEF LogIsLinked
<1>5. OnChain(head)
  <2>1. Len(chain) \in 0 .. Len(chain)
    BY <1>1
  <2> QED
    BY <1>1, <1>3, <2>1 DEF OnChain, HeadIsNewest
<1>6. OnChain(Origin) /\ Origin.seq <= head.seq
  BY <1>1, OriginIsOnChain DEF Origin
<1> QED
  BY <1>1, <1>4, <1>5, <1>6, WalkVerifies

-----------------------------------------------------------------------------
(* What becomes of the log and of the calls that rest *)

Untouched(p) == pc'[p] = pc[p] /\ swap'[p] = swap[p] /\ view'[p] = view[p]

LEMMA QuietSurvives ==
  ASSUME FInv, UNCHANGED <<head, gen, records, chain>>,
         \A request \in late' :
           request \in late \/ (request.expected = gen /\ Prepared(request.head))
  PROVE  LogSurvives' /\ \A q \in Proc : Untouched(q) => CallSurvives(q)'
<1>1. /\ RecordsBind' /\ HeadIsNewest' /\ LogIsLinked'
      /\ (RolledBack' <=> RolledBack) /\ (Whole' <=> Whole) /\ IsFenced(head)' = IsFenced(head)
  BY DEF FInv, LogSurvives, RecordsBind, HeadIsNewest, LogIsLinked, RolledBack, Whole,
         PredecessorVerifies, KeyAt, PastSha, IsFenced
<1>2. \A h : Prepared(h) => Prepared(h)'
  BY <1>1 DEF Prepared, ContinuesHead
<1>3. \A request \in late' : request.expected = gen' /\ Prepared(request.head)'
  BY <1>2 DEF FInv, LogSurvives
<1>4. LogSurvives'
  BY <1>1, <1>3 DEF FInv, LogSurvives
<1>5. ASSUME NEW q \in Proc, Untouched(q)
      PROVE  CallSurvives(q)'
  <2>1. NamesPosition(swap[q].head) => NamesPosition(swap[q].head)'
    BY <1>5 DEF NamesPosition, KeyAt, PastSha, Untouched
  <2> QED
    BY <1>1, <1>2, <1>5, <2>1 DEF FInv, CallSurvives, Untouched, IsFenced
<1> QED
  BY <1>4, <1>5

\* A record is put where there was none: if it is committed, it stands for the
\* newest record, which was lost.
LEMMA PutSurvives ==
  ASSUME FInv, NEW p \in Proc, pc[p] = "put",
         NEW key, NEW record, key \notin DOMAIN records,
         key[1] = swap[p].head.seq + 1, record.seq = key[1],
         record.prevKey = swap[p].head.key, record.prevSha = swap[p].head.sha,
         record.sha = Append(record.prevSha, record.payload),
         records' = [k \in DOMAIN records \cup {key} |-> IF k = key THEN record ELSE records[k]],
         UNCHANGED <<head, gen, late, chain>>
  PROVE  /\ LogSurvives'
         /\ \A q \in Proc : Untouched(q) => CallSurvives(q)'
         /\ Whole => Whole'
         /\ RolledBack' <=> RolledBack
<1>1. /\ \A k \in DOMAIN records : k \in DOMAIN records' /\ records'[k] = records[k]
      /\ key \in DOMAIN records' /\ records'[key] = record
      /\ DOMAIN records' = DOMAIN records \cup {key}
  OBVIOUS
<1>2. /\ Len(chain) \in Nat /\ head.seq = Len(chain)
      /\ head.seq # 0 => head.key = chain[Len(chain)]
  BY PastIsTyped DEF FInv, Typed, LogSurvives, HeadIsNewest, KeyAt
<1>3. RecordsBind'
  BY <1>1 DEF FInv, LogSurvives, RecordsBind
<1>4. HeadIsNewest' /\ (RolledBack' <=> RolledBack) /\ IsFenced(head)' = IsFenced(head)
  BY DEF FInv, LogSurvives, HeadIsNewest, KeyAt, RolledBack, IsFenced
<1>5. Whole => Whole'
  BY <1>1 DEF Whole, PredecessorVerifies
<1>6. \A i \in 0 .. Len(chain) : KeyAt(i)' = KeyAt(i) /\ PastSha(i)' = PastSha(i)
  BY DEF KeyAt, PastSha
<1>7. LogIsLinked'
  <2> SUFFICES ASSUME NEW i \in 1 .. Len(chain)
               PROVE  /\ chain[i][1] = i
                      /\ chain[i] \in DOMAIN records' =>
                           /\ records'[chain[i]].prevKey = KeyAt(i - 1)'
                           /\ records'[chain[i]].prevSha = PastSha(i - 1)'
                      /\ i < Len(chain) =>
                           chain[i] \in DOMAIN records' /\ records'[chain[i]].sha = PastSha(i)'
    BY DEF LogIsLinked
  <2>1. i - 1 \in 0 .. Len(chain) /\ i \in 0 .. Len(chain)
    BY <1>2
  <2>2. /\ chain[i][1] = i
        /\ chain[i] \in DOMAIN records =>
             records[chain[i]].prevKey = KeyAt(i - 1) /\ records[chain[i]].prevSha = PastSha(i - 1)
        /\ i < Len(chain) =>
             chain[i] \in DOMAIN records /\ records[chain[i]].sha = PastSha(i)
    BY DEF FInv, LogSurvives, LogIsLinked
  <2>3. CASE chain[i] \in DOMAIN records
    BY <1>1, <1>6, <2>1, <2>2, <2>3
  <2>4. CASE chain[i] \notin DOMAIN records /\ chain[i] = key
    <3>1. i = Len(chain) /\ ~Whole
      BY <1>2, <2>2, <2>4 DEF Whole, PredecessorVerifies
    <3>2. NamesPosition(swap[p].head)
      BY <3>1 DEF FInv, LogSurvives, CallSurvives
    <3>3. swap[p].head.seq = i - 1
      BY <2>2, <2>4, <3>2 DEF NamesPosition
    <3>4. record.prevKey = KeyAt(i - 1) /\ record.prevSha = PastSha(i - 1)
      BY <3>2, <3>3 DEF NamesPosition
    <3> QED
      BY <1>1, <1>6, <2>1, <2>2, <2>4, <3>1, <3>4
  <2>5. CASE chain[i] \notin DOMAIN records /\ chain[i] # key
    BY <1>1, <2>2, <2>5
  <2> QED
    BY <2>3, <2>4, <2>5
<1>8. \A h : Prepared(h) => Prepared(h)'
  BY <1>1, <1>4, <1>5 DEF Prepared, ContinuesHead
<1>9. LogSurvives'
  <2>1. \A request \in late' : request.expected = gen' /\ Prepared(request.head)'
    BY <1>8 DEF FInv, LogSurvives
  <2> QED
    BY <1>3, <1>4, <1>5, <1>7, <2>1 DEF FInv, LogSurvives
<1>10. ASSUME NEW q \in Proc, Untouched(q)
       PROVE  CallSurvives(q)'
  <2>1. NamesPosition(swap[q].head) => NamesPosition(swap[q].head)'
    BY <1>10 DEF NamesPosition, KeyAt, PastSha, Untouched
  <2> QED
    BY <1>4, <1>5, <1>8, <1>10, <2>1 DEF FInv, CallSurvives, Untouched
<1> QED
  BY <1>4, <1>5, <1>9, <1>10

\* A prepared head is swapped in.
LEMMA CommitSurvives ==
  ASSUME FInv, NEW request \in Swap, Prepared(request.head), SwapHead(request), records' = records
  PROVE  LogSurvives' /\ \A q \in Proc : Untouched(q) => CallSurvives(q)'
<1> DEFINE h == request.head
<1>1. /\ head' = h /\ gen' = gen + 1 /\ late' = {} /\ gen \in Nat
      /\ chain' = IF IsFenced(h) THEN chain ELSE Append(chain, h.key)
      /\ chain \in Seq(Key) /\ h \in HeadFile /\ TypeOK
  BY DEF SwapHead, FInv, Typed, TypeOK, Swap
<1>2. /\ ~IsFenced(head) /\ Whole
      /\ IsFenced(h) => PositionOf(h) = PositionOf(head)
      /\ ~IsFenced(h) => /\ h.seq = head.seq + 1
                         /\ h.key \in DOMAIN records /\ h.key[1] = h.seq
                         /\ ContinuesHead(h)
  BY DEF Prepared
<1>3. /\ Len(chain) \in Nat /\ head.seq = Len(chain) /\ head.sha \in Sha
      /\ Len(head.sha) = Len(chain) /\ PastSha(Len(chain)) = head.sha
      /\ head.key = KeyAt(Len(chain))
      /\ RecordsBind /\ LogIsLinked /\ HeadIsNewest
  BY PastIsTyped DEF FInv, Typed, LogSurvives, HeadIsNewest
<1> HIDE DEF h
<1>4. RecordsBind'
  BY <1>3 DEF RecordsBind
<1>5. ~RolledBack' => ~RolledBack
  BY <1>1, <1>2, <1>3 DEF RolledBack, IsFenced, PositionOf
<1>6. /\ HeadIsNewest' /\ LogIsLinked' /\ Whole' /\ Len(chain') \in Nat /\ Len(chain) <= Len(chain')
      /\ \A i \in 0 .. Len(chain) : KeyAt(i)' = KeyAt(i) /\ PastSha(i)' = PastSha(i)
  <2>1. CASE IsFenced(h)
    <3>1. chain' = chain /\ head'.seq = head.seq /\ head'.key = head.key /\ head'.sha = head.sha
      BY <1>1, <1>2, <2>1 DEF PositionOf
    <3>2. \A i \in 0 .. Len(chain) : KeyAt(i)' = KeyAt(i) /\ PastSha(i)' = PastSha(i)
      BY <3>1 DEF KeyAt, PastSha
    <3>3. HeadIsNewest' /\ LogIsLinked' /\ Whole'
      BY <1>2, <1>3, <3>1
         DEF HeadIsNewest, LogIsLinked, Whole, PredecessorVerifies, KeyAt, PastSha
    <3> QED
      BY <1>3, <3>1, <3>2, <3>3
  <2>2. CASE ~IsFenced(h)
    <3> DEFINE r == records[h.key]
    <3>1. /\ r.sha = h.sha /\ r.prevKey = head.key /\ r.prevSha = head.sha
          /\ r.seq = h.seq /\ r.sha = Append(r.prevSha, r.payload) /\ r.payload \in Payload
      BY <1>1, <1>2, <1>3, <2>2 DEF ContinuesHead, RecordsBind, TypeOK, Record
    <3> HIDE DEF r
    <3>2. /\ h.sha = Append(head.sha, r.payload) /\ h.sha \in Seq(Payload)
          /\ Len(h.sha) = Len(chain) + 1
          /\ head.sha \in Seq(Payload)
          /\ \A j \in 1 .. Len(head.sha) : h.sha[j] = head.sha[j]
      BY <1>3, <3>1 DEF Sha
    <3>3. ASSUME NEW i \in 0 .. Len(chain)
          PROVE  PastSha(i)' = PastSha(i)
      <4>1. i \in 0 .. Len(head.sha) /\ i <= Len(h.sha) /\ \A j \in 1 .. i : head.sha[j] = h.sha[j]
        BY <1>3, <3>2
      <4>2. SubSeq(head.sha, 1, i) = SubSeq(h.sha, 1, i)
        BY <3>2, <4>1, SamePrefix
      <4> QED
        BY <1>1, <4>2 DEF PastSha
    <3>4. h.key \in Key
      BY <1>1, <1>2, <2>2 DEF TypeOK
    <3>5. /\ chain' \in Seq(Key) /\ Len(chain') = Len(chain) + 1
          /\ chain'[Len(chain) + 1] = h.key
          /\ \A i \in 1 .. Len(chain) : chain'[i] = chain[i]
      BY <1>1, <2>2, <3>4
    <3>6. \A i \in 0 .. Len(chain) : KeyAt(i)' = KeyAt(i)
      BY <3>5 DEF KeyAt
    <3>7. HeadIsNewest'
      <4>1. /\ head'.seq = Len(chain') /\ Len(head'.sha) = Len(chain')
            /\ head'.key = chain'[Len(chain')] /\ Len(chain') # 0
        BY <1>1, <1>2, <1>3, <2>2, <3>2, <3>5
      <4> QED
        BY <4>1 DEF HeadIsNewest, KeyAt
    <3>8. Whole'
      BY <1>1, <1>2, <2>2, <3>1 DEF Whole, PredecessorVerifies, r
    <3>9. LogIsLinked'
      <4> SUFFICES ASSUME NEW i \in 1 .. Len(chain) + 1
                   PROVE  /\ chain'[i][1] = i
                          /\ chain'[i] \in DOMAIN records =>
                               /\ records[chain'[i]].prevKey = KeyAt(i - 1)'
                               /\ records[chain'[i]].prevSha = PastSha(i - 1)'
                          /\ i < Len(chain) + 1 =>
                               chain'[i] \in DOMAIN records /\ records[chain'[i]].sha = PastSha(i)'
        BY <3>5 DEF LogIsLinked
      <4>1. i - 1 \in 0 .. Len(chain)
        BY <1>3
      <4>2. KeyAt(i - 1)' = KeyAt(i - 1) /\ PastSha(i - 1)' = PastSha(i - 1)
        BY <3>3, <3>6, <4>1
      <4>3. CASE i < Len(chain)
        <5>1. i \in 1 .. Len(chain) /\ i \in 0 .. Len(chain) /\ chain'[i] = chain[i]
          BY <1>3, <3>5, <4>3
        <5> QED
          BY <1>3, <3>3, <4>2, <4>3, <5>1 DEF LogIsLinked
      <4>4. CASE i = Len(chain)
        <5>1. i \in 1 .. Len(chain) /\ i \in 0 .. Len(chain) /\ chain'[i] = chain[i]
              /\ head.seq # 0 /\ head.key = chain[i]
          BY <1>3, <3>5, <4>4 DEF KeyAt
        <5>2. head.key \in DOMAIN records /\ records[head.key].sha = head.sha
          BY <1>2, <5>1 DEF Whole, PredecessorVerifies
        <5>3. PastSha(i)' = head.sha
          BY <1>3, <3>3, <4>4, <5>1
        <5> QED
          BY <1>3, <4>2, <5>1, <5>2, <5>3 DEF LogIsLinked
      <4>5. CASE i = Len(chain) + 1
        <5>1. chain'[i] = h.key /\ h.key[1] = i /\ i - 1 = Len(chain) /\ ~(i < Len(chain) + 1)
          BY <1>2, <1>3, <2>2, <3>5, <4>5
        <5>2. r.prevKey = KeyAt(i - 1) /\ r.prevSha = PastSha(i - 1)
          BY <1>3, <3>1, <5>1
        <5> QED
          BY <4>2, <5>1, <5>2 DEF r
      <4> QED
        BY <1>3, <4>3, <4>4, <4>5
    <3> QED
      BY <1>3, <3>3, <3>5, <3>6, <3>7, <3>8, <3>9
  <2> QED
    BY <2>1, <2>2
<1>7. LogSurvives'
  BY <1>1, <1>4, <1>6 DEF LogSurvives
<1>8. ASSUME NEW q \in Proc, Untouched(q)
      PROVE  CallSurvives(q)'
  <2>1. swap[q].expected <= gen /\ swap[q].expected \in Nat
    BY DEF FInv, CallSurvives, Typed, TypeOK, Swap
  <2>2. swap[q].expected <= gen' /\ swap[q].expected # gen'
    BY <1>1, <2>1
  <2>3. NamesPosition(swap[q].head) => NamesPosition(swap[q].head)'
    BY <1>3, <1>6, <1>8 DEF NamesPosition, Untouched
  <2> QED
    BY <1>5, <1>8, <2>2, <2>3 DEF FInv, CallSurvives, Untouched
<1> QED
  BY <1>7, <1>8

\* An older head is served: everything that was prepared from a later one has
\* lost its race.
LEMMA RollbackSurvives ==
  ASSUME FInv, Rollback
  PROVE  FInv'
<1>1. PICK n \in 0 .. head.seq :
        /\ Intact
        /\ n < head.seq \/ IsFenced(head)
        /\ head' = [seq |-> n, key |-> IF n = 0 THEN NoKey ELSE chain[n],
                    sha |-> SubSeq(head.sha, 1, n), fence |-> NoAttempt]
        /\ gen' = gen + 1
        /\ late' = {}
        /\ chain' = SubSeq(chain, 1, n)
        /\ UNCHANGED <<records, local, results>>
  BY DEF Rollback
<1>2. /\ Len(chain) \in Nat /\ head.seq = Len(chain) /\ head.sha \in Seq(Payload)
      /\ Len(head.sha) = Len(chain) /\ PastSha(Len(chain)) = head.sha
      /\ chain \in Seq(Key) /\ gen \in Nat /\ n \in Nat /\ n <= Len(chain)
      /\ RecordsBind /\ LogIsLinked /\ TypeOK
  BY <1>1, PastIsTyped DEF FInv, Typed, TypeOK, LogSurvives, HeadIsNewest, Sha
<1>3. /\ chain' \in Seq(Key) /\ Len(chain') = n /\ \A i \in 1 .. n : chain'[i] = chain[i]
  BY <1>1, <1>2, PrefixFacts
<1>4. /\ SubSeq(head.sha, 1, n) \in Seq(Payload) /\ Len(SubSeq(head.sha, 1, n)) = n
      /\ \A j \in 1 .. n : SubSeq(head.sha, 1, n)[j] = head.sha[j]
  BY <1>2, PrefixFacts
<1>5. \A i \in 0 .. n : KeyAt(i)' = KeyAt(i)
  BY <1>3 DEF KeyAt
<1>6. ASSUME NEW i \in 0 .. n
      PROVE  PastSha(i)' = PastSha(i)
  <2> DEFINE t == SubSeq(head.sha, 1, n)
  <2>1. t \in Seq(Payload) /\ i \in 0 .. Len(t) /\ i <= Len(head.sha)
        /\ \A j \in 1 .. i : t[j] = head.sha[j]
    BY <1>2, <1>4
  <2> HIDE DEF t
  <2>2. SubSeq(t, 1, i) = SubSeq(head.sha, 1, i)
    BY <1>2, <2>1, SamePrefix
  <2> QED
    BY <1>1, <2>2 DEF PastSha, t
<1>7. TypeOK'
  <2>1. (IF n = 0 THEN NoKey ELSE chain[n]) \in Key \cup {NoKey}
    BY <1>2
  <2>2. head' \in HeadFile
    BY <1>1, <1>2, <1>4, <2>1 DEF HeadFile, Sha
  <2>3. gen' \in Nat /\ late' \subseteq Swap /\ chain' \in Seq(Key)
    BY <1>1, <1>2, <1>3
  <2>4. /\ records' = records /\ pc' = pc /\ call' = call /\ swap' = swap /\ tries' = tries
        /\ wrote' = wrote /\ view' = view /\ acked' = acked /\ orphans' = orphans
        /\ fencedFor' = fencedFor /\ inventories' = inventories
    BY <1>1 DEF local, results
  <2> QED
    BY <1>2, <2>2, <2>3, <2>4 DEF TypeOK
<1>8. Typed'
  <2>1. ASSUME NEW q \in Proc
        PROVE  CallIsTyped(q)'
    BY <1>1 DEF FInv, Typed, CallIsTyped, Arguments, local
  <2> QED
    BY <1>1, <1>7, <2>1 DEF Typed
<1>9. HeadIsNewest'
  BY <1>1, <1>3, <1>4 DEF HeadIsNewest, KeyAt
<1>10. RecordsBind'
  BY <1>1, <1>2 DEF RecordsBind
<1>11. LogIsLinked'
  <2> SUFFICES ASSUME NEW i \in 1 .. n
               PROVE  /\ chain'[i][1] = i
                      /\ chain'[i] \in DOMAIN records' =>
                           /\ records'[chain'[i]].prevKey = KeyAt(i - 1)'
                           /\ records'[chain'[i]].prevSha = PastSha(i - 1)'
                      /\ i < n =>
                           chain'[i] \in DOMAIN records' /\ records'[chain'[i]].sha = PastSha(i)'
    BY <1>3 DEF LogIsLinked
  <2>1. /\ i - 1 \in 0 .. n /\ i \in 0 .. n /\ i \in 1 .. Len(chain) /\ chain'[i] = chain[i]
        /\ i < n => i < Len(chain)
    BY <1>2, <1>3
  <2>2. KeyAt(i - 1)' = KeyAt(i - 1) /\ PastSha(i - 1)' = PastSha(i - 1) /\ PastSha(i)' = PastSha(i)
    BY <1>5, <1>6, <2>1
  <2> QED
    BY <1>1, <1>2, <2>1, <2>2 DEF LogIsLinked
<1>12. Whole'
  <2> SUFFICES ASSUME n # 0
               PROVE  /\ chain[n] \in DOMAIN records
                      /\ records[chain[n]].seq = n
                      /\ records[chain[n]].sha = SubSeq(head.sha, 1, n)
    BY <1>1 DEF Whole, PredecessorVerifies
  <2>1. n \in 1 .. Len(chain)
    BY <1>2
  <2>2. CASE n < Len(chain)
    BY <1>2, <2>1, <2>2 DEF LogIsLinked, RecordsBind, PastSha
  <2>3. CASE n = Len(chain)
    <3>1. IsFenced(head) /\ head.seq # 0 /\ head.key = chain[n]
      BY <1>1, <1>2, <2>1, <2>3 DEF FInv, LogSurvives, HeadIsNewest, KeyAt
    <3>2. PredecessorVerifies(head)
      BY <3>1 DEF FInv, LogSurvives, Whole
    <3> QED
      BY <1>2, <2>3, <3>1, <3>2 DEF PredecessorVerifies, PastSha
  <2> QED
    BY <1>2, <2>2, <2>3
<1>13. RolledBack'
  <2>1. gen >= Len(chain)
    BY <1>1, <1>2 DEF Intact
  <2> QED
    BY <1>1, <1>2, <2>1 DEF RolledBack, IsFenced
<1>14. ASSUME NEW q \in Proc
       PROVE  CallSurvives(q)'
  <2>1. swap[q].expected <= gen /\ swap[q].expected \in Nat
    BY DEF FInv, CallSurvives, Typed, TypeOK, Swap
  <2>2. swap[q].expected <= gen' /\ swap[q].expected # gen'
    BY <1>1, <1>2, <2>1
  <2> QED
    BY <1>1, <1>13, <2>2 DEF FInv, CallSurvives, local
<1> QED
  BY <1>1, <1>8, <1>9, <1>10, <1>11, <1>12, <1>14 DEF FInv, LogSurvives

\* The newest record is lost while nothing that was prepared on it can win.
LEMMA LossSurvives ==
  ASSUME FInv, LoseTail
  PROVE  FInv'
<1>1. /\ Intact /\ ~IsFenced(head) /\ head.key \in DOMAIN records /\ ~PastItsChecks
      /\ records' = [k \in DOMAIN records \ {head.key} |-> records[k]]
      /\ UNCHANGED <<head, gen, late, local, chain, results>>
  BY DEF LoseTail
<1>2. /\ DOMAIN records' = DOMAIN records \ {head.key}
      /\ \A k \in DOMAIN records' : records'[k] = records[k]
  BY <1>1
<1>3. /\ Len(chain) \in Nat /\ head.seq = Len(chain)
      /\ head.key = IF Len(chain) = 0 THEN NoKey ELSE chain[Len(chain)]
      /\ LogIsLinked
  BY PastIsTyped DEF FInv, Typed, LogSurvives, HeadIsNewest, KeyAt
<1>4. Typed'
  <2>1. TypeOK'
    BY <1>1, <1>2 DEF FInv, Typed, TypeOK, local, results
  <2>2. ASSUME NEW q \in Proc
        PROVE  CallIsTyped(q)'
    BY <1>1 DEF FInv, Typed, CallIsTyped, Arguments, local
  <2> QED
    BY <1>1, <2>1, <2>2 DEF FInv, Typed
<1>5. RecordsBind'
  BY <1>2 DEF FInv, LogSurvives, RecordsBind
<1>6. HeadIsNewest'
  BY <1>1 DEF FInv, LogSurvives, HeadIsNewest, KeyAt
<1>7. LogIsLinked'
  <2> SUFFICES ASSUME NEW i \in 1 .. Len(chain)
               PROVE  /\ chain[i][1] = i
                      /\ chain[i] \in DOMAIN records' =>
                           /\ records'[chain[i]].prevKey = KeyAt(i - 1)
                           /\ records'[chain[i]].prevSha = PastSha(i - 1)
                      /\ i < Len(chain) =>
                           chain[i] \in DOMAIN records' /\ records'[chain[i]].sha = PastSha(i)
    BY <1>1 DEF LogIsLinked, KeyAt, PastSha
  <2>1. i < Len(chain) => chain[i] # head.key
    <3>1. Len(chain) \in 1 .. Len(chain)
      BY <1>3
    <3>2. chain[i][1] = i /\ chain[Len(chain)][1] = Len(chain)
      BY <1>3, <3>1 DEF LogIsLinked
    <3> QED
      BY <1>3, <3>2
  <2> QED
    BY <1>2, <1>3, <2>1 DEF LogIsLinked
<1>8. ~RolledBack' /\ ~IsFenced(head)'
  BY <1>1 DEF RolledBack, Intact, IsFenced
<1>9. late' = {}
  BY <1>1 DEF PastItsChecks
<1>10. ASSUME NEW q \in Proc
       PROVE  CallSurvives(q)'
  <2>1. ~(pc[q] \in {"put", "swap", "fence_swap"} /\ swap[q].expected = gen)
    BY <1>1 DEF PastItsChecks
  <2>2. pc' = pc /\ swap' = swap /\ view' = view
    BY <1>1 DEF local
  <2>3. NamesPosition(swap[q].head) => NamesPosition(swap[q].head)'
    BY <1>1, <2>2 DEF NamesPosition, KeyAt, PastSha
  <2>4. ~RolledBack
    BY <1>1 DEF RolledBack, Intact
  <2>5. CallSurvives(q)
    BY DEF FInv
  <2>6. /\ swap[q].expected <= gen
        /\ swap[q].expected = gen /\ pc[q] \in {"verify", "put", "fence_walk"} =>
             swap[q].head = head /\ ~IsFenced(head)
        /\ pc[q] \in {"verify", "put"} => NamesPosition(swap[q].head)
        /\ pc[q] \in {"replay_open", "replay_release"} =>
             IsPrefixOf(view[q].sha, swap[q].head.sha)
    BY <2>4, <2>5 DEF CallSurvives
  <2> QED
    BY <1>1, <2>1, <2>2, <2>3, <2>6 DEF CallSurvives, IsFenced
<1> QED
  BY <1>4, <1>5, <1>6, <1>7, <1>8, <1>9, <1>10 DEF FInv, LogSurvives

-----------------------------------------------------------------------------
(* Every step of a caller keeps the invariant *)

\* Only the call of p moves.
OnlyCallMoves(p) == OnlyMoves(p) /\ \A q \in Proc \ {p} : view'[q] = view[q]

LateIsTyped == \A request \in late : IsFenced(request.head) \/ request.head.key \in Key

LEMMA MoveSurvives ==
  ASSUME FInv, TypeOK', NEW p \in Proc, OnlyCallMoves(p), LogSurvives', LateIsTyped',
         \A q \in Proc : Untouched(q) => CallSurvives(q)',
         CallIsTyped(p)', CallSurvives(p)'
  PROVE  FInv'
<1>1. ASSUME NEW q \in Proc
      PROVE  CallSurvives(q)'
  BY DEF OnlyCallMoves, OnlyMoves, Untouched
<1>2. ASSUME NEW q \in Proc
      PROVE  CallIsTyped(q)'
  <2>1. CASE q # p
    BY <2>1 DEF OnlyCallMoves, OnlyMoves, FInv, Typed, CallIsTyped, Arguments
  <2> QED
    BY <2>1
<1> QED
  BY <1>1, <1>2 DEF FInv, Typed, LateIsTyped

LEMMA LocalSurvives ==
  ASSUME FInv, TypeOK', NEW p \in Proc, OnlyCallMoves(p),
         UNCHANGED <<head, gen, records, late, chain>>, CallIsTyped(p)', CallSurvives(p)'
  PROVE  FInv'
<1>1. LateIsTyped'
  BY DEF FInv, Typed, LateIsTyped
<1>2. LogSurvives' /\ \A q \in Proc : Untouched(q) => CallSurvives(q)'
  BY QuietSurvives
<1> QED
  BY <1>1, <1>2, MoveSurvives

\* A call that has ended holds nothing.
LEMMA IdleSurvives ==
  ASSUME TypeOK, TypeOK', NEW p \in Proc, Finish(p)
  PROVE  OnlyMoves(p) /\ CallIsTyped(p)' /\ CallSurvives(p)'
<1>1. OnlyMoves(p) /\ pc'[p] = "idle" /\ swap'[p] = NoSwap
  BY FinishMovesOne
<1>2. NoSwap.expected <= gen'
  BY DEF NoSwap, TypeOK
<1>3. CallIsTyped(p)'
  BY <1>1 DEF CallIsTyped, Arguments, AppendPc, FencePc
<1>4. CallSurvives(p)'
  BY <1>1, <1>2 DEF CallSurvives
<1> QED
  BY <1>1, <1>3, <1>4

LEMMA EndSurvives ==
  ASSUME FInv, TypeOK', NEW p \in Proc, Finish(p), \A q \in Proc \ {p} : view'[q] = view[q],
         UNCHANGED <<head, gen, records, late, chain>>
  PROVE  FInv'
<1>1. OnlyMoves(p) /\ CallIsTyped(p)' /\ CallSurvives(p)'
  BY IdleSurvives DEF FInv, Typed
<1> QED
  BY <1>1, LocalSurvives DEF OnlyCallMoves

\* The call ends, and its write may still win.
LEMMA ForgetSurvives ==
  ASSUME FInv, TypeOK', NEW p \in Proc, pc[p] \in {"swap", "fence_swap"}, Finish(p),
         SendAndForget(p), \A q \in Proc \ {p} : view'[q] = view[q],
         UNCHANGED <<head, gen, records, chain>>
  PROVE  FInv'
<1>1. \A request \in late' : request \in late \/ (request = swap[p] /\ swap[p].expected = gen)
  BY DEF SendAndForget
<1>2. swap[p].expected = gen => Prepared(swap[p].head)
  BY DEF FInv, CallSurvives
<1>3. LogSurvives' /\ \A q \in Proc : Untouched(q) => CallSurvives(q)'
  BY <1>1, <1>2, QuietSurvives
<1>4. IsFenced(swap[p].head) \/ swap[p].head.key \in Key
  BY DEF FInv, Typed, CallIsTyped
<1>5. LateIsTyped'
  BY <1>1, <1>4 DEF LateIsTyped, FInv, Typed
<1>6. OnlyMoves(p) /\ CallIsTyped(p)' /\ CallSurvives(p)'
  BY IdleSurvives DEF FInv, Typed
<1> QED
  BY <1>3, <1>5, <1>6, MoveSurvives DEF OnlyCallMoves

LEMMA RefuseSurvives ==
  ASSUME FInv, TypeOK', NEW p \in Proc, Refuse(p)
  PROVE  FInv'
BY EndSurvives DEF Refuse, store

LEMMA CrashSurvives ==
  ASSUME FInv, TypeOK', NEW p \in Proc, Crash(p)
  PROVE  FInv'
<1>1. /\ Finish(p) /\ UNCHANGED <<head, gen, records, chain>>
      /\ \A q \in Proc \ {p} : view'[q] = view[q]
  BY DEF Crash, FInv, Typed, TypeOK
<1>2. CASE pc[p] \in {"swap", "fence_swap"}
  BY <1>1, <1>2, ForgetSurvives DEF Crash
<1>3. CASE pc[p] \notin {"swap", "fence_swap"}
  BY <1>1, <1>3, EndSurvives DEF Crash
<1> QED
  BY <1>2, <1>3

LEMMA UnansweredSurvives ==
  ASSUME FInv, TypeOK', NEW p \in Proc, Unanswered(p)
  PROVE  FInv'
<1>1. /\ pc[p] \in {"swap", "fence_swap"} /\ Finish(p) /\ SendAndForget(p)
      /\ UNCHANGED <<head, gen, records, view, chain>>
  BY DEF Unanswered, AppendUnconfirmed, FenceUnconfirmed, LoseAnswer
<1> QED
  BY <1>1, ForgetSurvives

LEMMA RetrySurvives ==
  ASSUME FInv, TypeOK', NEW p \in Proc, NEW label,
         (pc[p] = "swap" /\ label = "read") \/ (pc[p] = "fence_swap" /\ label = "fence_read"),
         Retry(p, label)
  PROVE  FInv'
<1>1. /\ pc' = [pc EXCEPT ![p] = label] /\ pc'[p] = label /\ call' = call /\ swap' = swap
      /\ wrote' = wrote /\ view' = view /\ UNCHANGED <<head, gen, records, late, chain>>
  BY DEF Retry, Goto, store, FInv, Typed, TypeOK
<1>2. OnlyCallMoves(p)
  BY <1>1 DEF OnlyCallMoves, OnlyMoves, FInv, Typed, TypeOK
<1>3. CallIsTyped(p)'
  BY <1>1 DEF FInv, Typed, CallIsTyped, Arguments, AppendPc, FencePc
<1>4. CallSurvives(p)'
  BY <1>1 DEF FInv, CallSurvives
<1> QED
  BY <1>1, <1>2, <1>3, <1>4, LocalSurvives

LEMMA BeginSurvives ==
  ASSUME FInv, TypeOK', NEW p \in Proc, NEW label, NEW arguments, Begin(p, label, arguments),
         \/ label = "read" /\ arguments \in AppendCall
         \/ label = "fence_read" /\ arguments \in [attempt : Attempt]
         \/ label \in {"replay_read", "inventory_read"}
  PROVE  FInv'
<1>1. /\ pc' = [pc EXCEPT ![p] = label] /\ pc'[p] = label /\ call'[p] = arguments /\ swap' = swap
      /\ call' = [call EXCEPT ![p] = arguments]
      /\ wrote' = wrote /\ view' = view /\ UNCHANGED <<head, gen, records, late, chain>>
  BY DEF Begin, Goto, store, FInv, Typed, TypeOK
<1>2. OnlyCallMoves(p)
  BY <1>1 DEF OnlyCallMoves, OnlyMoves, FInv, Typed, TypeOK
<1>3. CallIsTyped(p)'
  BY <1>1 DEF CallIsTyped, Arguments, AppendPc, FencePc
<1>4. CallSurvives(p)'
  BY <1>1 DEF FInv, CallSurvives
<1> QED
  BY <1>1, <1>2, <1>3, <1>4, LocalSurvives

LEMMA BeginCallSurvives ==
  ASSUME FInv, TypeOK', NEW p \in Proc, BeginCall(p)
  PROVE  FInv'
<1>1. ASSUME BeginAppend(p)
      PROVE  FInv'
  <2>1. PICK payload \in Payload, snapshot \in BOOLEAN :
          Begin(p, "read", [payload |-> payload, snapshot |-> snapshot])
    BY <1>1 DEF BeginAppend
  <2>2. [payload |-> payload, snapshot |-> snapshot] \in AppendCall
    BY DEF AppendCall
  <2> QED
    BY <2>1, <2>2, BeginSurvives
<1>2. ASSUME BeginFence(p)
      PROVE  FInv'
  <2>1. PICK attempt \in Attempt : Begin(p, "fence_read", [attempt |-> attempt])
    BY <1>2 DEF BeginFence
  <2>2. [attempt |-> attempt] \in [attempt : Attempt]
    OBVIOUS
  <2> QED
    BY <2>1, <2>2, BeginSurvives
<1>3. ASSUME BeginReplay(p)
      PROVE  FInv'
  BY <1>3, BeginSurvives DEF BeginReplay
<1>4. ASSUME BeginInventory(p)
      PROVE  FInv'
  BY <1>4, BeginSurvives DEF BeginInventory
<1> QED
  BY <1>1, <1>2, <1>3, <1>4 DEF BeginCall

\* The present head is read.
LEMMA ReadSurvives ==
  ASSUME FInv, TypeOK', NEW p \in Proc, NEW label, ReadHead(p, label),
         \/ pc[p] = "read" /\ ~IsFenced(head) /\ label = IF head.seq = 0 THEN "put" ELSE "verify"
         \/ pc[p] = "fence_read" /\ ~IsFenced(head) /\ label = "fence_walk"
         \/ label \in {"replay_walk", "inventory_walk"}
  PROVE  FInv'
<1>1. /\ pc' = [pc EXCEPT ![p] = label] /\ pc'[p] = label /\ call' = call
      /\ swap' = [swap EXCEPT ![p] = [expected |-> gen, head |-> head]]
      /\ swap'[p].expected = gen /\ swap'[p].head = head
      /\ wrote' = wrote /\ view' = view /\ UNCHANGED <<head, gen, records, late, chain>>
      /\ gen \in Nat
  BY DEF ReadHead, Goto, store, FInv, Typed, TypeOK
<1>2. OnlyCallMoves(p)
  BY <1>1 DEF OnlyCallMoves, OnlyMoves, FInv, Typed, TypeOK
<1>3. CallIsTyped(p)'
  BY <1>1 DEF FInv, Typed, CallIsTyped, Arguments, AppendPc, FencePc
<1>4. NamesPosition(head)'
  <2>1. NamesPosition(head)
    <3>1. Len(chain) \in 0 .. Len(chain) /\ head.seq = Len(chain) /\ PastSha(Len(chain)) = head.sha
      BY PastIsTyped DEF FInv, Typed, LogSurvives
    <3> QED
      BY <3>1 DEF NamesPosition, FInv, LogSurvives, HeadIsNewest
  <2> QED
    BY <1>1, <2>1 DEF NamesPosition, KeyAt, PastSha
<1>5. label = "put" => Whole'
  BY <1>1 DEF Whole
<1>6. CallSurvives(p)'
  BY <1>1, <1>4, <1>5 DEF CallSurvives, IsFenced
<1> QED
  BY <1>1, <1>2, <1>3, <1>6, LocalSurvives

\* append finds the record of the head before it goes on.
LEMMA VerifySurvives ==
  ASSUME FInv, TypeOK', NEW p \in Proc, AppendVerify(p)
  PROVE  FInv'
<1>1. /\ pc[p] = "verify" /\ PredecessorVerifies(swap[p].head)
      /\ pc' = [pc EXCEPT ![p] = "put"] /\ pc'[p] = "put" /\ call' = call /\ swap' = swap
      /\ wrote' = wrote /\ view' = view /\ UNCHANGED <<head, gen, records, late, chain>>
  BY DEF AppendVerify, Goto, store, FInv, Typed, TypeOK
<1>2. OnlyCallMoves(p)
  BY <1>1 DEF OnlyCallMoves, OnlyMoves, FInv, Typed, TypeOK
<1>3. CallIsTyped(p)'
  BY <1>1 DEF FInv, Typed, CallIsTyped, Arguments, AppendPc, FencePc
<1>4. CallSurvives(p)
  BY DEF FInv
<1>5. swap[p].expected = gen => Whole'
  BY <1>1, <1>4 DEF CallSurvives, Whole, PredecessorVerifies
<1>6. ~RolledBack' => NamesPosition(swap[p].head)'
  BY <1>1, <1>4 DEF CallSurvives, RolledBack, IsFenced, NamesPosition, KeyAt, PastSha
<1>7. CallSurvives(p)'
  BY <1>1, <1>4, <1>5, <1>6 DEF CallSurvives, IsFenced
<1> QED
  BY <1>1, <1>2, <1>3, <1>7, LocalSurvives

\* A call that has its head prepared will swap it in.
LEMMA PreparedSurvives ==
  ASSUME NEW p \in Proc, pc'[p] \in {"swap", "fence_swap"}, NEW h, swap'[p].head = h,
         swap'[p].expected <= gen', swap'[p].expected = gen' => Prepared(h)'
  PROVE  CallSurvives(p)'
BY DEF CallSurvives

LEMMA AppendPutSurvives ==
  ASSUME FInv, TypeOK', NEW p \in Proc, AppendPut(p)
  PROVE  FInv'
<1>1. PICK token \in Token :
        LET record == RecordAfter(swap[p].head, call[p].payload)
            key == <<record.seq, token>>
        IN  /\ pc[p] = "put"
            /\ key \notin DOMAIN records
            /\ records' = [k \in DOMAIN records \cup {key} |->
                             IF k = key THEN record ELSE records[k]]
            /\ WillSwapIn(p, HeadOf(key, record))
            /\ wrote' = [wrote EXCEPT ![p] = @ \cup {key}]
            /\ Goto(p, "swap")
            /\ UNCHANGED <<head, gen, late, call, tries, view, chain, results>>
  BY DEF AppendPut
<1> DEFINE h == swap[p].head
           record == RecordAfter(h, call[p].payload)
           key == <<record.seq, token>>
           won == HeadOf(key, record)
<1>2. /\ pc[p] = "put" /\ key \notin DOMAIN records
      /\ records' = [k \in DOMAIN records \cup {key} |-> IF k = key THEN record ELSE records[k]]
      /\ swap' = [swap EXCEPT ![p] = [expected |-> swap[p].expected, head |-> won]]
      /\ swap'[p].expected = swap[p].expected /\ swap'[p].head = won
      /\ wrote' = [wrote EXCEPT ![p] = @ \cup {key}]
      /\ pc' = [pc EXCEPT ![p] = "swap"] /\ pc'[p] = "swap"
      /\ UNCHANGED <<head, gen, late, call, view, chain>>
  BY <1>1 DEF WillSwapIn, Goto, FInv, Typed, TypeOK
<1>3. /\ record.seq = h.seq + 1 /\ record.prevKey = h.key /\ record.prevSha = h.sha
      /\ record.sha = Append(h.sha, call[p].payload) /\ record.payload = call[p].payload
  BY DEF RecordAfter
<1>4. /\ won.seq = record.seq /\ won.key = key /\ won.sha = record.sha /\ ~IsFenced(won)
      /\ key[1] = record.seq
  BY DEF HeadOf, IsFenced
<1>5. key \in Key
  BY <1>3 DEF FInv, Typed, TypeOK, Swap, HeadFile, Key
<1> HIDE DEF h, record, key, won
<1>6. /\ LogSurvives' /\ \A q \in Proc : Untouched(q) => CallSurvives(q)'
      /\ Whole => Whole'
      /\ RolledBack' <=> RolledBack
  BY <1>2, <1>3, <1>4, PutSurvives DEF h
<1>7. OnlyCallMoves(p)
  BY <1>2 DEF OnlyCallMoves, OnlyMoves, FInv, Typed, TypeOK
<1>8. CallIsTyped(p)'
  BY <1>2, <1>4, <1>5 DEF FInv, Typed, CallIsTyped, Arguments, AppendPc, FencePc, IsFenced
<1>9. LateIsTyped'
  BY <1>2 DEF FInv, Typed, LateIsTyped
<1>10. CallSurvives(p)'
  <2>1. CallSurvives(p) /\ swap[p].expected <= gen'
    BY <1>2 DEF FInv, CallSurvives
  <2>2. PICK w : w = won
    OBVIOUS
  <2>3. ASSUME swap[p].expected = gen
        PROVE  Prepared(w)'
    <3>1. h = head /\ ~IsFenced(head) /\ Whole
      BY <1>2, <2>1, <2>3 DEF CallSurvives, h
    <3>2. ~IsFenced(head)' /\ Whole'
      BY <1>2, <1>6, <3>1 DEF IsFenced
    <3>3. w.seq = head.seq + 1 /\ w.key \in DOMAIN records' /\ w.key[1] = w.seq /\ ~IsFenced(w)
      BY <1>2, <1>3, <1>4, <2>2, <3>1
    <3>4. /\ records'[w.key].sha = w.sha /\ records'[w.key].prevKey = head.key
          /\ records'[w.key].prevSha = head.sha
      <4>1. records'[key] = record
        BY <1>2
      <4> QED
        BY <1>3, <1>4, <2>2, <3>1, <4>1
    <3>5. head' = head
      BY <1>2
    <3> QED
      BY <3>2, <3>3, <3>4, <3>5 DEF Prepared, ContinuesHead, IsFenced
  <2>4. swap'[p].head = w /\ swap'[p].expected <= gen' /\ (swap'[p].expected = gen' => Prepared(w)')
    BY <1>2, <2>1, <2>2, <2>3
  <2> QED
    BY <1>2, <2>4, PreparedSurvives
<1> QED
  BY <1>6, <1>7, <1>8, <1>9, <1>10, MoveSurvives

LEMMA AppendWinsSurvives ==
  ASSUME FInv, TypeOK', NEW p \in Proc, AppendWins(p)
  PROVE  FInv'
<1>1. /\ pc[p] = "swap" /\ SwapHead(swap[p]) /\ Finish(p) /\ records' = records /\ view' = view
      /\ late' = {} /\ swap[p] \in Swap
  BY DEF AppendWins, SwapHead, FInv, Typed, TypeOK
<1>2. Prepared(swap[p].head)
  BY <1>1 DEF FInv, CallSurvives, SwapHead
<1>3. LogSurvives' /\ \A q \in Proc : Untouched(q) => CallSurvives(q)'
  BY <1>1, <1>2, CommitSurvives
<1>4. LateIsTyped'
  BY <1>1 DEF LateIsTyped
<1>5. OnlyMoves(p) /\ CallIsTyped(p)' /\ CallSurvives(p)'
  BY <1>1, IdleSurvives DEF FInv, Typed
<1> QED
  BY <1>1, <1>3, <1>4, <1>5, MoveSurvives DEF OnlyCallMoves

LEMMA FenceWinsSurvives ==
  ASSUME FInv, TypeOK', NEW p \in Proc, FenceWins(p)
  PROVE  FInv'
<1>1. /\ pc[p] = "fence_swap" /\ SwapHead(swap[p]) /\ records' = records /\ late' = {}
      /\ pc' = [pc EXCEPT ![p] = "fence_confirm"] /\ pc'[p] = "fence_confirm"
      /\ swap' = swap /\ call' = call /\ wrote' = wrote /\ view' = view
      /\ swap[p] \in Swap /\ gen' = gen + 1 /\ gen \in Nat
  BY DEF FenceWins, SwapHead, Goto, FInv, Typed, TypeOK
<1>2. Prepared(swap[p].head)
  BY <1>1 DEF FInv, CallSurvives, SwapHead
<1>3. LogSurvives' /\ \A q \in Proc : Untouched(q) => CallSurvives(q)'
  BY <1>1, <1>2, CommitSurvives
<1>4. LateIsTyped'
  BY <1>1 DEF LateIsTyped
<1>5. OnlyCallMoves(p)
  BY <1>1 DEF OnlyCallMoves, OnlyMoves, FInv, Typed, TypeOK
<1>6. CallIsTyped(p)'
  BY <1>1 DEF FInv, Typed, CallIsTyped, Arguments, AppendPc, FencePc
<1>7. CallSurvives(p)'
  <2>1. swap[p].expected <= gen /\ swap[p].expected \in Nat
    BY <1>1 DEF FInv, CallSurvives, Swap
  <2>2. swap'[p].expected <= gen' /\ swap'[p].expected # gen'
    BY <1>1, <2>1
  <2> QED
    BY <1>1, <2>2 DEF CallSurvives
<1> QED
  BY <1>3, <1>4, <1>5, <1>6, <1>7, MoveSurvives

LEMMA LateSwapSurvives ==
  ASSUME FInv, TypeOK', LateSwap
  PROVE  FInv'
<1>1. PICK request \in late : SwapHead(request) /\ UNCHANGED <<records, local, results>>
  BY DEF LateSwap
<1>2. request \in Swap /\ Prepared(request.head) /\ late' = {}
  BY <1>1 DEF FInv, Typed, TypeOK, LogSurvives, SwapHead
<1>3. LogSurvives' /\ \A q \in Proc : Untouched(q) => CallSurvives(q)'
  BY <1>1, <1>2, CommitSurvives
<1>4. ASSUME NEW q \in Proc
      PROVE  CallSurvives(q)' /\ CallIsTyped(q)'
  BY <1>1, <1>3 DEF local, Untouched, FInv, Typed, CallIsTyped, Arguments
<1> QED
  BY <1>2, <1>3, <1>4 DEF FInv, Typed

\* fence_for_erasure finds the whole history before it goes on.
LEMMA FenceWalkSurvives ==
  ASSUME FInv, TypeOK', NEW p \in Proc, FenceWalk(p)
  PROVE  FInv'
<1> DEFINE h == swap[p].head
           marker == MarkerOver(h, call[p].attempt)
<1>1. /\ pc[p] = "fence_walk" /\ ChainVerifies(h, Origin)
      /\ swap' = [swap EXCEPT ![p] = [expected |-> swap[p].expected, head |-> marker]]
      /\ swap'[p].expected = swap[p].expected /\ swap'[p].head = marker
      /\ pc' = [pc EXCEPT ![p] = "fence_swap"] /\ pc'[p] = "fence_swap"
      /\ call' = call /\ wrote' = wrote /\ view' = view
      /\ UNCHANGED <<head, gen, records, late, chain>>
  BY DEF FenceWalk, WillSwapIn, Goto, store, FInv, Typed, TypeOK
<1>2. call[p].attempt \in Attempt
  BY <1>1 DEF FInv, Typed, CallIsTyped, Arguments, FencePc
<1>3. IsFenced(marker) /\ PositionOf(marker) = PositionOf(h)
  BY <1>2, NoAttemptAssumption DEF MarkerOver, IsFenced, PositionOf
<1> HIDE DEF marker
<1>4. OnlyCallMoves(p)
  BY <1>1 DEF OnlyCallMoves, OnlyMoves, FInv, Typed, TypeOK
<1>5. CallIsTyped(p)'
  BY <1>1, <1>3 DEF FInv, Typed, CallIsTyped, Arguments, AppendPc, FencePc, IsFenced
<1>6. CallSurvives(p)'
  <2>1. CallSurvives(p) /\ swap[p].expected <= gen'
    BY <1>1 DEF FInv, CallSurvives
  <2>2. PICK w : w = marker
    OBVIOUS
  <2>3. ASSUME swap[p].expected = gen
        PROVE  Prepared(w)'
    <3>1. h = head /\ ~IsFenced(head)
      BY <1>1, <2>1, <2>3 DEF CallSurvives
    <3>2. Whole
      BY <1>1, <3>1, VerifiedIsWhole DEF FInv, Typed
    <3>3. Whole' /\ ~IsFenced(head)'
      BY <1>1, <3>1, <3>2 DEF Whole, PredecessorVerifies, IsFenced
    <3>4. IsFenced(w) /\ PositionOf(w) = PositionOf(head) /\ head' = head
      BY <1>1, <1>3, <2>2, <3>1
    <3> QED
      BY <3>3, <3>4 DEF Prepared, IsFenced, PositionOf
  <2>4. swap'[p].head = w /\ swap'[p].expected <= gen' /\ (swap'[p].expected = gen' => Prepared(w)')
    BY <1>1, <2>1, <2>2, <2>3
  <2> QED
    BY <1>1, <2>4, PreparedSurvives
<1> QED
  BY <1>1, <1>4, <1>5, <1>6, LocalSurvives

\* A replay that has verified its walk will publish an extension of its cursor.
LEMMA ReplayWalkSurvives ==
  ASSUME FInv, TypeOK', NEW p \in Proc, ReplayWalk(p)
  PROVE  FInv'
<1>1. /\ pc[p] = "replay_walk" /\ ChainVerifies(swap[p].head, view[p])
      /\ pc' = [pc EXCEPT ![p] = "replay_open"] /\ pc'[p] = "replay_open"
      /\ call' = call /\ swap' = swap /\ wrote' = wrote /\ view' = view
      /\ UNCHANGED <<head, gen, records, late, chain>>
      /\ swap[p].head \in HeadFile /\ view[p] \in Position
  BY DEF ReplayWalk, Goto, store, FInv, Typed, TypeOK, Swap
<1>2. OnlyCallMoves(p)
  BY <1>1 DEF OnlyCallMoves, OnlyMoves, FInv, Typed, TypeOK
<1>3. CallIsTyped(p)'
  BY <1>1 DEF FInv, Typed, CallIsTyped, Arguments, AppendPc, FencePc
<1>4. IsPrefixOf(view[p].sha, swap[p].head.sha)
  BY <1>1, WalkExtends DEF FInv, Typed, LogSurvives
<1>5. CallSurvives(p)'
  BY <1>1, <1>4 DEF FInv, CallSurvives
<1> QED
  BY <1>1, <1>2, <1>3, <1>5, LocalSurvives

LEMMA ReplayOpenSurvives ==
  ASSUME FInv, TypeOK', NEW p \in Proc, ReplayOpen(p)
  PROVE  FInv'
<1>1. /\ pc[p] = "replay_open"
      /\ pc' = [pc EXCEPT ![p] = "replay_release"] /\ pc'[p] = "replay_release"
      /\ call' = call /\ swap' = swap /\ wrote' = wrote /\ view' = view
      /\ UNCHANGED <<head, gen, records, late, chain>>
  BY DEF ReplayOpen, Goto, store, FInv, Typed, TypeOK
<1>2. OnlyCallMoves(p)
  BY <1>1 DEF OnlyCallMoves, OnlyMoves, FInv, Typed, TypeOK
<1>3. CallIsTyped(p)'
  BY <1>1 DEF FInv, Typed, CallIsTyped, Arguments, AppendPc, FencePc
<1>4. CallSurvives(p)'
  BY <1>1 DEF FInv, CallSurvives
<1> QED
  BY <1>1, <1>2, <1>3, <1>4, LocalSurvives

LEMMA AppendStepSurvives ==
  ASSUME FInv, TypeOK', NEW p \in Proc, AppendStep(p)
  PROVE  FInv'
<1>1. ASSUME AppendRead(p)
      PROVE  FInv'
  BY <1>1, ReadSurvives DEF AppendRead
<1>2. ASSUME AppendRefused(p) \/ AppendTampered(p) \/ AppendPutCollides(p)
      PROVE  FInv'
  BY <1>2, RefuseSurvives DEF AppendRefused, AppendTampered, AppendPutCollides
<1>3. ASSUME AppendLoses(p)
      PROVE  FInv'
  BY <1>3, RetrySurvives, RefuseSurvives DEF AppendLoses, GiveUp
<1> QED
  BY <1>1, <1>2, <1>3, VerifySurvives, AppendPutSurvives, AppendWinsSurvives DEF AppendStep

LEMMA FenceStepSurvives ==
  ASSUME FInv, TypeOK', NEW p \in Proc, FenceStep(p)
  PROVE  FInv'
<1>1. ASSUME FenceRead(p)
      PROVE  FInv'
  BY <1>1, ReadSurvives DEF FenceRead
<1>2. ASSUME Fenced(p)
      PROVE  FInv'
  BY <1>2, EndSurvives DEF Fenced, store
<1>3. ASSUME FenceFound(p) \/ FenceTampered(p) \/ FenceConfirm(p) \/ FenceContradicted(p)
      PROVE  FInv'
  BY <1>2, <1>3, RefuseSurvives DEF FenceFound, FenceTampered, FenceConfirm, FenceContradicted
<1>4. ASSUME FenceLoses(p)
      PROVE  FInv'
  BY <1>4, RetrySurvives, RefuseSurvives DEF FenceLoses, GiveUp
<1> QED
  BY <1>1, <1>3, <1>4, FenceWalkSurvives, FenceWinsSurvives DEF FenceStep

LEMMA ReadersStepSurvives ==
  ASSUME FInv, TypeOK', NEW p \in Proc, ReplayStep(p) \/ InventoryStep(p)
  PROVE  FInv'
<1>1. ASSUME ReplayRead(p) \/ InventoryRead(p)
      PROVE  FInv'
  BY <1>1, ReadSurvives DEF ReplayRead, InventoryRead
<1>2. ASSUME ReplayRefused(p) \/ ReplayWalkFails(p) \/ InventoryRefused(p)
      PROVE  FInv'
  BY <1>2, RefuseSurvives DEF ReplayRefused, ReplayWalkFails, InventoryRefused
<1>3. ASSUME ReplayPublish(p) \/ InventoryWalk(p)
      PROVE  FInv'
  <2>1. /\ Finish(p) /\ UNCHANGED <<head, gen, records, late, chain>>
        /\ \A q \in Proc \ {p} : view'[q] = view[q]
    BY <1>3 DEF ReplayPublish, InventoryWalk, store, FInv, Typed, TypeOK
  <2> QED
    BY <2>1, EndSurvives
<1> QED
  BY <1>1, <1>2, <1>3, ReplayWalkSurvives, ReplayOpenSurvives DEF ReplayStep, InventoryStep

LEMMA FaultsInitSurvives ==
  ASSUME Init
  PROVE  FInv
<1>1. Typed
  BY InitEstablishesIInv, IInvIsTyped
<1>2. /\ head = AbsentHead /\ gen = 0 /\ DOMAIN records = {} /\ late = {} /\ chain = << >>
      /\ Len(chain) = 0 /\ \A p \in Proc : pc[p] = "idle" /\ swap[p] = NoSwap
  BY DEF Init
<1>3. RecordsBind /\ HeadIsNewest /\ LogIsLinked
  <2>1. 1 .. Len(chain) = {}
    BY <1>2
  <2>2. head.seq = 0 /\ head.key = NoKey /\ Len(head.sha) = 0
    BY <1>2 DEF AbsentHead
  <2> QED
    BY <1>2, <2>1, <2>2 DEF RecordsBind, HeadIsNewest, LogIsLinked, KeyAt
<1>4. Whole
  BY <1>2 DEF Whole, AbsentHead
<1>5. \A p \in Proc : CallSurvives(p)
  BY <1>2 DEF CallSurvives, NoSwap
<1> QED
  BY <1>1, <1>2, <1>3, <1>4, <1>5 DEF FInv, LogSurvives

LEMMA NextSurvives ==
  ASSUME FInv, [Next]_vars
  PROVE  FInv'
<1>1. TypeOK'
  BY TypesArePreserved DEF FInv
<1>2. CASE UNCHANGED vars
  <2>1. LogSurvives' /\ \A q \in Proc : Untouched(q) => CallSurvives(q)'
    BY <1>2, QuietSurvives DEF vars, store, FInv, LogSurvives
  <2>2. \A q \in Proc : CallIsTyped(q)' /\ CallSurvives(q)'
    BY <1>2, <2>1 DEF vars, local, Untouched, FInv, Typed, CallIsTyped, Arguments
  <2>3. LateIsTyped'
    BY <1>2 DEF vars, store, FInv, Typed, LateIsTyped
  <2> QED
    BY <1>1, <2>1, <2>2, <2>3 DEF FInv, Typed, LateIsTyped
<1>3. CASE LateSwap
  BY <1>1, <1>3, LateSwapSurvives
<1>4. CASE \E p \in Proc : BeginCall(p) \/ Step(p) \/ Unanswered(p) \/ Crash(p)
  <2>1. PICK p \in Proc : BeginCall(p) \/ Step(p) \/ Unanswered(p) \/ Crash(p)
    BY <1>4
  <2>2. CASE BeginCall(p)
    BY <1>1, <2>2, BeginCallSurvives
  <2>3. CASE Step(p)
    BY <1>1, <2>3, AppendStepSurvives, FenceStepSurvives, ReadersStepSurvives DEF Step
  <2>4. CASE Unanswered(p)
    BY <1>1, <2>4, UnansweredSurvives
  <2>5. CASE Crash(p)
    BY <1>1, <2>5, CrashSurvives
  <2> QED
    BY <2>1, <2>2, <2>3, <2>4, <2>5
<1> QED
  BY <1>2, <1>3, <1>4 DEF Next

LEMMA FaultsNextSurvives ==
  ASSUME FInv, [FaultsNext]_vars
  PROVE  FInv'
BY NextSurvives, RollbackSurvives, LossSurvives DEF FaultsNext

\* Whatever head the store serves again or whatever record it loses, among any
\* number of callers that race, crash and leave writes under way: what is stored
\* of the log stays linked, only its newest record can be missing, and no head is
\* ever prepared on a record that is not there (append reads the predecessor and
\* fence_for_erasure the whole history before they write).
THEOREM TheLogSurvives == FaultsSpec => []FInv
<1>1. Init => FInv
  BY FaultsInitSurvives
<1>2. FInv /\ [FaultsNext]_vars => FInv'
  BY FaultsNextSurvives
<1> QED
  BY <1>1, <1>2, PTL DEF FaultsSpec

\* A loss is not built over: append refuses a head whose record is missing, so a
\* committed record that the store lost stays the newest one, where the next
\* append, replay or fence runs into it.
THEOREM NoLossIsBuiltOver == FaultsSpec => []LossIsNotBuiltOver
<1>1. FInv => LossIsNotBuiltOver
  <2> SUFFICES ASSUME FInv, NEW i \in DOMAIN chain, chain[i] \notin DOMAIN records
               PROVE  i = Len(chain)
    BY DEF LossIsNotBuiltOver
  <2>1. i \in 1 .. Len(chain) /\ Len(chain) \in Nat
    BY PastIsTyped DEF FInv, Typed, TypeOK, LogSurvives
  <2> QED
    BY <2>1 DEF FInv, LogSurvives, LogIsLinked
<1> QED
  BY <1>1, TheLogSurvives, PTL

\* A loss is not closed over: behind a fence the whole history verifies, however
\* the store served older heads and lost records before.
THEOREM NoLossIsFenced == FaultsSpec => []LossIsNotFenced
<1>1. FInv => LossIsNotFenced
  BY WholeVerifies DEF FInv, Typed, LogSurvives, LossIsNotFenced
<1> QED
  BY <1>1, TheLogSurvives, PTL

LEMMA CursorsAdvance ==
  ASSUME FInv, [FaultsNext]_vars, NEW p \in Proc, view'[p] # Origin
  PROVE  IsPrefixOf(view[p].sha, view'[p].sha)
<1>1. view[p].sha \in Seq(Payload) /\ Len(view[p].sha) \in Nat
  BY DEF FInv, Typed, TypeOK, Position, Sha
<1>2. IsPrefixOf(view[p].sha, view[p].sha)
  BY <1>1, SubSeqFull DEF IsPrefixOf
<1>3. CASE view'[p] = view[p]
  BY <1>2, <1>3
<1>4. CASE view'[p] # view[p]
  <2>1. [Next]_vars
    BY <1>4 DEF FaultsNext, Rollback, LoseTail, local
  <2>2. ReplayPublish(p)
    BY <1>4, <2>1, CursorsMoveByReplay DEF FInv, Typed
  <2>3. pc[p] = "replay_release" /\ view'[p].sha = swap[p].head.sha
    BY <2>2 DEF ReplayPublish, PositionOf, FInv, Typed, TypeOK
  <2> QED
    BY <2>3 DEF FInv, CallSurvives
<1> QED
  BY <1>3, <1>4

\* A reader never silently changes its mind about the past: whatever head the
\* store serves, replay_since only ever extends the history that a live cursor
\* stands for.
THEOREM CursorsNeverGoBack == FaultsSpec => CursorsOnlyAdvance
<1>1. FInv /\ [FaultsNext]_vars =>
        [\A p \in Proc : view'[p] # Origin => IsPrefixOf(view[p].sha, view'[p].sha)]_vars
  BY CursorsAdvance
<1> QED
  BY <1>1, TheLogSurvives, PTL DEF FaultsSpec, CursorsOnlyAdvance
=============================================================================
