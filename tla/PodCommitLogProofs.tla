-------------------------- MODULE PodCommitLogProofs --------------------------
(***************************************************************************)
(* Proofs about PodCommitLog, for any number of callers, payloads, tokens  *)
(* and erasure attempts, any retry count and any log length.               *)
(***************************************************************************)
EXTENDS PodCommitLog, SequenceTheorems, TLAPS

USE DEF Key, Sha

-----------------------------------------------------------------------------
(* Types *)

LEMMA DefaultsAreTyped ==
  /\ AbsentHead \in HeadFile
  /\ Origin \in Position
  /\ NoSwap \in Swap
  /\ NoCall \in AppendCall \cup EraseCall
BY DEF AbsentHead, HeadFile, Origin, Position, NoSwap, Swap, NoCall, EraseCall

LEMMA PositionIsTyped ==
  ASSUME NEW h \in HeadFile PROVE PositionOf(h) \in Position
BY DEF PositionOf, Position, HeadFile

LEMMA RecordIsTyped ==
  ASSUME NEW h \in HeadFile, NEW payload \in Payload, NEW token \in Token
  PROVE  LET record == RecordAfter(h, payload)
             key == <<record.seq, token>>
         IN  /\ record \in Record
             /\ key \in Key
             /\ HeadOf(key, record) \in HeadFile
BY DEF RecordAfter, HeadOf, Record, HeadFile

LEMMA FinishIsTyped ==
  ASSUME TypeOK, NEW p \in Proc, Finish(p)
  PROVE  /\ pc' \in [Proc -> Pc]
         /\ call' \in [Proc -> AppendCall \cup EraseCall]
         /\ swap' \in [Proc -> Swap]
         /\ tries' \in [Proc -> 0 .. MaxRetries - 1]
         /\ wrote' \in [Proc -> SUBSET Key]
BY DefaultsAreTyped, RetriesAssumption DEF TypeOK, Finish, Goto, Pc

LEMMA RefuseIsTyped ==
  ASSUME TypeOK, NEW p \in Proc, Refuse(p)
  PROVE  TypeOK'
BY FinishIsTyped DEF TypeOK, Refuse, store

LEMMA RetryIsTyped ==
  ASSUME TypeOK, NEW p \in Proc, NEW label \in Pc, Retry(p, label)
  PROVE  TypeOK'
BY RetriesAssumption DEF TypeOK, Retry, Goto, store, results

LEMMA ReadHeadIsTyped ==
  ASSUME TypeOK, NEW p \in Proc, NEW label \in Pc, ReadHead(p, label)
  PROVE  TypeOK'
BY DEF TypeOK, ReadHead, Goto, store, results, Swap

LEMMA BeginIsTyped ==
  ASSUME TypeOK, NEW p \in Proc, NEW label \in Pc,
         NEW arguments \in AppendCall \cup EraseCall, Begin(p, label, arguments)
  PROVE  TypeOK'
BY DEF TypeOK, Begin, Goto, store, results

LEMMA SwapHeadIsTyped ==
  ASSUME TypeOK, NEW request \in Swap, SwapHead(request),
         IsFenced(request.head) \/ request.head.key \in Key
  PROVE  /\ head' \in HeadFile
         /\ gen' \in Nat
         /\ late' \subseteq Swap
         /\ chain' \in Seq(Key)
BY DEF TypeOK, SwapHead, Swap

LEMMA SendAndForgetIsTyped ==
  ASSUME TypeOK, NEW p \in Proc, SendAndForget(p)
  PROVE  late' \subseteq Swap
BY DEF TypeOK, SendAndForget

\* What the calls hold and the writes that nobody waits for are of the right
\* kind, for the types to be kept.  This much holds whatever the store loses.
CallIsTyped(p) ==
  /\ Arguments(p)
  /\ pc[p] = "swap" => ~IsFenced(swap[p].head) /\ swap[p].head.key \in Key
  /\ pc[p] = "fence_swap" => IsFenced(swap[p].head)

Typed ==
  /\ TypeOK
  /\ \A request \in late : IsFenced(request.head) \/ request.head.key \in Key
  /\ \A p \in Proc : CallIsTyped(p)

LEMMA IInvIsTyped ==
  ASSUME IInv
  PROVE  Typed
<1>1. \A request \in late : IsFenced(request.head) \/ request.head.key \in Key
  BY DEF IInv, TypeOK, LateSwapsExtend, Extends
<1>2. ASSUME NEW p \in Proc
      PROVE  pc[p] = "swap" => ~IsFenced(swap[p].head) /\ swap[p].head.key \in Key
  BY DEF IInv, TypeOK, HeldHead, OwnRecords
<1> QED
  BY <1>1, <1>2 DEF IInv, Typed, CallIsTyped, HeldHead

LEMMA AppendStepIsTyped ==
  ASSUME Typed, NEW p \in Proc, AppendStep(p)
  PROVE  TypeOK'
<1>1. CASE AppendRead(p)
  BY <1>1, ReadHeadIsTyped DEF Typed, AppendRead, Pc, AppendPc
<1>2. CASE AppendRefused(p)
  BY <1>2, RefuseIsTyped DEF Typed, AppendRefused
<1>3. CASE AppendVerify(p)
  BY <1>3 DEF Typed, TypeOK, AppendVerify, Goto, store, results, Pc, AppendPc
<1>4. CASE AppendTampered(p)
  BY <1>4, RefuseIsTyped DEF Typed, AppendTampered
<1>5. CASE AppendPut(p)
  <2>1. PICK token \in Token :
          LET record == RecordAfter(swap[p].head, call[p].payload)
              key == <<record.seq, token>>
          IN  /\ pc[p] = "put"
              /\ key \notin DOMAIN records
              /\ records' = [k \in DOMAIN records \cup {key} |->
                               IF k = key THEN record ELSE records[k]]
              /\ WillSwapIn(p, HeadOf(key, record))
              /\ wrote' = [wrote EXCEPT ![p] = @ \cup {key}]
              /\ Goto(p, "swap")
              /\ UNCHANGED <<head, gen, late, call, tries, view, chain, results>>
    BY <1>5 DEF AppendPut
  <2>2. swap[p] \in Swap /\ call[p].payload \in Payload
    BY <2>1 DEF Typed, TypeOK, CallIsTyped, Arguments, AppendPc, AppendCall
  <2> QED
    BY <2>1, <2>2, RecordIsTyped DEF Typed, TypeOK, Goto, WillSwapIn, results, Pc, AppendPc, Swap
<1>6. CASE AppendPutCollides(p)
  BY <1>6, RefuseIsTyped DEF Typed, AppendPutCollides
<1>7. CASE AppendWins(p)
  <2>1. swap[p] \in Swap /\ swap[p].head.key \in Key /\ call[p] \in AppendCall
    BY <1>7 DEF Typed, TypeOK, AppendWins, CallIsTyped, Arguments, AppendPc
  <2>2. /\ head' \in HeadFile /\ gen' \in Nat
        /\ late' \subseteq Swap /\ chain' \in Seq(Key)
    BY <1>7, <2>1, SwapHeadIsTyped DEF Typed, AppendWins
  <2>3. [key |-> swap[p].head.key, seq |-> swap[p].head.seq,
         snapshot |-> call[p].snapshot, base |-> view[p]]
          \in [key : Key, seq : Nat, snapshot : BOOLEAN, base : Position]
    BY <2>1 DEF Typed, TypeOK, Swap, HeadFile, AppendCall
  <2>4. acked' \subseteq [key : Key, seq : Nat, snapshot : BOOLEAN, base : Position]
    BY <1>7, <2>3 DEF Typed, TypeOK, AppendWins
  <2>5. orphans' \subseteq Key
    BY <1>7 DEF Typed, TypeOK, AppendWins
  <2>6. UNCHANGED <<records, view, fencedFor, inventories>>
    BY <1>7 DEF AppendWins
  <2> QED
    BY <1>7, <2>2, <2>4, <2>5, <2>6, FinishIsTyped DEF Typed, TypeOK, AppendWins
<1>8. CASE AppendLoses(p)
  <2>1. CASE Retry(p, "read")
    BY <2>1, RetryIsTyped DEF Typed, Pc, AppendPc
  <2>2. CASE GiveUp(p)
    BY <2>2, RefuseIsTyped DEF Typed, GiveUp
  <2> QED
    BY <1>8, <2>1, <2>2 DEF AppendLoses
<1> QED
  BY <1>1, <1>2, <1>3, <1>4, <1>5, <1>6, <1>7, <1>8 DEF AppendStep

LEMMA FencedIsTyped ==
  ASSUME TypeOK, NEW p \in Proc, call[p].attempt \in Attempt, Fenced(p)
  PROVE  TypeOK'
BY FinishIsTyped DEF TypeOK, Fenced, store

LEMMA FenceStepIsTyped ==
  ASSUME Typed, NEW p \in Proc, FenceStep(p)
  PROVE  TypeOK'
<1>1. CASE FenceRead(p)
  BY <1>1, ReadHeadIsTyped DEF Typed, FenceRead, Pc, FencePc
<1>2. CASE FenceFound(p)
  <2>1. CASE Fenced(p)
    BY <1>2, <2>1, FencedIsTyped DEF Typed, FenceFound, CallIsTyped, Arguments, FencePc
  <2>2. CASE Refuse(p)
    BY <2>2, RefuseIsTyped DEF Typed
  <2> QED
    BY <1>2, <2>1, <2>2 DEF FenceFound
<1>3. CASE FenceWalk(p)
  <2>1. swap[p] \in Swap /\ call[p].attempt \in Attempt
    BY <1>3 DEF Typed, TypeOK, FenceWalk, CallIsTyped, Arguments, FencePc
  <2>2. MarkerOver(swap[p].head, call[p].attempt) \in HeadFile
    BY <2>1 DEF Swap, HeadFile, MarkerOver
  <2> QED
    BY <1>3, <2>1, <2>2
       DEF Typed, TypeOK, FenceWalk, WillSwapIn, Swap, Goto, store, results, Pc, FencePc
<1>4. CASE FenceTampered(p)
  BY <1>4, RefuseIsTyped DEF Typed, FenceTampered
<1>5. CASE FenceWins(p)
  <2>1. swap[p] \in Swap /\ IsFenced(swap[p].head)
    BY <1>5 DEF Typed, TypeOK, FenceWins, CallIsTyped
  <2>2. /\ head' \in HeadFile /\ gen' \in Nat
        /\ late' \subseteq Swap /\ chain' \in Seq(Key)
    BY <1>5, <2>1, SwapHeadIsTyped DEF Typed, FenceWins
  <2> QED
    BY <1>5, <2>2 DEF Typed, TypeOK, FenceWins, Goto, results, Pc, FencePc
<1>6. CASE FenceLoses(p)
  <2>1. CASE Retry(p, "fence_read")
    BY <2>1, RetryIsTyped DEF Typed, Pc, FencePc
  <2>2. CASE GiveUp(p)
    BY <2>2, RefuseIsTyped DEF Typed, GiveUp
  <2> QED
    BY <1>6, <2>1, <2>2 DEF FenceLoses
<1>7. CASE FenceConfirm(p)
  BY <1>7, FencedIsTyped DEF Typed, FenceConfirm, CallIsTyped, Arguments, FencePc
<1>8. CASE FenceContradicted(p)
  BY <1>8, RefuseIsTyped DEF Typed, FenceContradicted
<1> QED
  BY <1>1, <1>2, <1>3, <1>4, <1>5, <1>6, <1>7, <1>8 DEF FenceStep

LEMMA ReplayStepIsTyped ==
  ASSUME Typed, NEW p \in Proc, ReplayStep(p)
  PROVE  TypeOK'
<1>1. CASE ReplayRead(p)
  BY <1>1, ReadHeadIsTyped DEF Typed, ReplayRead, Pc, ReplayPc
<1>2. CASE ReplayRefused(p)
  BY <1>2, RefuseIsTyped DEF Typed, ReplayRefused
<1>3. CASE ReplayWalk(p)
  BY <1>3 DEF Typed, TypeOK, ReplayWalk, Goto, store, results, Pc, ReplayPc
<1>4. CASE ReplayWalkFails(p)
  BY <1>4, RefuseIsTyped DEF Typed, ReplayWalkFails
<1>5. CASE ReplayPublish(p)
  <2>1. PositionOf(swap[p].head) \in Position
    BY PositionIsTyped DEF Typed, TypeOK, Swap
  <2> QED
    BY <1>5, <2>1, FinishIsTyped DEF Typed, TypeOK, ReplayPublish, store, results
<1>6. CASE ReplayOpen(p)
  BY <1>6 DEF Typed, TypeOK, ReplayOpen, Goto, store, results, Pc, ReplayPc
<1> QED
  BY <1>1, <1>2, <1>3, <1>4, <1>5, <1>6 DEF ReplayStep

LEMMA InventoryStepIsTyped ==
  ASSUME Typed, NEW p \in Proc, InventoryStep(p)
  PROVE  TypeOK'
<1>1. CASE InventoryRead(p)
  BY <1>1, ReadHeadIsTyped DEF Typed, InventoryRead, Pc, InventoryPc
<1>2. CASE InventoryRefused(p)
  BY <1>2, RefuseIsTyped DEF Typed, InventoryRefused
<1>3. CASE InventoryWalk(p)
  <2>1. KeysBehind(swap[p].head) \subseteq Key
    BY DEF Typed, TypeOK, KeysBehind
  <2> QED
    BY <1>3, <2>1, FinishIsTyped DEF Typed, TypeOK, InventoryWalk, store
<1> QED
  BY <1>1, <1>2, <1>3 DEF InventoryStep

LEMMA LoseAnswerIsTyped ==
  ASSUME TypeOK, NEW p \in Proc, LoseAnswer(p)
  PROVE  TypeOK'
BY FinishIsTyped, SendAndForgetIsTyped DEF TypeOK, LoseAnswer

LEMMA CrashIsTyped ==
  ASSUME TypeOK, NEW p \in Proc, Crash(p)
  PROVE  TypeOK'
<1>1. late' \subseteq Swap
  BY SendAndForgetIsTyped DEF TypeOK, Crash
<1>2. view' \in [Proc -> Position] /\ orphans' \subseteq Key
  BY DefaultsAreTyped DEF TypeOK, Crash
<1> QED
  BY <1>1, <1>2, FinishIsTyped DEF TypeOK, Crash

LEMMA BeginCallIsTyped ==
  ASSUME TypeOK, NEW p \in Proc, BeginCall(p)
  PROVE  TypeOK'
<1>1. CASE BeginAppend(p)
  <2>1. PICK payload \in Payload, snapshot \in BOOLEAN :
          Begin(p, "read", [payload |-> payload, snapshot |-> snapshot])
    BY <1>1 DEF BeginAppend
  <2>2. [payload |-> payload, snapshot |-> snapshot] \in AppendCall \cup EraseCall
    BY DEF AppendCall
  <2> QED
    BY <2>1, <2>2, BeginIsTyped DEF Pc, AppendPc
<1>2. CASE BeginFence(p)
  <2>1. PICK attempt \in Attempt : Begin(p, "fence_read", [attempt |-> attempt])
    BY <1>2 DEF BeginFence
  <2>2. [attempt |-> attempt] \in AppendCall \cup EraseCall
    BY DEF EraseCall
  <2> QED
    BY <2>1, <2>2, BeginIsTyped DEF Pc, FencePc
<1>3. CASE BeginReplay(p)
  BY <1>3, DefaultsAreTyped, BeginIsTyped DEF BeginReplay, Pc, ReplayPc
<1>4. CASE BeginInventory(p)
  <2>1. PICK attempt \in Attempt : Begin(p, "inventory_read", [attempt |-> attempt])
    BY <1>4 DEF BeginInventory
  <2>2. [attempt |-> attempt] \in AppendCall \cup EraseCall
    BY DEF EraseCall
  <2> QED
    BY <2>1, <2>2, BeginIsTyped DEF Pc, InventoryPc
<1> QED
  BY <1>1, <1>2, <1>3, <1>4 DEF BeginCall

LEMMA LateSwapIsTyped ==
  ASSUME Typed, LateSwap
  PROVE  TypeOK'
<1>1. PICK request \in late :
        SwapHead(request) /\ UNCHANGED <<records, local, results>>
  BY DEF LateSwap
<1>2. request \in Swap
  BY DEF Typed, TypeOK
<1>3. IsFenced(request.head) \/ request.head.key \in Key
  BY DEF Typed, TypeOK
<1>4. /\ head' \in HeadFile /\ gen' \in Nat
      /\ late' \subseteq Swap /\ chain' \in Seq(Key)
  BY <1>1, <1>2, <1>3, SwapHeadIsTyped DEF Typed
<1> QED
  BY <1>1, <1>4 DEF Typed, TypeOK, local, results

LEMMA TypesArePreserved ==
  ASSUME Typed, [Next]_vars
  PROVE  TypeOK'
<1>1. CASE UNCHANGED vars
  BY <1>1 DEF Typed, TypeOK, vars, store, local, results
<1>2. CASE LateSwap
  BY <1>2, LateSwapIsTyped
<1>3. CASE \E p \in Proc : BeginCall(p) \/ Step(p) \/ Unanswered(p) \/ Crash(p)
  <2>1. PICK p \in Proc : BeginCall(p) \/ Step(p) \/ Unanswered(p) \/ Crash(p)
    BY <1>3
  <2>2. CASE BeginCall(p)
    BY <2>2, BeginCallIsTyped DEF Typed
  <2>3. CASE Step(p)
    BY <2>3, AppendStepIsTyped, FenceStepIsTyped, ReplayStepIsTyped,
       InventoryStepIsTyped DEF Step
  <2>4. CASE Unanswered(p)
    BY <2>4, LoseAnswerIsTyped
       DEF Typed, Unanswered, AppendUnconfirmed, FenceUnconfirmed
  <2>5. CASE Crash(p)
    BY <2>5, CrashIsTyped DEF Typed
  <2> QED
    BY <2>1, <2>2, <2>3, <2>4, <2>5
<1> QED
  BY <1>1, <1>2, <1>3 DEF Next

-----------------------------------------------------------------------------
(* The inductive invariant *)

OnlyMoves(p) ==
  \A q \in Proc \ {p} :
    /\ pc'[q] = pc[q]
    /\ call'[q] = call[q]
    /\ swap'[q] = swap[q]
    /\ wrote'[q] = wrote[q]

LEMMA FinishMovesOne ==
  ASSUME TypeOK, NEW p \in Proc, Finish(p)
  PROVE  /\ OnlyMoves(p)
         /\ pc'[p] = "idle"
         /\ swap'[p] = NoSwap
         /\ wrote'[p] = {}
BY DEF TypeOK, Finish, Goto, OnlyMoves

LEMMA IdleCallIsSound ==
  ASSUME TypeOK', NEW p \in Proc, pc'[p] = "idle", swap'[p] = NoSwap
  PROVE  HeldHead(p)' /\ Arguments(p)'
BY DEF TypeOK, HeldHead, Arguments, NoSwap, AppendPc, FencePc

\* A step inside one call: nothing is stored, committed or given up.
LEMMA LocalStepKeepsIInv ==
  ASSUME IInv, TypeOK', NEW p \in Proc, OnlyMoves(p), wrote'[p] \subseteq wrote[p],
         UNCHANGED <<head, gen, records, late, chain, acked, orphans>>,
         HeldHead(p)', Arguments(p)'
  PROVE  IInv'
<1>1. LogIsSound'
  BY DEF IInv, LogIsSound, OrphansNeverCommit, AckedStaysCommitted, Committed
<1>2. LateSwapsExtend'
  BY DEF IInv, LateSwapsExtend, Extends, Committed
<1>3. ASSUME NEW q \in Proc PROVE OwnRecords(q)'
  BY <1>3 DEF IInv, OwnRecords, OnlyMoves, Committed
<1>4. ASSUME NEW q \in Proc PROVE HeldHead(q)' /\ Arguments(q)'
  BY <1>4 DEF IInv, HeldHead, Arguments, OnlyMoves, Extends, Committed
<1> QED
  BY <1>1, <1>2, <1>3, <1>4 DEF IInv

\* The end of a call that has not committed in this step.  Its records become
\* orphans, but for one in a write that is still under way.
LEMMA EndOfCallKeepsIInv ==
  ASSUME IInv, TypeOK', NEW p \in Proc, Finish(p),
         UNCHANGED <<head, gen, records, chain, acked>>,
         orphans' \subseteq orphans \cup wrote[p],
         late' \subseteq late \cup {swap[p]},
         swap[p] \in late' =>
           \/ swap[p] \in late
           \/ /\ pc[p] \in {"swap", "fence_swap"}
              /\ swap[p].expected = gen
              /\ pc[p] = "swap" => swap[p].head.key \notin orphans'
  PROVE  IInv'
<1>1. OnlyMoves(p) /\ wrote'[p] = {} /\ HeldHead(p)' /\ Arguments(p)'
  BY FinishMovesOne, IdleCallIsSound DEF IInv
<1>2. LogIsSound'
  BY DEF IInv, LogIsSound, OrphansNeverCommit, AckedStaysCommitted, Committed, OwnRecords
<1>3. ASSUME NEW request \in late' PROVE request.expected = gen' /\ Extends(request.head)'
  <2>1. CASE request \in late
    BY <2>1 DEF IInv, LateSwapsExtend, Extends, OwnRecords, Committed
  <2>2. CASE request = swap[p] /\ request \notin late
    BY <1>3, <2>2 DEF IInv, HeldHead, Extends, Committed
  <2> QED
    BY <1>3, <2>1, <2>2
<1>4. ASSUME NEW q \in Proc PROVE OwnRecords(q)'
  <2>1. CASE q = p
    BY <1>1, <2>1 DEF OwnRecords
  <2>2. CASE q # p
    <3>1. /\ wrote'[q] = wrote[q]
          /\ wrote'[q] \cap (Committed \cup orphans)' = {}
          /\ wrote'[q] \subseteq DOMAIN records'
      BY <1>1, <2>2 DEF IInv, OwnRecords, OnlyMoves, Committed
    <3>2. \A r \in Proc \ {q} : wrote'[q] \cap wrote'[r] = {}
      BY <1>1, <2>2 DEF IInv, OwnRecords, OnlyMoves
    <3>3. ASSUME NEW request \in late', ~IsFenced(request.head)
          PROVE  request.head.key \notin wrote'[q]
      BY <2>2, <3>1, <3>3 DEF IInv, OwnRecords, HeldHead
    <3> QED
      BY <3>1, <3>2, <3>3 DEF OwnRecords, IsFenced
  <2> QED
    BY <2>1, <2>2
<1>5. ASSUME NEW q \in Proc PROVE HeldHead(q)' /\ Arguments(q)'
  <2>1. CASE q = p
    BY <1>1, <2>1
  <2>2. CASE q # p
    BY <1>1, <2>2 DEF IInv, OwnRecords, HeldHead, Arguments, OnlyMoves, Extends, Committed
  <2> QED
    BY <2>1, <2>2
<1> QED
  BY <1>2, <1>3, <1>4, <1>5 DEF IInv, LateSwapsExtend

LEMMA RefuseKeepsIInv ==
  ASSUME IInv, NEW p \in Proc, Refuse(p)
  PROVE  IInv'
BY RefuseIsTyped, EndOfCallKeepsIInv DEF IInv, Refuse, store

LEMMA LoseAnswerKeepsIInv ==
  ASSUME IInv, NEW p \in Proc, pc[p] \in {"swap", "fence_swap"}, LoseAnswer(p)
  PROVE  IInv'
<1>1. TypeOK'
  BY LoseAnswerIsTyped DEF IInv
<1>2. swap[p] \in late' => swap[p] \in late \/ swap[p].expected = gen
  BY DEF LoseAnswer, SendAndForget
<1>3. pc[p] = "swap" => swap[p].head.key \notin orphans'
  BY DEF IInv, LoseAnswer, HeldHead, OwnRecords
<1> QED
  BY <1>1, <1>2, <1>3, EndOfCallKeepsIInv DEF LoseAnswer, SendAndForget

LEMMA CrashKeepsIInv ==
  ASSUME IInv, NEW p \in Proc, Crash(p)
  PROVE  IInv'
<1>1. TypeOK'
  BY CrashIsTyped DEF IInv
<1>2. swap[p] \in late' =>
        \/ swap[p] \in late
        \/ swap[p].expected = gen /\ pc[p] \in {"swap", "fence_swap"}
  BY DEF Crash, SendAndForget
<1>3. pc[p] = "swap" => swap[p].head.key \notin orphans'
  BY DEF IInv, Crash, HeldHead, OwnRecords
<1> QED
  BY <1>1, <1>2, <1>3, EndOfCallKeepsIInv DEF Crash, SendAndForget

LEMMA CommittedAfterSwap ==
  ASSUME TypeOK, NEW request \in Swap, SwapHead(request),
         IsFenced(request.head) \/ request.head.key \in Key
  PROVE  /\ IsFenced(request.head) => Committed' = Committed
         /\ ~IsFenced(request.head) =>
              Committed' = Committed \cup {request.head.key}
<1>1. CASE IsFenced(request.head)
  BY <1>1 DEF SwapHead, Committed
<1>2. CASE ~IsFenced(request.head)
  <2>1. chain \in Seq(Key) /\ request.head.key \in Key
    BY <1>2 DEF TypeOK
  <2>2. chain' = Append(chain, request.head.key)
    BY <1>2 DEF SwapHead
  <2>3. DOMAIN chain' = DOMAIN chain \cup {Len(chain) + 1}
    BY <2>1, <2>2
  <2>4. /\ \A i \in DOMAIN chain : chain'[i] = chain[i]
        /\ chain'[Len(chain) + 1] = request.head.key
    BY <2>1, <2>2
  <2> QED
    BY <1>2, <2>3, <2>4 DEF Committed
<1> QED
  BY <1>1, <1>2

\* Every call is over, or goes on (as a fence that has won goes on to confirm)
\* and has put none of the orphans, nor the record that commits.
CallsSurvive(request) ==
  \A q \in Proc :
    \/ pc'[q] = "idle" /\ swap'[q] = NoSwap /\ wrote'[q] = {}
    \/ /\ swap'[q] = swap[q] /\ wrote'[q] = wrote[q] /\ call'[q] = call[q]
       /\ pc'[q] = pc[q] \/ (pc[q] = "fence_swap" /\ pc'[q] = "fence_confirm")
       /\ ~IsFenced(request.head) => request.head.key \notin wrote[q]
       /\ wrote[q] \cap orphans' = {}

AcksAreSound(request) ==
  \A a \in acked' :
    \/ a \in acked
    \/ /\ ~IsFenced(request.head)
       /\ a.seq = request.head.seq
       /\ a.key = request.head.key

\* A new head, by whoever sent it.  No call that is still under way has put
\* the record it commits.
LEMMA SwapKeepsIInv ==
  ASSUME IInv, TypeOK', NEW request \in Swap, SwapHead(request),
         Extends(request.head),
         records' = records,
         AcksAreSound(request),
         orphans' \subseteq DOMAIN records,
         orphans' \cap Committed' = {},
         CallsSurvive(request)
  PROVE  IInv'
<1>1. IsFenced(request.head) \/ request.head.key \in Key
  BY DEF IInv, TypeOK, Extends
<1>2. /\ IsFenced(request.head) => Committed' = Committed
      /\ ~IsFenced(request.head) => Committed' = Committed \cup {request.head.key}
  BY <1>1, CommittedAfterSwap DEF IInv
<1>3. LogIsSound'
  <2>1. CASE IsFenced(request.head)
    <3>1. chain' = chain /\ head'.seq = head.seq /\ head'.key = head.key
      BY <2>1 DEF SwapHead, Extends, PositionOf
    <3> QED
      BY <2>1, <3>1 DEF IInv, LogIsSound, OrphansNeverCommit, AckedStaysCommitted, AcksAreSound
  <2>2. CASE ~IsFenced(request.head)
    <3>1. chain' = Append(chain, request.head.key) /\ head' = request.head
      BY <2>2 DEF SwapHead
    <3>2. Len(chain') = Len(chain) + 1 /\ chain'[Len(chain) + 1] = request.head.key
      BY <1>1, <2>2, <3>1 DEF IInv, TypeOK
    <3>3. \A i \in DOMAIN chain : i \in DOMAIN chain' /\ chain'[i] = chain[i]
      BY <1>1, <2>2, <3>1 DEF IInv, TypeOK
    <3>4. request.head.seq = Len(chain) + 1
      BY <2>2 DEF IInv, LogIsSound, Extends
    <3>5. head'.seq = Len(chain') /\ head'.key = chain'[Len(chain')]
      BY <3>1, <3>2, <3>4
    <3>6. \A i \in DOMAIN chain' :
            chain'[i] \in DOMAIN records /\ records[chain'[i]].seq = i
      <4>1. \A i \in DOMAIN chain' : i \in DOMAIN chain \/ i = Len(chain) + 1
        BY <1>1, <2>2, <3>1 DEF IInv, TypeOK
      <4> QED
        BY <2>2, <3>2, <3>3, <3>4, <4>1 DEF IInv, LogIsSound, Extends
    <3>7. \A a \in acked' : a.seq \in DOMAIN chain' /\ chain'[a.seq] = a.key
      <4>1. Len(chain) + 1 \in DOMAIN chain'
        BY <1>1, <2>2, <3>1 DEF IInv, TypeOK
      <4> QED
        BY <3>2, <3>3, <3>4, <4>1 DEF IInv, LogIsSound, AckedStaysCommitted, AcksAreSound
    <3> QED
      BY <3>5, <3>6, <3>7 DEF LogIsSound, OrphansNeverCommit, AckedStaysCommitted
  <2> QED
    BY <2>1, <2>2
<1>4. LateSwapsExtend'
  BY DEF SwapHead, LateSwapsExtend
<1>5. ASSUME NEW q \in Proc PROVE OwnRecords(q)'
  BY <1>2, <1>5 DEF IInv, OwnRecords, SwapHead, CallsSurvive
<1>6. ASSUME NEW q \in Proc PROVE HeldHead(q)' /\ Arguments(q)'
  <2>1. CASE pc'[q] = "idle" /\ swap'[q] = NoSwap
    BY <2>1, IdleCallIsSound
  <2>2. CASE swap'[q] = swap[q] /\ wrote'[q] = wrote[q] /\ call'[q] = call[q] /\ pc'[q] = pc[q]
    BY <2>2 DEF IInv, TypeOK, SwapHead, Swap, HeldHead, Arguments
  <2>3. CASE swap'[q] = swap[q] /\ call'[q] = call[q] /\ pc[q] = "fence_swap" /\ pc'[q] = "fence_confirm"
    BY <2>3 DEF IInv, TypeOK, SwapHead, Swap, HeldHead, Arguments, AppendPc, FencePc
  <2> QED
    BY <2>1, <2>2, <2>3 DEF CallsSurvive
<1> QED
  BY <1>3, <1>4, <1>5, <1>6 DEF IInv

\* Retries, re-reads and verifications.
LEMMA RetryKeepsIInv ==
  ASSUME IInv, NEW p \in Proc, NEW label \in {"read", "fence_read"},
         pc[p] \in (IF label = "read" THEN AppendPc ELSE FencePc),
         Retry(p, label)
  PROVE  IInv'
<1>1. TypeOK'
  BY RetryIsTyped DEF IInv, Pc, AppendPc, FencePc
<1>2. OnlyMoves(p) /\ pc'[p] = label /\ call'[p] = call[p] /\ swap'[p] = swap[p] /\ wrote'[p] = wrote[p]
  BY DEF IInv, TypeOK, Retry, Goto, OnlyMoves
<1>3. HeldHead(p)' /\ Arguments(p)'
  BY <1>2 DEF IInv, HeldHead, Arguments, Retry, store, AppendPc, FencePc
<1> QED
  BY <1>1, <1>2, <1>3, LocalStepKeepsIInv DEF Retry, store, results

LEMMA ReadHeadKeepsIInv ==
  ASSUME IInv, NEW p \in Proc, NEW label \in Pc, ReadHead(p, label),
         label \notin {"swap", "fence_swap"},
         label \in {"verify", "put", "fence_walk"} => ~IsFenced(head),
         label \in AppendPc => pc[p] \in AppendPc,
         label \in FencePc => pc[p] \in FencePc
  PROVE  IInv'
<1>1. TypeOK'
  BY ReadHeadIsTyped DEF IInv
<1>2. /\ OnlyMoves(p) /\ pc'[p] = label /\ call'[p] = call[p] /\ wrote'[p] = wrote[p]
      /\ swap'[p] = [expected |-> gen, head |-> head]
  BY DEF IInv, TypeOK, ReadHead, Goto, OnlyMoves
<1>3. HeldHead(p)' /\ Arguments(p)'
  BY <1>1, <1>2 DEF IInv, HeldHead, Arguments, ReadHead, store, TypeOK
<1> QED
  BY <1>1, <1>2, <1>3, LocalStepKeepsIInv DEF ReadHead, store, results

LEMMA AppendPutKeepsIInv ==
  ASSUME IInv, NEW p \in Proc, AppendPut(p)
  PROVE  IInv'
<1> DEFINE record == RecordAfter(swap[p].head, call[p].payload)
<1>1. PICK token \in Token :
        LET key == <<record.seq, token>>
        IN  /\ pc[p] = "put"
            /\ key \notin DOMAIN records
            /\ records' = [k \in DOMAIN records \cup {key} |->
                             IF k = key THEN record ELSE records[k]]
            /\ WillSwapIn(p, HeadOf(key, record))
            /\ wrote' = [wrote EXCEPT ![p] = @ \cup {key}]
            /\ Goto(p, "swap")
            /\ UNCHANGED <<head, gen, late, call, tries, view, chain, results>>
  BY DEF AppendPut
<1> DEFINE key == <<record.seq, token>>
<1>2. TypeOK'
  BY AppendStepIsTyped, IInvIsTyped DEF AppendStep
<1>3. /\ key \notin DOMAIN records
      /\ DOMAIN records' = DOMAIN records \cup {key}
      /\ records'[key] = record
      /\ \A k \in DOMAIN records : records'[k] = records[k]
  BY <1>1
<1>4. /\ OnlyMoves(p) /\ call'[p] = call[p] /\ wrote'[p] = wrote[p] \cup {key}
      /\ pc'[p] = "swap"
      /\ swap'[p] = [expected |-> swap[p].expected, head |-> HeadOf(key, record)]
  BY <1>1 DEF IInv, TypeOK, WillSwapIn, Goto, OnlyMoves
<1>5. UNCHANGED <<head, gen, late, chain, acked, orphans>>
  BY <1>1 DEF results
<1> HIDE DEF record, key
<1>6. key \notin Committed \cup orphans
  BY <1>3 DEF IInv, LogIsSound, Committed
<1>7. LogIsSound'
  BY <1>3, <1>5, <1>6 DEF IInv, LogIsSound, OrphansNeverCommit, AckedStaysCommitted, Committed
<1>8. LateSwapsExtend'
  BY <1>3, <1>5 DEF IInv, LateSwapsExtend, Extends, Committed
<1>9. ASSUME NEW q \in Proc PROVE OwnRecords(q)'
  <2>1. \A request \in late : ~IsFenced(request.head) => request.head.key # key
    BY <1>3 DEF IInv, LateSwapsExtend, Extends
  <2>2. \A r \in Proc : key \notin wrote[r]
    BY <1>3 DEF IInv, OwnRecords
  <2>3. Committed' = Committed
    BY <1>5 DEF Committed
  <2>4. CASE q = p
    BY <1>3, <1>4, <1>5, <1>6, <2>1, <2>2, <2>3, <2>4 DEF IInv, OwnRecords, OnlyMoves
  <2>5. CASE q # p
    BY <1>3, <1>4, <1>5, <2>2, <2>3, <2>5 DEF IInv, OwnRecords, OnlyMoves
  <2> QED
    BY <2>4, <2>5
<1>10. ASSUME NEW q \in Proc PROVE HeldHead(q)' /\ Arguments(q)'
  <2>1. CASE q = p
    <3>1. Arguments(q)'
      BY <1>1, <1>4, <2>1 DEF IInv, Arguments, AppendPc, FencePc
    <3>2. ~IsFenced(HeadOf(key, record)) /\ HeadOf(key, record).key = key
      BY DEF HeadOf, IsFenced
    <3>3. ~IsFenced(swap[p].head) /\ (swap[p].expected = gen => swap[p].head = head)
      BY <1>1 DEF IInv, HeldHead
    <3>4. swap[p].expected = gen => Extends(swap[p].head)'
      <4>1. HeadOf(key, record).seq = swap[p].head.seq + 1 /\ record.seq = swap[p].head.seq + 1
        BY DEF HeadOf, record, RecordAfter
      <4>2. ~IsFenced(swap'[p].head) /\ swap'[p].head.key = key
            /\ swap'[p].head.seq = swap[p].head.seq + 1
        BY <1>4, <3>2, <4>1
      <4> QED
        BY <1>3, <1>5, <1>6, <3>3, <4>1, <4>2 DEF Extends, Committed, IsFenced
    <3>5. HeldHead(p)'
      BY <1>1, <1>4, <1>5, <3>2, <3>4 DEF IInv, HeldHead, IsFenced
    <3> QED
      BY <2>1, <3>1, <3>5
  <2>2. CASE q # p
    BY <1>3, <1>4, <1>5, <2>2 DEF IInv, HeldHead, Arguments, OnlyMoves, Extends, Committed
  <2> QED
    BY <2>1, <2>2
<1> QED
  BY <1>2, <1>7, <1>8, <1>9, <1>10 DEF IInv

LEMMA AppendWinsKeepsIInv ==
  ASSUME IInv, NEW p \in Proc, AppendWins(p)
  PROVE  IInv'
<1>1. /\ swap[p] \in Swap
      /\ ~IsFenced(swap[p].head)
      /\ swap[p].head.key \in wrote[p]
      /\ Extends(swap[p].head)
      /\ SwapHead(swap[p])
  BY DEF IInv, TypeOK, HeldHead, AppendWins, SwapHead
<1>2. TypeOK'
  BY AppendStepIsTyped, IInvIsTyped DEF AppendStep
<1>3. /\ OnlyMoves(p) /\ pc'[p] = "idle" /\ swap'[p] = NoSwap /\ wrote'[p] = {}
      /\ records' = records
  BY FinishMovesOne DEF IInv, AppendWins
<1>4. Committed' = Committed \cup {swap[p].head.key}
  BY <1>1, CommittedAfterSwap DEF IInv, TypeOK
<1>5. orphans' \subseteq DOMAIN records /\ orphans' \cap Committed' = {}
  BY <1>1, <1>4 DEF IInv, AppendWins, LogIsSound, OrphansNeverCommit, Extends, OwnRecords
<1>6. AcksAreSound(swap[p])
  BY <1>1 DEF AppendWins, AcksAreSound
<1>7. ASSUME NEW q \in Proc \ {p}
      PROVE  /\ pc'[q] = pc[q] /\ swap'[q] = swap[q] /\ wrote'[q] = wrote[q]
             /\ call'[q] = call[q]
             /\ swap[p].head.key \notin wrote[q]
             /\ wrote[q] \cap orphans' = {}
  BY <1>1, <1>3 DEF IInv, OwnRecords, OnlyMoves, AppendWins
<1>8. CallsSurvive(swap[p])
  BY <1>3, <1>7 DEF CallsSurvive
<1> QED
  BY <1>1, <1>2, <1>3, <1>5, <1>6, <1>8, SwapKeepsIInv

LEMMA FenceWinsKeepsIInv ==
  ASSUME IInv, NEW p \in Proc, FenceWins(p)
  PROVE  IInv'
<1>1. /\ swap[p] \in Swap
      /\ IsFenced(swap[p].head)
      /\ Extends(swap[p].head)
      /\ SwapHead(swap[p])
  BY DEF IInv, TypeOK, HeldHead, FenceWins, SwapHead
<1>2. TypeOK'
  BY FenceStepIsTyped, IInvIsTyped DEF FenceStep
<1>3. /\ pc'[p] = "fence_confirm" /\ pc[p] = "fence_swap"
      /\ \A q \in Proc \ {p} : pc'[q] = pc[q]
      /\ UNCHANGED <<records, call, swap, wrote, acked, orphans>>
  BY DEF IInv, TypeOK, FenceWins, Goto, results
<1>4. Committed' = Committed
  BY <1>1, CommittedAfterSwap DEF IInv, TypeOK
<1>5. orphans' \subseteq DOMAIN records /\ orphans' \cap Committed' = {}
  BY <1>3, <1>4 DEF IInv, LogIsSound, OrphansNeverCommit
<1>6. CallsSurvive(swap[p])
  BY <1>1, <1>3 DEF IInv, OwnRecords, CallsSurvive
<1>7. AcksAreSound(swap[p])
  BY <1>3 DEF AcksAreSound
<1> QED
  BY <1>1, <1>2, <1>3, <1>5, <1>6, <1>7, SwapKeepsIInv

LEMMA LateSwapKeepsIInv ==
  ASSUME IInv, LateSwap
  PROVE  IInv'
<1>1. PICK request \in late :
        SwapHead(request) /\ UNCHANGED <<records, local, results>>
  BY DEF LateSwap
<1>2. request \in Swap /\ Extends(request.head)
  BY DEF IInv, TypeOK, LateSwapsExtend
<1>3. TypeOK'
  BY LateSwapIsTyped, IInvIsTyped
<1>4. IsFenced(request.head) \/ request.head.key \in Key
  BY <1>2 DEF IInv, TypeOK, Extends
<1>5. orphans' \subseteq DOMAIN records /\ orphans' \cap Committed' = {}
  BY <1>1, <1>2, <1>4, CommittedAfterSwap
     DEF IInv, LogIsSound, OrphansNeverCommit, Extends, results
<1>6. CallsSurvive(request)
  BY <1>1 DEF IInv, OwnRecords, CallsSurvive, local, results
<1>7. AcksAreSound(request)
  BY <1>1 DEF AcksAreSound, results
<1> QED
  BY <1>1, <1>2, <1>3, <1>5, <1>6, <1>7, SwapKeepsIInv

LEMMA LosesKeepsIInv ==
  ASSUME IInv, NEW p \in Proc, NEW label \in {"read", "fence_read"},
         pc[p] \in (IF label = "read" THEN AppendPc ELSE FencePc),
         Retry(p, label) \/ GiveUp(p)
  PROVE  IInv'
BY RetryKeepsIInv, RefuseKeepsIInv DEF GiveUp

LEMMA AppendStepKeepsIInv ==
  ASSUME IInv, NEW p \in Proc, AppendStep(p)
  PROVE  IInv'
<1>1. CASE AppendRead(p)
  BY <1>1, ReadHeadKeepsIInv DEF AppendRead, Pc, AppendPc, FencePc
<1>2. CASE AppendRefused(p)
  BY <1>2, RefuseKeepsIInv DEF AppendRefused
<1>3. CASE AppendVerify(p)
  <2>1. OnlyMoves(p) /\ pc'[p] = "put" /\ call'[p] = call[p] /\ swap'[p] = swap[p] /\ wrote'[p] = wrote[p]
    BY <1>3 DEF IInv, TypeOK, AppendVerify, Goto, OnlyMoves
  <2>2. HeldHead(p)' /\ Arguments(p)'
    BY <1>3, <2>1 DEF IInv, HeldHead, Arguments, AppendVerify, store, AppendPc, FencePc
  <2> QED
    BY <1>3, <2>1, <2>2, AppendStepIsTyped, IInvIsTyped, LocalStepKeepsIInv DEF AppendVerify, store, results
<1>4. CASE AppendTampered(p)
  BY <1>4, RefuseKeepsIInv DEF AppendTampered
<1>5. CASE AppendPut(p)
  BY <1>5, AppendPutKeepsIInv
<1>6. CASE AppendPutCollides(p)
  BY <1>6, RefuseKeepsIInv DEF AppendPutCollides
<1>7. CASE AppendWins(p)
  BY <1>7, AppendWinsKeepsIInv
<1>8. CASE AppendLoses(p)
  BY <1>8, LosesKeepsIInv DEF AppendLoses, AppendPc
<1> QED
  BY <1>1, <1>2, <1>3, <1>4, <1>5, <1>6, <1>7, <1>8 DEF AppendStep

\* A call returns without having moved the head or put a record for good.
LEMMA FinishKeepsIInv ==
  ASSUME IInv, TypeOK', NEW p \in Proc, Finish(p),
         UNCHANGED <<head, gen, records, late, chain, acked, orphans>>
  PROVE  IInv'
BY FinishMovesOne, IdleCallIsSound, LocalStepKeepsIInv DEF IInv

LEMMA FencedKeepsIInv ==
  ASSUME IInv, TypeOK', NEW p \in Proc, Fenced(p)
  PROVE  IInv'
BY FinishKeepsIInv DEF Fenced, store

LEMMA FenceStepKeepsIInv ==
  ASSUME IInv, NEW p \in Proc, FenceStep(p)
  PROVE  IInv'
<1> TypeOK'
  BY FenceStepIsTyped, IInvIsTyped
<1>1. CASE FenceRead(p)
  BY <1>1, ReadHeadKeepsIInv DEF FenceRead, Pc, AppendPc, FencePc
<1>2. CASE FenceFound(p)
  BY <1>2, FencedKeepsIInv, RefuseKeepsIInv DEF FenceFound
<1>3. CASE FenceWalk(p)
  <2>1. swap[p] \in Swap /\ call[p].attempt \in Attempt /\ pc[p] = "fence_walk"
    BY <1>3 DEF IInv, TypeOK, Arguments, FenceWalk, FencePc
  <2>2. /\ OnlyMoves(p) /\ pc'[p] = "fence_swap" /\ call'[p] = call[p]
        /\ wrote'[p] = wrote[p]
        /\ swap'[p] = [expected |-> swap[p].expected,
                      head |-> MarkerOver(swap[p].head, call[p].attempt)]
    BY <1>3 DEF IInv, TypeOK, FenceWalk, WillSwapIn, Goto, OnlyMoves
  <2>3. IsFenced(swap'[p].head) /\ PositionOf(swap'[p].head) = PositionOf(swap[p].head)
    BY <2>1, <2>2, NoAttemptAssumption DEF IsFenced, MarkerOver, PositionOf
  <2>4. swap'[p].expected = gen' => Extends(swap[p].head)'
    <3>1. swap[p].expected = gen => ~IsFenced(head) /\ swap[p].head = head
      BY <2>1 DEF IInv, HeldHead
    <3> QED
      BY <1>3, <2>2, <2>3, <3>1 DEF Extends, FenceWalk, store, IsFenced, PositionOf
  <2>5. HeldHead(p)'
    BY <1>3, <2>2, <2>3, <2>4 DEF IInv, HeldHead, FenceWalk, store, IsFenced
  <2>6. Arguments(p)'
    BY <2>1, <2>2 DEF IInv, Arguments, AppendPc, FencePc
  <2> QED
    BY <1>3, <2>2, <2>5, <2>6, LocalStepKeepsIInv DEF FenceWalk, store, results
<1>4. CASE FenceTampered(p)
  BY <1>4, RefuseKeepsIInv DEF FenceTampered
<1>5. CASE FenceWins(p)
  BY <1>5, FenceWinsKeepsIInv
<1>6. CASE FenceLoses(p)
  BY <1>6, LosesKeepsIInv DEF FenceLoses, FencePc
<1>7. CASE FenceConfirm(p)
  BY <1>7, FencedKeepsIInv DEF FenceConfirm
<1>8. CASE FenceContradicted(p)
  BY <1>8, RefuseKeepsIInv DEF FenceContradicted
<1> QED
  BY <1>1, <1>2, <1>3, <1>4, <1>5, <1>6, <1>7, <1>8 DEF FenceStep

LEMMA ReplayStepKeepsIInv ==
  ASSUME IInv, NEW p \in Proc, ReplayStep(p)
  PROVE  IInv'
<1> TypeOK'
  BY ReplayStepIsTyped, IInvIsTyped
<1>1. CASE ReplayRead(p)
  BY <1>1, ReadHeadKeepsIInv DEF ReplayRead, Pc, ReplayPc, AppendPc, FencePc
<1>2. CASE ReplayRefused(p)
  BY <1>2, RefuseKeepsIInv DEF ReplayRefused
<1>3. CASE ReplayWalk(p)
  <2>1. OnlyMoves(p) /\ pc'[p] = "replay_open" /\ swap'[p] = swap[p] /\ wrote'[p] = wrote[p]
    BY <1>3 DEF IInv, TypeOK, ReplayWalk, Goto, OnlyMoves
  <2>2. HeldHead(p)' /\ Arguments(p)'
    BY <1>3, <2>1 DEF IInv, HeldHead, Arguments, ReplayWalk, store, AppendPc, FencePc
  <2> QED
    BY <1>3, <2>1, <2>2, LocalStepKeepsIInv DEF ReplayWalk, store, results
<1>4. CASE ReplayWalkFails(p)
  BY <1>4, RefuseKeepsIInv DEF ReplayWalkFails
<1>5. CASE ReplayPublish(p)
  BY <1>5, FinishKeepsIInv DEF ReplayPublish, store, results
<1>6. CASE ReplayOpen(p)
  <2>1. OnlyMoves(p) /\ pc'[p] = "replay_release" /\ swap'[p] = swap[p] /\ wrote'[p] = wrote[p]
    BY <1>6 DEF IInv, TypeOK, ReplayOpen, Goto, OnlyMoves
  <2>2. HeldHead(p)' /\ Arguments(p)'
    BY <1>6, <2>1 DEF IInv, HeldHead, Arguments, ReplayOpen, store, AppendPc, FencePc
  <2> QED
    BY <1>6, <2>1, <2>2, LocalStepKeepsIInv DEF ReplayOpen, store, results
<1> QED
  BY <1>1, <1>2, <1>3, <1>4, <1>5, <1>6 DEF ReplayStep

LEMMA InventoryStepKeepsIInv ==
  ASSUME IInv, NEW p \in Proc, InventoryStep(p)
  PROVE  IInv'
<1> TypeOK'
  BY InventoryStepIsTyped, IInvIsTyped
<1>1. CASE InventoryRead(p)
  BY <1>1, ReadHeadKeepsIInv DEF InventoryRead, Pc, InventoryPc, AppendPc, FencePc
<1>2. CASE InventoryRefused(p)
  BY <1>2, RefuseKeepsIInv DEF InventoryRefused
<1>3. CASE InventoryWalk(p)
  BY <1>3, FinishKeepsIInv DEF InventoryWalk, store
<1> QED
  BY <1>1, <1>2, <1>3 DEF InventoryStep

LEMMA BeginKeepsIInv ==
  ASSUME IInv, TypeOK', NEW p \in Proc, NEW label, NEW arguments,
         Begin(p, label, arguments),
         \/ label = "read" /\ arguments \in AppendCall
         \/ label = "fence_read" /\ arguments \in [attempt : Attempt]
         \/ label \in {"replay_read", "inventory_read"}
  PROVE  IInv'
<1>1. /\ OnlyMoves(p) /\ pc'[p] = label /\ call'[p] = arguments
      /\ swap'[p] = swap[p] /\ wrote'[p] = wrote[p]
  BY DEF IInv, TypeOK, Begin, Goto, OnlyMoves
<1>2. HeldHead(p)' /\ Arguments(p)'
  BY <1>1 DEF IInv, HeldHead, Arguments, Begin, store, AppendPc, FencePc
<1> QED
  BY <1>1, <1>2, LocalStepKeepsIInv DEF Begin, store, results

LEMMA BeginCallKeepsIInv ==
  ASSUME IInv, NEW p \in Proc, BeginCall(p)
  PROVE  IInv'
<1> TypeOK'
  BY BeginCallIsTyped DEF IInv
<1>1. CASE BeginAppend(p)
  <2>1. PICK payload \in Payload, snapshot \in BOOLEAN :
          Begin(p, "read", [payload |-> payload, snapshot |-> snapshot])
    BY <1>1 DEF BeginAppend
  <2>2. [payload |-> payload, snapshot |-> snapshot] \in AppendCall
    BY DEF AppendCall
  <2> QED
    BY <2>1, <2>2, BeginKeepsIInv
<1>2. CASE BeginFence(p)
  BY <1>2, BeginKeepsIInv DEF BeginFence
<1>3. CASE BeginReplay(p)
  BY <1>3, BeginKeepsIInv DEF BeginReplay
<1>4. CASE BeginInventory(p)
  BY <1>4, BeginKeepsIInv DEF BeginInventory
<1> QED
  BY <1>1, <1>2, <1>3, <1>4 DEF BeginCall

LEMMA InitEstablishesIInv ==
  ASSUME Init
  PROVE  IInv
<1>1. TypeOK
  BY DefaultsAreTyped, RetriesAssumption DEF Init, TypeOK, Pc
<1>2. LogIsSound /\ LateSwapsExtend
  BY DEF Init, LogIsSound, LateSwapsExtend, OrphansNeverCommit, AckedStaysCommitted,
         Committed, AbsentHead
<1>3. ASSUME NEW p \in Proc PROVE OwnRecords(p) /\ HeldHead(p) /\ Arguments(p)
  BY DEF Init, OwnRecords, HeldHead, Arguments, NoSwap, AppendPc, FencePc
<1> QED
  BY <1>1, <1>2, <1>3 DEF IInv

LEMMA NextKeepsIInv ==
  ASSUME IInv, [Next]_vars
  PROVE  IInv'
<1>1. CASE UNCHANGED vars
  <2>1. TypeOK'
    BY <1>1, TypesArePreserved, IInvIsTyped
  <2>2. LogIsSound' /\ LateSwapsExtend'
    BY <1>1 DEF vars, store, local, results, IInv, LogIsSound, LateSwapsExtend, Extends,
                OrphansNeverCommit, AckedStaysCommitted, Committed
  <2>3. ASSUME NEW p \in Proc PROVE OwnRecords(p)' /\ HeldHead(p)' /\ Arguments(p)'
    BY <1>1, <2>3 DEF vars, store, local, results, IInv, OwnRecords, HeldHead, Arguments,
                      Extends, Committed
  <2> QED
    BY <2>1, <2>2, <2>3 DEF IInv
<1>2. CASE LateSwap
  BY <1>2, LateSwapKeepsIInv
<1>3. CASE \E p \in Proc : BeginCall(p) \/ Step(p) \/ Unanswered(p) \/ Crash(p)
  <2>1. PICK p \in Proc : BeginCall(p) \/ Step(p) \/ Unanswered(p) \/ Crash(p)
    BY <1>3
  <2>2. CASE BeginCall(p)
    BY <2>2, BeginCallKeepsIInv
  <2>3. CASE Step(p)
    BY <2>3, AppendStepKeepsIInv, FenceStepKeepsIInv, ReplayStepKeepsIInv,
       InventoryStepKeepsIInv DEF Step
  <2>4. CASE Unanswered(p)
    BY <2>4, LoseAnswerKeepsIInv DEF Unanswered, AppendUnconfirmed, FenceUnconfirmed
  <2>5. CASE Crash(p)
    BY <2>5, CrashKeepsIInv
  <2> QED
    BY <2>1, <2>2, <2>3, <2>4, <2>5
<1> QED
  BY <1>1, <1>2, <1>3 DEF Next

\* The invariant on which the properties rest holds in every reachable state of
\* the commit log: head.json names the newest committed record, and every write
\* that can still win (one that append or fence_for_erasure is about to send,
\* or one whose sender stopped waiting) extends or closes exactly that head.
THEOREM InvariantHolds == Spec => []IInv
<1>1. Init => IInv
  BY InitEstablishesIInv
<1>2. IInv /\ [Next]_vars => IInv'
  BY NextKeepsIInv
<1> QED
  BY <1>1, <1>2, PTL DEF Spec

\* Every variable of the commit log keeps its type.
THEOREM TypeCorrect == Spec => []TypeOK
<1>1. IInv => TypeOK
  BY DEF IInv
<1> QED
  BY <1>1, InvariantHolds, PTL

\* A record whose append returned stays where it was committed, for ever.
THEOREM AckedRecordsStay == Spec => []AckedStaysCommitted
<1>1. IInv => AckedStaysCommitted
  BY DEF IInv, LogIsSound
<1> QED
  BY <1>1, InvariantHolds, PTL

\* An append that refused has committed nothing and never will, and a lost race
\* leaves only an orphan.
THEOREM RefusedNeverCommits == Spec => []OrphansNeverCommit
<1>1. IInv => OrphansNeverCommit
  BY DEF IInv, LogIsSound
<1> QED
  BY <1>1, InvariantHolds, PTL

\* The retry loop of append cannot commit one payload twice: while the call goes
\* on, none of the records it has put is committed.
THEOREM RetriesAreSafe == Spec => []RetryingMeansUncommitted
<1>1. IInv => RetryingMeansUncommitted
  BY DEF IInv, OwnRecords, RetryingMeansUncommitted
<1> QED
  BY <1>1, InvariantHolds, PTL

-----------------------------------------------------------------------------
(* What a step may do to the head; the refinement *)

\* The steps that commit or fence.
SwapsHead ==
  \E request \in Swap :
    SwapHead(request) /\ Extends(request.head) /\ records' = records

\* All the others: nothing is committed, and no record is changed or lost.
KeepsHead ==
  /\ UNCHANGED <<head, chain>>
  /\ \A k \in DOMAIN records : k \in DOMAIN records' /\ records'[k] = records[k]

LEMMA HeadMovesBySwap ==
  ASSUME IInv, [Next]_vars
  PROVE  SwapsHead \/ KeepsHead
<1>1. CASE UNCHANGED vars
  BY <1>1 DEF KeepsHead, vars, store
<1>2. CASE LateSwap
  <2>1. PICK request \in late : SwapHead(request) /\ records' = records
    BY <1>2 DEF LateSwap
  <2>2. request \in Swap /\ Extends(request.head)
    BY <2>1 DEF IInv, TypeOK, LateSwapsExtend
  <2> QED
    BY <2>1, <2>2 DEF SwapsHead
<1>3. ASSUME NEW p \in Proc, pc[p] \in {"swap", "fence_swap"},
             SwapHead(swap[p]), records' = records
      PROVE  SwapsHead
  <2>1. swap[p] \in Swap /\ Extends(swap[p].head)
    BY <1>3 DEF IInv, TypeOK, HeldHead, SwapHead
  <2> QED
    BY <1>3, <2>1 DEF SwapsHead
<1>4. ASSUME NEW p \in Proc, BeginCall(p) \/ Unanswered(p) \/ Crash(p)
      PROVE  KeepsHead
  BY <1>4 DEF KeepsHead, BeginCall, BeginAppend, BeginFence, BeginReplay, BeginInventory,
              Begin, Unanswered, AppendUnconfirmed, FenceUnconfirmed, LoseAnswer, Crash, store
<1>5. ASSUME NEW p \in Proc, AppendStep(p)
      PROVE  SwapsHead \/ KeepsHead
  <2>1. CASE AppendWins(p)
    BY <1>3, <2>1 DEF AppendWins
  <2>2. CASE AppendPut(p)
    BY <2>2 DEF AppendPut, KeepsHead
  <2> QED
    BY <1>5, <2>1, <2>2
       DEF KeepsHead, AppendStep, AppendRead, AppendRefused, AppendVerify, AppendTampered,
           AppendPutCollides, AppendLoses, ReadHead, Refuse, Retry, GiveUp, store
<1>6. ASSUME NEW p \in Proc, FenceStep(p)
      PROVE  SwapsHead \/ KeepsHead
  <2>1. CASE FenceWins(p)
    BY <1>3, <2>1 DEF FenceWins
  <2> QED
    BY <1>6, <2>1
       DEF KeepsHead, FenceStep, FenceRead, FenceFound, FenceWalk, FenceTampered, FenceLoses,
           FenceConfirm, FenceContradicted, Fenced, ReadHead, Refuse, Retry, GiveUp, store
<1>7. ASSUME NEW p \in Proc, ReplayStep(p) \/ InventoryStep(p)
      PROVE  KeepsHead
  BY <1>7 DEF KeepsHead, ReplayStep, ReplayRead, ReplayRefused, ReplayWalk, ReplayWalkFails,
              ReplayOpen, ReplayPublish, InventoryStep, InventoryRead, InventoryRefused,
              InventoryWalk, ReadHead, Refuse, store
<1> QED
  BY <1>1, <1>2, <1>4, <1>5, <1>6, <1>7 DEF Next, Step

\* Nothing is committed behind a fence and no fence is replaced, by a writer that
\* read the head before it or by a write that was under way.
THEOREM FenceHolds == Spec => FenceIsFinal
<1>1. IInv /\ [Next]_vars => [IsFenced(head) => UNCHANGED <<head, chain>>]_vars
  BY HeadMovesBySwap DEF SwapsHead, KeepsHead, Extends
<1> QED
  BY <1>1, InvariantHolds, PTL DEF Spec, FenceIsFinal

PayloadsOf == [i \in DOMAIN chain |-> records[chain[i]].payload]

LEMMA PayloadsAreTyped ==
  ASSUME IInv
  PROVE  PayloadsOf \in Seq(Payload) /\ Len(PayloadsOf) = Len(chain)
<1>1. \A i \in DOMAIN chain : records[chain[i]].payload \in Payload
  BY DEF IInv, TypeOK, LogIsSound, Record
<1>2. DOMAIN chain = 1 .. Len(chain) /\ Len(chain) \in Nat
  BY DEF IInv, TypeOK
<1> QED
  BY <1>1, <1>2 DEF PayloadsOf

LEMMA AppendByIndex ==
  ASSUME NEW S, NEW s \in Seq(S), NEW e \in S
  PROVE  Append(s, e) = [i \in 1 .. Len(s) + 1 |-> IF i = Len(s) + 1 THEN e ELSE s[i]]
<1> DEFINE t == [i \in 1 .. Len(s) + 1 |-> IF i = Len(s) + 1 THEN e ELSE s[i]]
<1>1. Append(s, e) \in Seq(S) /\ Len(Append(s, e)) = Len(s) + 1
  OBVIOUS
<1>2. t \in Seq(S) /\ Len(t) = Len(s) + 1
  OBVIOUS
<1>3. \A i \in 1 .. Len(s) + 1 : Append(s, e)[i] = t[i]
  OBVIOUS
<1> HIDE DEF t
<1>4. Append(s, e) = t
  BY <1>1, <1>2, <1>3, SeqEqual
<1> QED
  BY <1>4 DEF t

LEMMA SwapsRefine ==
  ASSUME IInv, SwapsHead
  PROVE  Log!Next
<1>1. PICK request \in Swap :
        SwapHead(request) /\ Extends(request.head) /\ records' = records
  BY DEF SwapsHead
<1>2. head.fence = NoAttempt /\ head'.fence = request.head.fence
  BY <1>1 DEF Extends, IsFenced, SwapHead
<1>3. CASE IsFenced(request.head)
  <2>1. request.head.fence \in Attempt
    BY <1>3 DEF Swap, HeadFile, IsFenced
  <2>2. PayloadsOf' = PayloadsOf
    BY <1>1, <1>3 DEF SwapHead, PayloadsOf
  <2>3. Log!Close(request.head.fence)
    BY <1>2, <2>2 DEF Log!Close, PayloadsOf
  <2> QED
    BY <2>1, <2>3 DEF Log!Next
<1>4. CASE ~IsFenced(request.head)
  <2> DEFINE payload == records[request.head.key].payload
  <2>1. request.head.key \in Key /\ payload \in Payload
    BY <1>1, <1>4 DEF IInv, TypeOK, Extends, Record
  <2>2. chain' = Append(chain, request.head.key) /\ chain \in Seq(Key)
    BY <1>1, <1>4 DEF IInv, TypeOK, SwapHead
  <2>3. /\ DOMAIN chain' = DOMAIN chain \cup {Len(chain) + 1}
        /\ \A i \in DOMAIN chain : chain'[i] = chain[i]
        /\ chain'[Len(chain) + 1] = request.head.key
        /\ DOMAIN chain = 1 .. Len(chain) /\ Len(chain) \in Nat
    BY <2>1, <2>2
  <2>4. PayloadsOf' = [i \in 1 .. Len(chain) + 1 |->
                        IF i = Len(chain) + 1 THEN payload ELSE PayloadsOf[i]]
    BY <1>1, <2>3 DEF PayloadsOf
  <2> HIDE DEF payload
  <2>5. PayloadsOf' = Append(PayloadsOf, payload)
    BY <2>1, <2>4, PayloadsAreTyped, AppendByIndex
  <2>6. head'.fence = head.fence
    BY <1>2, <1>4 DEF IsFenced
  <2> QED
    BY <1>2, <2>1, <2>5, <2>6 DEF Log!Next, Log!Commit, PayloadsOf
<1> QED
  BY <1>3, <1>4

\* The commit log, with all its races, crashes and late writes, implements the
\* append-only log of AppendLog: payloads are added at the end, one at a time,
\* until one erasure attempt closes it for good.
THEOREM ImplementsAppendLog == Spec => LogSpec
<1>1. Init => Log!Init
  BY DEF Init, Log!Init, AbsentHead
<1>2. IInv /\ [Next]_vars => [Log!Next]_<<PayloadsOf, head.fence>>
  <2> SUFFICES ASSUME IInv, [Next]_vars
               PROVE  Log!Next \/ UNCHANGED <<PayloadsOf, head.fence>>
    OBVIOUS
  <2>1. CASE SwapsHead
    BY <2>1, SwapsRefine
  <2>2. CASE KeepsHead
    <3>1. \A i \in DOMAIN chain : records'[chain[i]] = records[chain[i]]
      BY <2>2 DEF KeepsHead, IInv, LogIsSound
    <3> QED
      BY <2>2, <3>1 DEF KeepsHead, PayloadsOf
  <2> QED
    BY <2>1, <2>2, HeadMovesBySwap
<1> QED
  BY <1>1, <1>2, InvariantHolds, PTL DEF Spec, LogSpec, Log!Spec, PayloadsOf
-----------------------------------------------------------------------------
(* Calls run down *)

CallRests(p) == UNCHANGED <<pc[p], call[p], swap[p], tries[p], wrote[p], view[p]>>

OthersRest(p) == \A q \in Proc \ {p} : CallRests(q)

\* Only the call of p moves, and it is over or nearer to its end.
Shortens(p) == OthersRest(p) /\ StagesLeft(p)' < StagesLeft(p)

LEMMA StagesAreCounted ==
  ASSUME NEW label \in Pc \ {"idle"}
  PROVE  Stages[label] \in 1 .. 4
BY DEF Stages, Pc, AppendPc, FencePc, ReplayPc, InventoryPc

LEMMA CallUnderWayHasStages ==
  ASSUME TypeOK, NEW p \in Proc, pc[p] # "idle"
  PROVE  /\ Stages[pc[p]] \in 1 .. 4
         /\ StagesLeft(p) = 4 * (MaxRetries - 1 - tries[p]) + Stages[pc[p]]
         /\ tries[p] \in 0 .. MaxRetries - 1
         /\ StagesLeft(p) \in Nat \ {0}
<1>1. Stages[pc[p]] \in 1 .. 4 /\ tries[p] \in 0 .. MaxRetries - 1
  BY StagesAreCounted DEF TypeOK
<1>2. StagesLeft(p) = 4 * (MaxRetries - 1 - tries[p]) + Stages[pc[p]]
  BY DEF StagesLeft
<1> QED
  BY <1>1, <1>2, RetriesAssumption

LEMMA EndShortens ==
  ASSUME TypeOK, NEW p \in Proc, pc[p] # "idle", Finish(p),
         \A q \in Proc \ {p} : view'[q] = view[q]
  PROVE  Shortens(p)
<1>1. OthersRest(p)
  BY DEF TypeOK, Finish, Goto, OthersRest, CallRests
<1>2. pc'[p] = "idle"
  BY DEF TypeOK, Finish, Goto
<1>3. StagesLeft(p)' = 0
  BY <1>2 DEF StagesLeft
<1> QED
  BY <1>1, <1>3, CallUnderWayHasStages DEF Shortens

LEMMA RefuseShortens ==
  ASSUME TypeOK, NEW p \in Proc, pc[p] # "idle", Refuse(p)
  PROVE  Shortens(p)
BY EndShortens DEF Refuse

\* The next stage of the same try
LEMMA AdvanceShortens ==
  ASSUME TypeOK, NEW p \in Proc, pc[p] # "idle",
         NEW label \in Pc \ {"idle"}, Goto(p, label), Stages[label] < Stages[pc[p]],
         UNCHANGED <<call, tries, view>>,
         \A q \in Proc \ {p} : swap'[q] = swap[q] /\ wrote'[q] = wrote[q]
  PROVE  Shortens(p)
<1>1. OthersRest(p)
  BY DEF TypeOK, Goto, OthersRest, CallRests
<1>2. pc'[p] = label /\ tries'[p] = tries[p]
  BY DEF TypeOK, Goto
<1>3. StagesLeft(p)' = 4 * (MaxRetries - 1 - tries[p]) + Stages[label]
  BY <1>2 DEF StagesLeft
<1> QED
  BY <1>1, <1>3, CallUnderWayHasStages, StagesAreCounted, RetriesAssumption DEF Shortens

LEMMA ReadHeadShortens ==
  ASSUME TypeOK, NEW p \in Proc, pc[p] # "idle",
         NEW label \in Pc \ {"idle"}, ReadHead(p, label), Stages[label] < Stages[pc[p]]
  PROVE  Shortens(p)
<1>1. \A q \in Proc \ {p} : swap'[q] = swap[q] /\ wrote'[q] = wrote[q]
  BY DEF TypeOK, ReadHead
<1> QED
  BY <1>1, AdvanceShortens DEF ReadHead

\* A lost race costs the try with all its stages.
LEMMA RetryShortens ==
  ASSUME TypeOK, NEW p \in Proc, pc[p] # "idle",
         NEW label \in Pc \ {"idle"}, Retry(p, label)
  PROVE  Shortens(p)
<1>1. OthersRest(p)
  BY DEF TypeOK, Retry, Goto, OthersRest, CallRests
<1>2. pc'[p] = label /\ tries'[p] = tries[p] + 1
  BY DEF TypeOK, Retry, Goto
<1>3. StagesLeft(p)' = 4 * (MaxRetries - 1 - (tries[p] + 1)) + Stages[label]
  BY <1>2 DEF StagesLeft
<1> QED
  BY <1>1, <1>3, CallUnderWayHasStages, StagesAreCounted, RetriesAssumption DEF Shortens

LEMMA AppendStepShortens ==
  ASSUME TypeOK, NEW p \in Proc, AppendStep(p)
  PROVE  Shortens(p)
<1> USE DEF Pc, AppendPc
<1>1. ASSUME AppendRead(p)
      PROVE  Shortens(p)
  BY <1>1, ReadHeadShortens DEF AppendRead, Stages
<1>2. ASSUME AppendRefused(p) \/ AppendTampered(p) \/ AppendPutCollides(p)
      PROVE  Shortens(p)
  BY <1>2, RefuseShortens DEF AppendRefused, AppendTampered, AppendPutCollides
<1>3. ASSUME AppendVerify(p)
      PROVE  Shortens(p)
  BY <1>3, AdvanceShortens DEF AppendVerify, Stages
<1>4. ASSUME AppendPut(p)
      PROVE  Shortens(p)
  <2>1. pc[p] = "put" /\ Goto(p, "swap") /\ UNCHANGED <<call, tries, view>>
    BY <1>4 DEF AppendPut
  <2>2. \A q \in Proc \ {p} : swap'[q] = swap[q] /\ wrote'[q] = wrote[q]
    BY <1>4 DEF AppendPut, WillSwapIn, TypeOK
  <2> QED
    BY <2>1, <2>2, AdvanceShortens DEF Stages
<1>5. ASSUME AppendWins(p)
      PROVE  Shortens(p)
  BY <1>5, EndShortens DEF AppendWins
<1>6. ASSUME AppendLoses(p)
      PROVE  Shortens(p)
  BY <1>6, RetryShortens, RefuseShortens DEF AppendLoses, GiveUp
<1> QED
  BY <1>1, <1>2, <1>3, <1>4, <1>5, <1>6 DEF AppendStep

LEMMA FenceStepShortens ==
  ASSUME TypeOK, NEW p \in Proc, FenceStep(p)
  PROVE  Shortens(p)
<1> USE DEF Pc, FencePc
<1>1. ASSUME FenceRead(p)
      PROVE  Shortens(p)
  BY <1>1, ReadHeadShortens DEF FenceRead, Stages
<1>2. ASSUME Fenced(p), pc[p] # "idle"
      PROVE  Shortens(p)
  BY <1>2, EndShortens DEF Fenced
<1>3. ASSUME FenceFound(p) \/ FenceTampered(p) \/ FenceConfirm(p) \/ FenceContradicted(p)
      PROVE  Shortens(p)
  BY <1>2, <1>3, RefuseShortens DEF FenceFound, FenceTampered, FenceConfirm, FenceContradicted
<1>4. ASSUME FenceWalk(p)
      PROVE  Shortens(p)
  <2>1. pc[p] = "fence_walk" /\ Goto(p, "fence_swap") /\ UNCHANGED <<call, tries, wrote, view>>
    BY <1>4 DEF FenceWalk
  <2>2. \A q \in Proc \ {p} : swap'[q] = swap[q]
    BY <1>4 DEF FenceWalk, WillSwapIn, TypeOK
  <2> QED
    BY <2>1, <2>2, AdvanceShortens DEF Stages
<1>5. ASSUME FenceWins(p)
      PROVE  Shortens(p)
  BY <1>5, AdvanceShortens DEF FenceWins, Stages
<1>6. ASSUME FenceLoses(p)
      PROVE  Shortens(p)
  BY <1>6, RetryShortens, RefuseShortens DEF FenceLoses, GiveUp
<1> QED
  BY <1>1, <1>3, <1>4, <1>5, <1>6 DEF FenceStep

LEMMA ReadersStepShortens ==
  ASSUME TypeOK, NEW p \in Proc, ReplayStep(p) \/ InventoryStep(p)
  PROVE  Shortens(p)
<1> USE DEF Pc, ReplayPc, InventoryPc
<1>1. ASSUME ReplayRead(p) \/ InventoryRead(p)
      PROVE  Shortens(p)
  BY <1>1, ReadHeadShortens DEF ReplayRead, InventoryRead, Stages
<1>2. ASSUME ReplayRefused(p) \/ ReplayWalkFails(p) \/ InventoryRefused(p)
      PROVE  Shortens(p)
  BY <1>2, RefuseShortens DEF ReplayRefused, ReplayWalkFails, InventoryRefused
<1>3. ASSUME ReplayWalk(p) \/ ReplayOpen(p)
      PROVE  Shortens(p)
  BY <1>3, AdvanceShortens DEF ReplayWalk, ReplayOpen, Stages
<1>4. ASSUME ReplayPublish(p) \/ InventoryWalk(p)
      PROVE  Shortens(p)
  <2>1. Finish(p) /\ pc[p] # "idle" /\ \A q \in Proc \ {p} : view'[q] = view[q]
    BY <1>4 DEF ReplayPublish, InventoryWalk, TypeOK
  <2> QED
    BY <2>1, EndShortens
<1> QED
  BY <1>1, <1>2, <1>3, <1>4 DEF ReplayStep, InventoryStep

LEMMA EveryStepShortens ==
  ASSUME TypeOK, [Next]_vars, NEW p \in Proc, pc[p] # "idle"
  PROVE  CallRests(p) \/ StagesLeft(p)' < StagesLeft(p)
<1>1. ASSUME NEW q \in Proc, Step(q)
      PROVE  Shortens(q)
  BY <1>1, AppendStepShortens, FenceStepShortens, ReadersStepShortens DEF Step
<1>2. ASSUME NEW q \in Proc, Unanswered(q)
      PROVE  Shortens(q)
  BY <1>2, EndShortens DEF Unanswered, AppendUnconfirmed, FenceUnconfirmed, LoseAnswer
<1>3. ASSUME NEW q \in Proc, Crash(q), pc[q] # "idle"
      PROVE  Shortens(q)
  <2>1. Finish(q) /\ \A r \in Proc \ {q} : view'[r] = view[r]
    BY <1>3 DEF Crash, TypeOK
  <2> QED
    BY <1>3, <2>1, EndShortens
<1>4. ASSUME NEW q \in Proc, Crash(q) \/ BeginCall(q), q # p
      PROVE  CallRests(p)
  BY <1>4 DEF Crash, Finish, BeginCall, BeginAppend, BeginFence, BeginReplay, BeginInventory,
              Begin, Goto, CallRests, TypeOK
<1>5. ASSUME NEW q \in Proc, BeginCall(q)
      PROVE  pc[q] = "idle"
  BY <1>5 DEF BeginCall, BeginAppend, BeginFence, BeginReplay, BeginInventory, Begin
<1>6. LateSwap \/ UNCHANGED vars => CallRests(p)
  BY DEF LateSwap, vars, local, CallRests
<1> QED
  BY <1>1, <1>2, <1>3, <1>4, <1>5, <1>6 DEF Next, Shortens, OthersRest

\* However many commits, fences and late writes of others come in between, every
\* step that touches a call leaves it fewer of its 4 * max_retries stages: no call
\* of append, fence_for_erasure, replay or fenced_record_keys goes on for ever in a
\* log that grows for ever.
THEOREM CallsAreBounded == Spec => CallsRunDown
<1>1. TypeOK /\ [Next]_vars =>
        [\A p \in Proc : pc[p] # "idle" =>
           \/ UNCHANGED <<pc[p], call[p], swap[p], tries[p], wrote[p], view[p]>>
           \/ StagesLeft(p)' < StagesLeft(p)]_vars
  BY EveryStepShortens DEF CallRests
<1> QED
  BY <1>1, TypeCorrect, PTL DEF Spec, CallsRunDown
=============================================================================
