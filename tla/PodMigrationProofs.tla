------------------------- MODULE PodMigrationProofs -------------------------
(***************************************************************************)
(* Proofs about PodMigration, for any jobs, hosts and bounds, where the     *)
(* ticket's write of a refused comparison is answered: the inductive        *)
(* invariant IInv and the properties that it implies.                       *)
(***************************************************************************)
EXTENDS PodMigration, TLAPS

-----------------------------------------------------------------------------
(* What a job knows: the updates of its record *)

LEMMA ReadUpdate ==
  ASSUME move \in [Job -> Move], NEW w \in Job, NEW t \in Ticket,
         move' = [move EXCEPT ![w].read = t]
  PROVE  /\ move' \in [Job -> Move]
         /\ move'[w].src = move[w].src /\ move'[w].dst = move[w].dst
         /\ move'[w].read = t /\ move'[w].head = move[w].head
         /\ move'[w].done = move[w].done /\ move'[w].rebuilt = move[w].rebuilt
         /\ move'[w].verdict = move[w].verdict /\ move'[w].refused = move[w].refused
         /\ \A v \in Job \ {w} : move'[v] = move[v]
BY DEF Move

LEMMA HeadUpdate ==
  ASSUME move \in [Job -> Move], NEW w \in Job, NEW s \in Seq(Record),
         move' = [move EXCEPT ![w].head = s]
  PROVE  /\ move' \in [Job -> Move]
         /\ move'[w].src = move[w].src /\ move'[w].dst = move[w].dst
         /\ move'[w].read = move[w].read /\ move'[w].head = s
         /\ move'[w].done = move[w].done /\ move'[w].rebuilt = move[w].rebuilt
         /\ move'[w].verdict = move[w].verdict /\ move'[w].refused = move[w].refused
         /\ \A v \in Job \ {w} : move'[v] = move[v]
BY DEF Move

LEMMA VerdictUpdate ==
  ASSUME move \in [Job -> Move], NEW w \in Job, NEW verdict \in Verdict,
         move' = [move EXCEPT ![w].verdict = verdict]
  PROVE  /\ move' \in [Job -> Move]
         /\ move'[w].src = move[w].src /\ move'[w].dst = move[w].dst
         /\ move'[w].read = move[w].read /\ move'[w].head = move[w].head
         /\ move'[w].done = move[w].done /\ move'[w].rebuilt = move[w].rebuilt
         /\ move'[w].verdict = verdict /\ move'[w].refused = move[w].refused
         /\ \A v \in Job \ {w} : move'[v] = move[v]
BY DEF Move

LEMMA RecoverUpdate ==
  ASSUME move \in [Job -> Move], NEW w \in Job, NEW verdict \in Verdict,
         NEW refused \in BOOLEAN,
         move' = [move EXCEPT ![w].verdict = verdict, ![w].refused = refused]
  PROVE  /\ move' \in [Job -> Move]
         /\ move'[w].src = move[w].src /\ move'[w].dst = move[w].dst
         /\ move'[w].read = move[w].read /\ move'[w].head = move[w].head
         /\ move'[w].done = move[w].done /\ move'[w].rebuilt = move[w].rebuilt
         /\ move'[w].verdict = verdict /\ move'[w].refused = refused
         /\ \A v \in Job \ {w} : move'[v] = move[v]
BY DEF Move

-----------------------------------------------------------------------------
(* Types *)

LEMMA RecordType ==
  ASSUME TypeOK, NEW h \in Host
  PROVE  NextRecord(h) \in Record /\ Append(log[h], NextRecord(h)) \in Seq(Record)
<1>1. log[h] \in Seq(Record)
  BY DEF TypeOK
<1>2. Len(log[h]) + 1 \in Nat \ {0}
  BY <1>1
<1>3. NextRecord(h) \in Record
  BY <1>2 DEF NextRecord, Record
<1> QED
  BY <1>1, <1>3

LEMMA InitTypeOK == Init => TypeOK
<1> SUFFICES ASSUME Init PROVE TypeOK
  OBVIOUS
<1>1. NoTicket \in Ticket
  BY DEF NoTicket, Ticket
<1>2. NoMove \in Move
  BY <1>1, HostAssumption DEF NoMove, Move, Verdict
<1>3. turn \in [host : Host \cup {NoHost}, admitted : BOOLEAN]
  BY DEF Init, NoTurn
<1>4. registry \in [status : RegistryStatus, host : Host]
  BY HostAssumption DEF Init, RegistryStatus
<1> QED
  BY <1>1, <1>2, <1>3, <1>4, HostAssumption DEF Init, TypeOK, OpenGate

\* What the pods are asked keeps the type of their state.
LEMMA PodsType ==
  ASSUME TypeOK, NEW h \in Host, NEW w \in Job
  PROVE  /\ Prepared(h, w) \/ Released(h, w) =>
              gate' \in [Host -> [holder : Job \cup {NoJob}, released : Job \cup {NoJob}]]
         /\ Built(h) => up' \subseteq Host /\ log' \in [Host -> Seq(Record)]
         /\ TakeDown(h) =>
              /\ up' \subseteq Host /\ log' \in [Host -> Seq(Record)]
              /\ gate' \in [Host -> [holder : Job \cup {NoJob}, released : Job \cup {NoJob}]]
              /\ imports' \subseteq Job
              /\ late' \subseteq [do : {"prepare", "release"}, job : Job]
              /\ turn' \in [host : Host \cup {NoHost}, admitted : BOOLEAN]
              /\ acked' \subseteq Record
<1> DEFINE Gate == [holder : Job \cup {NoJob}, released : Job \cup {NoJob}]
<1>0. \A g \in Gate : [gate EXCEPT ![h] = g] \in [Host -> Gate]
  BY DEF TypeOK
<1>1. Prepared(h, w) \/ Released(h, w) => gate' \in [Host -> Gate]
  <2>1. [holder |-> w, released |-> NoJob] \in Gate
    OBVIOUS
  <2>2. [holder |-> NoJob, released |-> w] \in Gate
    OBVIOUS
  <2>3. gate \in [Host -> Gate]
    BY DEF TypeOK
  <2> QED
    BY <1>0, <2>1, <2>2, <2>3 DEF Prepared, Released
<1>2. Built(h) => up' \subseteq Host /\ log' \in [Host -> Seq(Record)]
  <2>1. <<>> \in Seq(Record) /\ up \subseteq Host /\ log \in [Host -> Seq(Record)]
    BY DEF TypeOK
  <2> QED
    BY <2>1 DEF Built
<1>3. TakeDown(h) =>
        /\ up' \subseteq Host /\ log' \in [Host -> Seq(Record)]
        /\ imports' \subseteq Job
        /\ late' \subseteq [do : {"prepare", "release"}, job : Job]
        /\ acked' \subseteq Record
  BY DEF TypeOK, TakeDown
<1>4. TakeDown(h) =>
        /\ gate' \in [Host -> [holder : Job \cup {NoJob}, released : Job \cup {NoJob}]]
        /\ turn' \in [host : Host \cup {NoHost}, admitted : BOOLEAN]
  BY DEF TypeOK, TakeDown, OpenGate, NoTurn
<1> QED
  BY <1>1, <1>2, <1>3, <1>4

LEMMA GoesType ==
  ASSUME TypeOK, NEW w \in Job, NEW step \in Steps \cup {"idle", "done"}, Goes(w, step)
  PROVE  /\ pc' \in [Job -> Steps \cup {"idle", "done"}] /\ pc'[w] = step
         /\ \A v \in Job \ {w} : pc'[v] = pc[v]
BY DEF TypeOK, Goes

LEMMA EndsType ==
  ASSUME TypeOK, NEW w \in Job, NEW verdict \in Verdict, Ends(w, verdict)
  PROVE  /\ pc' \in [Job -> Steps \cup {"idle", "done"}] /\ pc'[w] = "finish"
         /\ \A v \in Job \ {w} : pc'[v] = pc[v]
         /\ move' \in [Job -> Move]
         /\ move'[w].src = move[w].src /\ move'[w].dst = move[w].dst
         /\ move'[w].rebuilt = move[w].rebuilt /\ move'[w].head = move[w].head
         /\ move'[w].verdict = verdict /\ move'[w].refused = move[w].refused
         /\ \A v \in Job \ {w} : move'[v] = move[v]
<1>1. "finish" \in Steps /\ Goes(w, "finish")
  BY DEF Steps, Ends
<1>2. move \in [Job -> Move] /\ move' = [move EXCEPT ![w].verdict = verdict]
  BY DEF TypeOK, Ends
<1>3. /\ pc' \in [Job -> Steps \cup {"idle", "done"}] /\ pc'[w] = "finish"
      /\ \A v \in Job \ {w} : pc'[v] = pc[v]
  BY <1>1, GoesType
<1> QED
  BY <1>2, <1>3, VerdictUpdate

LEMMA OwesType ==
  ASSUME TypeOK, NEW w \in Job, NEW step \in Steps, Owes(w, step)
  PROVE  /\ pc' \in [Job -> Steps \cup {"idle", "done"}] /\ pc'[w] = step
         /\ \A v \in Job \ {w} : pc'[v] = pc[v]
         /\ move' \in [Job -> Move]
         /\ move'[w].src = move[w].src /\ move'[w].dst = move[w].dst
         /\ move'[w].rebuilt = move[w].rebuilt /\ move'[w].head = move[w].head
         /\ move'[w].verdict = "recovery_pending" /\ move'[w].refused = move[w].refused
         /\ \A v \in Job \ {w} : move'[v] = move[v]
<1>1. Goes(w, step) /\ "recovery_pending" \in Verdict
  BY DEF Owes, Verdict
<1>2. move \in [Job -> Move] /\ move' = [move EXCEPT ![w].verdict = "recovery_pending"]
  BY DEF TypeOK, Owes
<1>3. /\ pc' \in [Job -> Steps \cup {"idle", "done"}] /\ pc'[w] = step
      /\ \A v \in Job \ {w} : pc'[v] = pc[v]
  BY <1>1, GoesType
<1> QED
  BY <1>1, <1>2, <1>3, VerdictUpdate

LEMMA RecoversType ==
  ASSUME TypeOK, NEW w \in Job, NEW refused \in BOOLEAN, Recovers(w, refused)
  PROVE  /\ pc' \in [Job -> Steps \cup {"idle", "done"}] /\ pc'[w] = "release"
         /\ \A v \in Job \ {w} : pc'[v] = pc[v]
         /\ move' \in [Job -> Move]
         /\ move'[w].src = move[w].src /\ move'[w].dst = move[w].dst
         /\ move'[w].rebuilt = move[w].rebuilt /\ move'[w].head = move[w].head
         /\ move'[w].verdict = "failed" /\ move'[w].refused = refused
         /\ \A v \in Job \ {w} : move'[v] = move[v]
<1>1. "release" \in Steps /\ Goes(w, "release") /\ "failed" \in Verdict
  BY DEF Steps, Recovers, Verdict
<1>2. move \in [Job -> Move]
  BY DEF TypeOK
<1> DEFINE failed == "failed"
<1>3. failed \in Verdict /\ move' = [move EXCEPT ![w].verdict = failed, ![w].refused = refused]
  BY DEF Recovers, Verdict
<1> HIDE DEF failed
<1>4. /\ move' \in [Job -> Move]
      /\ move'[w].src = move[w].src /\ move'[w].dst = move[w].dst
      /\ move'[w].rebuilt = move[w].rebuilt /\ move'[w].head = move[w].head
      /\ move'[w].verdict = failed /\ move'[w].refused = refused
      /\ \A v \in Job \ {w} : move'[v] = move[v]
  BY <1>2, <1>3, RecoverUpdate
<1>5. failed = "failed"
  BY DEF failed
<1> QED
  BY <1>1, <1>4, <1>5, GoesType

-----------------------------------------------------------------------------
(* One worker at a time *)

\* What is claimed of a worker's place is claimed of those that work.
LEMMA AtRest ==
  ASSUME NEW v \in Job, pc'[v] \in {"idle", "read", "claim", "done"}
  PROVE  Standing(v)'
BY DEF Standing, Recovering

LEMMA NotWorking ==
  ASSUME TypeOK, NEW v \in Job, ~Working(v)
  PROVE  pc[v] \in {"idle", "read", "claim", "done"}
BY DEF TypeOK, Working, Steps

LEMMA OthersRest ==
  ASSUME IInv, NEW w \in Job, Working(w), NEW v \in Job \ {w}
  PROVE  ~Working(v) /\ pc[v] \in {"idle", "read", "claim", "done"} /\ ticket.job # v
<1>1. ticket = [job |-> w, status |-> "running"]
  BY DEF IInv, Alone
<1>2. ticket.job # v
  BY <1>1
<1>3. ~Working(v)
  BY <1>2 DEF IInv, Alone
<1> QED
  BY <1>2, <1>3, NotWorking DEF IInv

\* A step of the one worker leaves the invariant as it was for the others.
LEMMA StepKeeps ==
  ASSUME IInv, NEW w \in Job, Working(w), ticket' = ticket, TypeOK',
         \A v \in Job \ {w} : pc'[v] = pc[v] /\ move'[v] = move[v],
         imports' \subseteq imports \cup {w},
         \A v \in Job \ {w}, d \in {"prepare", "release"} :
           [do |-> d, job |-> v] \in late' => [do |-> d, job |-> v] \in late,
         SoFar(w)', Standing(w)', LateOf(w)',
         GatesAreFresh', TurnIsServed', MemoryIsServed'
  PROVE  IInv'
<1>1. ticket = [job |-> w, status |-> "running"]
  BY DEF IInv, Alone
<1>2. ASSUME NEW v \in Job \ {w}
      PROVE  ~Working(v)' /\ SoFar(v)' /\ Standing(v)' /\ LateOf(v)'
  <2>1. ~Working(v) /\ pc[v] \in {"idle", "read", "claim", "done"} /\ ticket.job # v
    BY OthersRest
  <2>2. ~Working(v)' /\ Standing(v)'
    BY <2>1, AtRest DEF Working
  <2>3. SoFar(v)'
    BY DEF IInv, SoFar
  <2>4. LateOf(v)'
    BY <2>1 DEF IInv, LateOf
  <2> QED
    BY <2>2, <2>3, <2>4
<1>3. Alone'
  BY <1>1, <1>2 DEF Alone
<1>4. TicketIsTrue'
  BY <1>1 DEF TicketIsTrue, Startable
<1> QED
  BY <1>2, <1>3, <1>4 DEF IInv

\* Before the switch a turn is on its way to the source, and stays so.
LEMMA TurnStays ==
  ASSUME IInv, NEW w \in Job, Working(w), pc[w] \notin {"reap", "finish"},
         turn' \in {turn, NoTurn}, registry'.host = registry.host, registry.host \in up'
  PROVE  TurnIsServed'
<1>1. ticket = [job |-> w, status |-> "running"]
  BY DEF IInv, Alone
<1>2. pc[w] # "done"
  BY DEF Working, Steps
<1>3. ~ShutOut
  BY <1>1, <1>2 DEF ShutOut
<1>4. turn # NoTurn => turn.host = registry.host
  BY <1>3 DEF IInv, TurnIsServed
<1> QED
  BY <1>4 DEF NoTurn, TurnIsServed

LEMMA MemoryStays ==
  ASSUME IInv, registry'.host = registry.host, registry.host \in up', acked' = acked,
         Records(log[registry.host]) \subseteq Records(log'[registry.host])
  PROVE  MemoryIsServed'
BY DEF IInv, MemoryIsServed, Records

-----------------------------------------------------------------------------
(* The steps of a worker *)

LEMMA FreezeKeeps == ASSUME IInv, NEW w \in Job, Freeze(w) PROVE IInv'
<1>0. SoFar(w) /\ Standing(w) /\ LateOf(w) /\ TypeOK
  BY DEF IInv
<1>1. Working(w) /\ ticket = [job |-> w, status |-> "running"]
  BY DEF IInv, Alone, Freeze, Working, Steps
<1>2. /\ pc' \in [Job -> Steps \cup {"idle", "done"}] /\ pc'[w] = "drain"
      /\ \A v \in Job \ {w} : pc'[v] = pc[v] /\ move'[v] = move[v]
      /\ move' = move
  BY GoesType DEF IInv, Freeze, Steps
<1>3. TypeOK'
  BY <1>0, <1>2 DEF Freeze, Migrating, TypeOK, RegistryStatus, pods
<1>4. SoFar(w)' /\ imports' \subseteq imports \cup {w}
  BY <1>0, <1>2 DEF Freeze, SoFar, Early, pods
<1>5. Standing(w)'
  BY <1>0, <1>2 DEF Freeze, Standing, Recovering, Migrating, Quiet, Serving, pods
<1>6. /\ LateOf(w)'
      /\ \A v \in Job \ {w}, d \in {"prepare", "release"} :
           [do |-> d, job |-> v] \in late' => [do |-> d, job |-> v] \in late
  BY <1>0, <1>2 DEF Freeze, LateOf, Recovering, pods
<1>7. GatesAreFresh'
  BY DEF IInv, Freeze, GatesAreFresh, pods
<1>8. TurnIsServed'
  BY <1>1, TurnStays DEF IInv, MemoryIsServed, Freeze, Migrating, pods
<1>9. MemoryIsServed'
  BY MemoryStays DEF IInv, MemoryIsServed, Freeze, Migrating, pods
<1> QED
  BY <1>1, <1>2, <1>3, <1>4, <1>5, <1>6, <1>7, <1>8, <1>9, StepKeeps DEF Freeze, hub

LEMMA FreezeRefusedKeeps == ASSUME IInv, NEW w \in Job, FreezeRefused(w) PROVE IInv'
<1>0. SoFar(w) /\ Standing(w) /\ LateOf(w) /\ TypeOK
  BY DEF IInv
<1>1. Working(w) /\ ticket = [job |-> w, status |-> "running"]
  BY DEF IInv, Alone, FreezeRefused, Working, Steps
<1>2. /\ pc' \in [Job -> Steps \cup {"idle", "done"}] /\ pc'[w] = "finish"
      /\ \A v \in Job \ {w} : pc'[v] = pc[v] /\ move'[v] = move[v]
      /\ move' \in [Job -> Move]
      /\ move'[w].src = move[w].src /\ move'[w].dst = move[w].dst
      /\ move'[w].rebuilt = move[w].rebuilt /\ move'[w].head = move[w].head
      /\ move'[w].verdict = "failed" /\ move'[w].refused = move[w].refused
  BY EndsType DEF IInv, FreezeRefused, Verdict
<1>3. TypeOK'
  BY <1>0, <1>2 DEF FreezeRefused, TypeOK, hub, pods
<1>4. SoFar(w)' /\ imports' \subseteq imports \cup {w}
  BY <1>0, <1>2 DEF FreezeRefused, SoFar, Early, pods
<1>5. Standing(w)'
  BY <1>0, <1>1, <1>2 DEF FreezeRefused, Standing, Recovering, Quiet, Serving, hub, pods, SoFar, Early
<1>6. /\ LateOf(w)'
      /\ \A v \in Job \ {w}, d \in {"prepare", "release"} :
           [do |-> d, job |-> v] \in late' => [do |-> d, job |-> v] \in late
  BY <1>0, <1>2 DEF FreezeRefused, LateOf, Recovering, pods
<1>7. GatesAreFresh'
  BY DEF IInv, FreezeRefused, GatesAreFresh, pods
<1>8. TurnIsServed'
  BY <1>1, TurnStays DEF IInv, MemoryIsServed, FreezeRefused, hub, pods
<1>9. MemoryIsServed'
  BY MemoryStays DEF IInv, MemoryIsServed, FreezeRefused, hub, pods
<1> QED
  BY <1>1, <1>2, <1>3, <1>4, <1>5, <1>6, <1>7, <1>8, <1>9, StepKeeps DEF FreezeRefused, hub

LEMMA FreezeUnansweredKeeps == ASSUME IInv, NEW w \in Job, FreezeUnanswered(w) PROVE IInv'
<1>0. SoFar(w) /\ Standing(w) /\ LateOf(w) /\ TypeOK
  BY DEF IInv
<1>1. Working(w) /\ ticket = [job |-> w, status |-> "running"]
  BY DEF IInv, Alone, FreezeUnanswered, Working, Steps
<1>2. /\ pc' \in [Job -> Steps \cup {"idle", "done"}] /\ pc'[w] = "finish"
      /\ \A v \in Job \ {w} : pc'[v] = pc[v] /\ move'[v] = move[v]
      /\ move' \in [Job -> Move]
      /\ move'[w].src = move[w].src /\ move'[w].dst = move[w].dst
      /\ move'[w].rebuilt = move[w].rebuilt /\ move'[w].head = move[w].head
      /\ move'[w].verdict = "freeze_unknown" /\ move'[w].refused = move[w].refused
  BY EndsType DEF IInv, FreezeUnanswered, Verdict
<1>a. registry'.host = registry.host
  BY <1>0 DEF FreezeUnanswered, Migrating, TypeOK
<1>3. TypeOK'
  BY <1>0, <1>2 DEF FreezeUnanswered, Migrating, TypeOK, RegistryStatus, pods
<1>4. SoFar(w)' /\ imports' \subseteq imports \cup {w}
  BY <1>0, <1>2 DEF FreezeUnanswered, SoFar, Early, pods
<1>5. Standing(w)'
  BY <1>0, <1>1, <1>2 DEF FreezeUnanswered, Standing, Recovering, SoFar, Early
<1>6. /\ LateOf(w)'
      /\ \A v \in Job \ {w}, d \in {"prepare", "release"} :
           [do |-> d, job |-> v] \in late' => [do |-> d, job |-> v] \in late
  BY <1>0, <1>2 DEF FreezeUnanswered, LateOf, Recovering, pods
<1>7. GatesAreFresh'
  BY DEF IInv, FreezeUnanswered, GatesAreFresh, pods
<1>8. TurnIsServed'
  BY <1>1, <1>a, TurnStays DEF IInv, MemoryIsServed, FreezeUnanswered, pods
<1>9. MemoryIsServed'
  BY <1>a, MemoryStays DEF IInv, MemoryIsServed, FreezeUnanswered, pods
<1> QED
  BY <1>1, <1>2, <1>3, <1>4, <1>5, <1>6, <1>7, <1>8, <1>9, StepKeeps DEF FreezeUnanswered, hub

LEMMA DrainKeeps == ASSUME IInv, NEW w \in Job, Drain(w) PROVE IInv'
<1>0. SoFar(w) /\ Standing(w) /\ LateOf(w) /\ TypeOK
  BY DEF IInv
<1>1. Working(w) /\ ticket = [job |-> w, status |-> "running"]
  BY DEF IInv, Alone, Drain, Working, Steps
<1>2. /\ pc' \in [Job -> Steps \cup {"idle", "done"}] /\ pc'[w] = "await"
      /\ \A v \in Job \ {w} : pc'[v] = pc[v] /\ move'[v] = move[v]
      /\ move' = move
  BY GoesType DEF IInv, Drain, Steps
<1>a. move[w].src \in Host /\ Prepared(move[w].src, w)
  BY <1>0 DEF TypeOK, Move, Drain
<1>b. move[w].src = registry.host /\ gate'[move[w].src].holder = w
  BY <1>0, <1>a DEF TypeOK, Prepared, Drain, Standing, Serving
<1>3. TypeOK'
  BY <1>0, <1>2, <1>a, PodsType DEF Drain, TypeOK, hub
<1>4. SoFar(w)' /\ imports' \subseteq imports \cup {w}
  BY <1>0, <1>2 DEF Drain, SoFar, Early, pods
<1>5. Standing(w)'
  BY <1>0, <1>2, <1>b DEF Drain, Standing, Recovering, Serving, Fenced, hub
<1>6. /\ LateOf(w)'
      /\ \A v \in Job \ {w}, d \in {"prepare", "release"} :
           [do |-> d, job |-> v] \in late' => [do |-> d, job |-> v] \in late
  BY <1>0, <1>2 DEF Drain, LateOf, Recovering, pods
<1>7. GatesAreFresh'
  BY <1>a, <1>0 DEF IInv, Drain, Prepared, GatesAreFresh, TypeOK
<1>8. TurnIsServed'
  BY <1>1, TurnStays DEF IInv, MemoryIsServed, Drain, hub, pods
<1>9. MemoryIsServed'
  BY MemoryStays DEF IInv, MemoryIsServed, Drain, hub, pods
<1> QED
  BY <1>1, <1>2, <1>3, <1>4, <1>5, <1>6, <1>7, <1>8, <1>9, StepKeeps DEF Drain, hub

LEMMA DrainedKeeps == ASSUME IInv, NEW w \in Job, Drained(w) PROVE IInv'
<1>0. SoFar(w) /\ Standing(w) /\ LateOf(w) /\ TypeOK
  BY DEF IInv
<1>1. Working(w) /\ ticket = [job |-> w, status |-> "running"]
  BY DEF IInv, Alone, Drained, Working, Steps
<1>2. /\ pc' \in [Job -> Steps \cup {"idle", "done"}] /\ pc'[w] = "build"
      /\ \A v \in Job \ {w} : pc'[v] = pc[v] /\ move'[v] = move[v]
      /\ move' = move
  BY GoesType DEF IInv, Drained, Steps
<1>a. ~turn.admitted
  BY <1>0 DEF Drained, Standing, Fenced, IInv, TurnIsServed
<1>3. TypeOK'
  BY <1>0, <1>2 DEF Drained, TypeOK, hub, pods
<1>4. SoFar(w)' /\ imports' \subseteq imports \cup {w}
  BY <1>0, <1>2 DEF Drained, SoFar, Early, pods
<1>5. Standing(w)'
  BY <1>0, <1>2, <1>a DEF Drained, Standing, Recovering, Fenced, hub, pods
<1>6. /\ LateOf(w)'
      /\ \A v \in Job \ {w}, d \in {"prepare", "release"} :
           [do |-> d, job |-> v] \in late' => [do |-> d, job |-> v] \in late
  BY <1>0, <1>2 DEF Drained, LateOf, Recovering, pods
<1>7. GatesAreFresh'
  BY DEF IInv, Drained, GatesAreFresh, pods
<1>8. TurnIsServed'
  BY <1>1, TurnStays DEF IInv, MemoryIsServed, Drained, hub, pods
<1>9. MemoryIsServed'
  BY MemoryStays DEF IInv, MemoryIsServed, Drained, hub, pods
<1> QED
  BY <1>1, <1>2, <1>3, <1>4, <1>5, <1>6, <1>7, <1>8, <1>9, StepKeeps DEF Drained, hub

LEMMA DrainUnconfirmedKeeps == ASSUME IInv, NEW w \in Job, DrainUnconfirmed(w) PROVE IInv'
<1>0. SoFar(w) /\ Standing(w) /\ LateOf(w) /\ TypeOK
  BY DEF IInv
<1>1. Working(w) /\ ticket = [job |-> w, status |-> "running"]
  BY DEF IInv, Alone, DrainUnconfirmed, Working, Steps
<1>2. /\ pc' \in [Job -> Steps \cup {"idle", "done"}] /\ pc'[w] = "finish"
      /\ \A v \in Job \ {w} : pc'[v] = pc[v] /\ move'[v] = move[v]
      /\ move' \in [Job -> Move]
      /\ move'[w].src = move[w].src /\ move'[w].dst = move[w].dst
      /\ move'[w].rebuilt = move[w].rebuilt /\ move'[w].head = move[w].head
      /\ move'[w].verdict = "freeze_unknown" /\ move'[w].refused = move[w].refused
  BY EndsType DEF IInv, DrainUnconfirmed, Verdict
<1>3. TypeOK'
  BY <1>0, <1>2 DEF DrainUnconfirmed, TypeOK, hub, pods
<1>4. SoFar(w)' /\ imports' \subseteq imports \cup {w}
  BY <1>0, <1>2 DEF DrainUnconfirmed, SoFar, Early, pods
<1>5. Standing(w)'
  BY <1>0, <1>1, <1>2 DEF DrainUnconfirmed, Standing, Recovering, SoFar, Early
<1>6. /\ LateOf(w)'
      /\ \A v \in Job \ {w}, d \in {"prepare", "release"} :
           [do |-> d, job |-> v] \in late' => [do |-> d, job |-> v] \in late
  <2>1. \A v \in Job, d \in {"prepare", "release"} :
           [do |-> d, job |-> v] \in late' =>
             [do |-> d, job |-> v] \in late \/ (d = "prepare" /\ v = w)
    BY DEF DrainUnconfirmed
  <2>2. \A d \in {"prepare", "release"} : [do |-> d, job |-> w] \notin late
    BY <1>0 DEF DrainUnconfirmed, LateOf, Recovering
  <2>3. ~move'[w].refused
    BY <1>0, <1>2 DEF DrainUnconfirmed, SoFar, Early
  <2>4. LateOf(w)'
    BY <1>1, <1>2, <2>1, <2>2, <2>3 DEF DrainUnconfirmed, LateOf, hub
  <2> QED
    BY <2>1, <2>4
<1>7. GatesAreFresh'
  BY DEF IInv, DrainUnconfirmed, GatesAreFresh, pods
<1>8. TurnIsServed'
  BY <1>1, TurnStays DEF IInv, MemoryIsServed, DrainUnconfirmed, hub, pods
<1>9. MemoryIsServed'
  BY MemoryStays DEF IInv, MemoryIsServed, DrainUnconfirmed, hub, pods
<1> QED
  BY <1>1, <1>2, <1>3, <1>4, <1>5, <1>6, <1>7, <1>8, <1>9, StepKeeps DEF DrainUnconfirmed, hub

LEMMA BuildKeeps == ASSUME IInv, NEW w \in Job, Build(w) PROVE IInv'
<1>0. SoFar(w) /\ Standing(w) /\ LateOf(w) /\ TypeOK
  BY DEF IInv
<1>1. Working(w) /\ ticket = [job |-> w, status |-> "running"]
  BY DEF IInv, Alone, Build, Working, Steps
<1>2. /\ pc' \in [Job -> Steps \cup {"idle", "done"}] /\ pc'[w] = "export"
      /\ \A v \in Job \ {w} : pc'[v] = pc[v] /\ move'[v] = move[v]
      /\ move' = move
  BY GoesType DEF IInv, Build, Steps
<1>a. /\ move[w].src \in Host /\ move[w].dst \in Host /\ move[w].dst # move[w].src
      /\ up = {move[w].src} /\ move[w].src = registry.host
  BY <1>0 DEF TypeOK, Move, Build, Standing, Fenced, SoFar
<1>b. gate[move[w].dst].holder = NoJob
  BY <1>a DEF IInv, GatesAreFresh
<1>c. up' = {move[w].src, move[w].dst} /\ log'[registry.host] = log[registry.host]
  BY <1>0, <1>a DEF Build, Built, TypeOK
<1>3. TypeOK'
  BY <1>0, <1>2, <1>a, PodsType DEF Build, TypeOK, hub
<1>4. SoFar(w)' /\ imports' \subseteq imports \cup {w}
  BY <1>0, <1>2 DEF Build, SoFar, Early, pods
<1>5. Standing(w)'
  BY <1>0, <1>2, <1>a, <1>b, <1>c DEF Build, Standing, Recovering, Fenced, BothUp, hub
<1>6. /\ LateOf(w)'
      /\ \A v \in Job \ {w}, d \in {"prepare", "release"} :
           [do |-> d, job |-> v] \in late' => [do |-> d, job |-> v] \in late
  BY <1>0, <1>2 DEF Build, LateOf, Recovering, pods
<1>7. GatesAreFresh'
  BY <1>a, <1>c DEF IInv, Build, GatesAreFresh
<1>8. TurnIsServed'
  BY <1>1, <1>a, <1>c, TurnStays DEF Build, hub
<1>9. MemoryIsServed'
  BY <1>a, <1>c, MemoryStays DEF Build, hub
<1> QED
  BY <1>1, <1>2, <1>3, <1>4, <1>5, <1>6, <1>7, <1>8, <1>9, StepKeeps DEF Build, hub

LEMMA ExportKeeps == ASSUME IInv, NEW w \in Job, Export(w) PROVE IInv'
<1>0. SoFar(w) /\ Standing(w) /\ LateOf(w) /\ TypeOK
  BY DEF IInv
<1>1. Working(w) /\ ticket = [job |-> w, status |-> "running"]
  BY DEF IInv, Alone, Export, Working, Steps
<1>2. /\ pc' \in [Job -> Steps \cup {"idle", "done"}] /\ pc'[w] = "import"
      /\ \A v \in Job \ {w} : pc'[v] = pc[v] /\ move'[v] = move[v]
      /\ move' \in [Job -> Move]
      /\ move'[w].src = move[w].src /\ move'[w].dst = move[w].dst
      /\ move'[w].rebuilt = move[w].rebuilt /\ move'[w].head = log[move[w].src]
      /\ move'[w].verdict = move[w].verdict /\ move'[w].refused = move[w].refused
  <2>1. Goes(w, "import") /\ "import" \in Steps
    BY DEF Export, Steps
  <2>2. log[move[w].src] \in Seq(Record) /\ move \in [Job -> Move]
    BY <1>0 DEF TypeOK, Move
  <2>3. move' = [move EXCEPT ![w].head = log[move[w].src]]
    BY DEF Export
  <2>4. /\ pc' \in [Job -> Steps \cup {"idle", "done"}] /\ pc'[w] = "import"
        /\ \A v \in Job \ {w} : pc'[v] = pc[v]
    BY <1>0, <2>1, GoesType
  <2> QED
    BY <2>2, <2>3, <2>4, HeadUpdate
<1>3. TypeOK'
  BY <1>0, <1>2 DEF Export, TypeOK, hub, pods
<1>4. SoFar(w)' /\ imports' \subseteq imports \cup {w}
  BY <1>0, <1>2 DEF Export, SoFar, Early, pods
<1>5. Standing(w)'
  BY <1>0, <1>2 DEF IInv, MemoryIsServed, Export, Standing, Recovering, Fenced, BothUp, hub, pods
<1>6. /\ LateOf(w)'
      /\ \A v \in Job \ {w}, d \in {"prepare", "release"} :
           [do |-> d, job |-> v] \in late' => [do |-> d, job |-> v] \in late
  BY <1>0, <1>2 DEF Export, LateOf, Recovering, pods
<1>7. GatesAreFresh'
  BY DEF IInv, Export, GatesAreFresh, pods
<1>8. TurnIsServed'
  BY <1>1, TurnStays DEF IInv, MemoryIsServed, Export, hub, pods
<1>9. MemoryIsServed'
  BY MemoryStays DEF IInv, MemoryIsServed, Export, hub, pods
<1> QED
  BY <1>1, <1>2, <1>3, <1>4, <1>5, <1>6, <1>7, <1>8, <1>9, StepKeeps DEF Export, hub

LEMMA ImportKeeps == ASSUME IInv, NEW w \in Job, Import(w) PROVE IInv'
<1>0. SoFar(w) /\ Standing(w) /\ LateOf(w) /\ TypeOK
  BY DEF IInv
<1>1. Working(w) /\ ticket = [job |-> w, status |-> "running"]
  BY DEF IInv, Alone, Import, Working, Steps
<1>2. /\ pc' \in [Job -> Steps \cup {"idle", "done"}] /\ pc'[w] = "wait"
      /\ \A v \in Job \ {w} : pc'[v] = pc[v] /\ move'[v] = move[v]
      /\ move' = move
  BY GoesType DEF IInv, Import, Steps
<1>a. Records(move[w].rebuilt) = {}
  BY <1>0 DEF Import, SoFar, Early, Records
<1>3. TypeOK'
  BY <1>0, <1>2 DEF Import, TypeOK, hub, pods
<1>4. SoFar(w)' /\ imports' \subseteq imports \cup {w}
  BY <1>0, <1>2 DEF Import, SoFar, Early, pods
<1>5. Standing(w)'
  BY <1>0, <1>2, <1>a DEF Import, Standing, Recovering, Fenced, BothUp, hub
<1>6. /\ LateOf(w)'
      /\ \A v \in Job \ {w}, d \in {"prepare", "release"} :
           [do |-> d, job |-> v] \in late' => [do |-> d, job |-> v] \in late
  BY <1>0, <1>2 DEF Import, LateOf, Recovering, pods
<1>7. GatesAreFresh'
  BY DEF IInv, Import, GatesAreFresh, pods
<1>8. TurnIsServed'
  BY <1>1, TurnStays DEF IInv, MemoryIsServed, Import, hub, pods
<1>9. MemoryIsServed'
  BY MemoryStays DEF IInv, MemoryIsServed, Import, hub, pods
<1> QED
  BY <1>1, <1>2, <1>3, <1>4, <1>5, <1>6, <1>7, <1>8, <1>9, StepKeeps DEF Import, hub

LEMMA StepFailsKeeps == ASSUME IInv, NEW w \in Job, StepFails(w) PROVE IInv'
<1>0. SoFar(w) /\ Standing(w) /\ LateOf(w) /\ TypeOK
  BY DEF IInv
<1>1. Working(w) /\ ticket = [job |-> w, status |-> "running"]
  BY DEF IInv, Alone, StepFails, Working, Steps
<1>2. /\ pc' \in [Job -> Steps \cup {"idle", "done"}] /\ pc'[w] = "release"
      /\ \A v \in Job \ {w} : pc'[v] = pc[v] /\ move'[v] = move[v]
      /\ move' \in [Job -> Move]
      /\ move'[w].src = move[w].src /\ move'[w].dst = move[w].dst
      /\ move'[w].rebuilt = move[w].rebuilt /\ move'[w].head = move[w].head
      /\ move'[w].verdict = "failed" /\ move'[w].refused = FALSE
  BY RecoversType DEF IInv, StepFails, Steps
<1>a. /\ move[w].src \in Host /\ move[w].dst \in Host /\ move[w].dst # move[w].src
      /\ move[w].src = registry.host /\ gate[move[w].src].holder = w
      /\ {move[w].src} \subseteq up /\ up \subseteq {move[w].src, move[w].dst}
      /\ pc[w] = "build" => up = {move[w].src}
  BY <1>0 DEF TypeOK, Move, StepFails, Standing, Fenced, BothUp, SoFar
<1>b. gate[move[w].dst].holder = NoJob
  BY <1>0, <1>a DEF IInv, GatesAreFresh, StepFails, Standing, BothUp
<1>c. /\ up \subseteq up' /\ up' \subseteq {move[w].src, move[w].dst}
      /\ log'[registry.host] = log[registry.host]
      /\ up' \subseteq Host /\ log' \in [Host -> Seq(Record)]
  <2>1. CASE UNCHANGED <<up, log>>
    BY <1>0, <1>a, <2>1 DEF TypeOK
  <2>2. CASE pc[w] = "build" /\ Built(move[w].dst)
    BY <1>0, <1>a, <2>2, PodsType DEF Built, TypeOK
  <2> QED
    BY <2>1, <2>2 DEF StepFails
<1>3. TypeOK'
  BY <1>0, <1>2, <1>c DEF StepFails, TypeOK, hub
<1>4. SoFar(w)' /\ imports' \subseteq imports \cup {w}
  BY <1>0, <1>2 DEF StepFails, SoFar, Early, pods
<1>5. Standing(w)'
  BY <1>0, <1>2, <1>a, <1>b, <1>c DEF StepFails, Standing, Recovering, Recoverable, hub
<1>6. /\ LateOf(w)'
      /\ \A v \in Job \ {w}, d \in {"prepare", "release"} :
           [do |-> d, job |-> v] \in late' => [do |-> d, job |-> v] \in late
  BY <1>0, <1>2 DEF StepFails, LateOf, Recovering, pods
<1>7. GatesAreFresh'
  BY <1>c DEF IInv, StepFails, GatesAreFresh
<1>8. TurnIsServed'
  BY <1>1, <1>a, <1>c, TurnStays DEF StepFails, hub
<1>9. MemoryIsServed'
  BY <1>a, <1>c, MemoryStays DEF StepFails, hub
<1> QED
  BY <1>1, <1>2, <1>3, <1>4, <1>5, <1>6, <1>7, <1>8, <1>9, StepKeeps DEF StepFails, hub

LEMMA VerifyKeeps == ASSUME IInv, NEW w \in Job, Verify(w) PROVE IInv'
<1>0. SoFar(w) /\ Standing(w) /\ LateOf(w) /\ TypeOK
  BY DEF IInv
<1>1. Working(w) /\ ticket = [job |-> w, status |-> "running"]
  BY DEF IInv, Alone, Verify, Working, Steps
<1>2. /\ pc' \in [Job -> Steps \cup {"idle", "done"}]
      /\ pc'[w] = IF move[w].head = move[w].rebuilt THEN "switch" ELSE "release"
      /\ \A v \in Job \ {w} : pc'[v] = pc[v] /\ move'[v] = move[v]
      /\ move' \in [Job -> Move]
      /\ move'[w].src = move[w].src /\ move'[w].dst = move[w].dst
      /\ move'[w].rebuilt = move[w].rebuilt /\ move'[w].head = move[w].head
      /\ move'[w].verdict = "failed"
      /\ move'[w].refused = (move[w].head # move[w].rebuilt)
  <2>1. CASE move[w].head = move[w].rebuilt
    <3>1. Goes(w, "switch") /\ "switch" \in Steps /\ move' = move
      BY <2>1 DEF Verify, Steps
    <3>2. move[w].verdict = "failed" /\ ~move[w].refused /\ move[w].refused \in BOOLEAN
      BY <1>0 DEF SoFar, Verify, TypeOK, Move
    <3> QED
      BY <1>0, <2>1, <3>1, <3>2, GoesType DEF TypeOK
  <2>2. CASE move[w].head # move[w].rebuilt
    BY <1>0, <2>2, RecoversType DEF Verify
  <2> QED
    BY <2>1, <2>2
<1>3. TypeOK'
  BY <1>0, <1>2 DEF Verify, TypeOK, hub, pods
<1>4. SoFar(w)' /\ imports' \subseteq imports \cup {w}
  BY <1>0, <1>2 DEF Verify, SoFar, Early, pods
<1>5. Standing(w)'
  BY <1>0, <1>2 DEF Verify, Standing, Recovering, Recoverable, Fenced, BothUp, hub, pods
<1>6. /\ LateOf(w)'
      /\ \A v \in Job \ {w}, d \in {"prepare", "release"} :
           [do |-> d, job |-> v] \in late' => [do |-> d, job |-> v] \in late
  BY <1>0, <1>2 DEF Verify, LateOf, Recovering, pods
<1>7. GatesAreFresh'
  BY DEF IInv, Verify, GatesAreFresh, pods
<1>8. TurnIsServed'
  BY <1>1, TurnStays DEF IInv, MemoryIsServed, Verify, hub, pods
<1>9. MemoryIsServed'
  BY MemoryStays DEF IInv, MemoryIsServed, Verify, hub, pods
<1> QED
  BY <1>1, <1>2, <1>3, <1>4, <1>5, <1>6, <1>7, <1>8, <1>9, StepKeeps DEF Verify, hub

LEMMA SwitchKeeps == ASSUME IInv, NEW w \in Job, Switch(w) PROVE IInv'
<1>0. SoFar(w) /\ Standing(w) /\ LateOf(w) /\ TypeOK
  BY DEF IInv
<1>1. Working(w) /\ ticket = [job |-> w, status |-> "running"]
  BY DEF IInv, Alone, Switch, Working, Steps
<1>2. /\ pc' \in [Job -> Steps \cup {"idle", "done"}] /\ pc'[w] = "reap"
      /\ \A v \in Job \ {w} : pc'[v] = pc[v] /\ move'[v] = move[v]
      /\ move' = move
  BY GoesType DEF IInv, Switch, Steps
<1>a. /\ registry' = [status |-> "provisioned", host |-> move[w].dst]
      /\ move[w].dst \in Host /\ move[w].dst \in up /\ move[w].src # move[w].dst
      /\ move[w].src = registry.host /\ gate[move[w].src].holder = w /\ ~turn.admitted
      /\ acked \subseteq Records(log[move[w].dst])
  BY <1>0 DEF Switch, Routed, TypeOK, Move, SoFar, Standing, Fenced, BothUp
<1>b. turn # NoTurn => turn.host = move[w].src
  BY <1>0, <1>1, <1>a DEF IInv, TurnIsServed, ShutOut, Switch
<1>3. TypeOK'
  BY <1>0, <1>2, <1>a DEF Switch, TypeOK, RegistryStatus, pods
<1>4. SoFar(w)' /\ imports' \subseteq imports \cup {w}
  BY <1>0, <1>2 DEF Switch, SoFar, Early, pods
<1>5. Standing(w)'
  BY <1>0, <1>2, <1>a DEF Switch, Standing, Recovering, BothUp, pods
<1>6. /\ LateOf(w)'
      /\ \A v \in Job \ {w}, d \in {"prepare", "release"} :
           [do |-> d, job |-> v] \in late' => [do |-> d, job |-> v] \in late
  BY <1>0, <1>2 DEF Switch, LateOf, Recovering, pods
<1>7. GatesAreFresh'
  BY DEF IInv, Switch, GatesAreFresh, pods
<1>8. TurnIsServed'
  BY <1>0, <1>1, <1>2, <1>a, <1>b DEF IInv, Switch, TurnIsServed, ShutOut, LateOf, Recovering, pods
<1>9. MemoryIsServed'
  BY <1>a DEF Switch, MemoryIsServed, pods, Records
<1> QED
  BY <1>1, <1>2, <1>3, <1>4, <1>5, <1>6, <1>7, <1>8, <1>9, StepKeeps DEF Switch, hub

LEMMA SwitchUnansweredKeeps == ASSUME IInv, NEW w \in Job, SwitchUnanswered(w) PROVE IInv'
<1>0. SoFar(w) /\ Standing(w) /\ LateOf(w) /\ TypeOK
  BY DEF IInv
<1>1. Working(w) /\ ticket = [job |-> w, status |-> "running"]
  BY DEF IInv, Alone, SwitchUnanswered, Working, Steps
<1>2. /\ pc' \in [Job -> Steps \cup {"idle", "done"}] /\ pc'[w] = "finish"
      /\ \A v \in Job \ {w} : pc'[v] = pc[v] /\ move'[v] = move[v]
      /\ move' \in [Job -> Move]
      /\ move'[w].src = move[w].src /\ move'[w].dst = move[w].dst
      /\ move'[w].rebuilt = move[w].rebuilt /\ move'[w].head = move[w].head
      /\ move'[w].verdict = "switch_unknown" /\ move'[w].refused = move[w].refused
  BY EndsType DEF IInv, SwitchUnanswered, Verdict
<1>a. /\ move[w].dst \in Host /\ {move[w].src, move[w].dst} \subseteq up
      /\ registry' = registry \/ registry' = [status |-> "provisioned", host |-> move[w].dst]
      /\ move[w].src # move[w].dst /\ ~move[w].refused
      /\ move[w].src = registry.host /\ gate[move[w].src].holder = w /\ ~turn.admitted
      /\ acked \subseteq Records(log[move[w].dst])
      /\ [do |-> "release", job |-> w] \notin late
  BY <1>0 DEF SwitchUnanswered, Routed, TypeOK, Move, SoFar, Standing, Fenced, BothUp, LateOf, Recovering
<1>b. turn # NoTurn => turn.host = move[w].src
  BY <1>0, <1>1, <1>a DEF IInv, TurnIsServed, ShutOut, SwitchUnanswered
<1>3. TypeOK'
  BY <1>0, <1>2, <1>a DEF SwitchUnanswered, TypeOK, RegistryStatus, pods
<1>4. SoFar(w)' /\ imports' \subseteq imports \cup {w}
  BY <1>0, <1>2 DEF SwitchUnanswered, SoFar, Early, pods
<1>5. Standing(w)'
  BY <1>0, <1>2, <1>a DEF SwitchUnanswered, Standing, Recovering, Kept, pods
<1>6. /\ LateOf(w)'
      /\ \A v \in Job \ {w}, d \in {"prepare", "release"} :
           [do |-> d, job |-> v] \in late' => [do |-> d, job |-> v] \in late
  BY <1>0, <1>2 DEF SwitchUnanswered, LateOf, Recovering, pods
<1>7. GatesAreFresh'
  BY DEF IInv, SwitchUnanswered, GatesAreFresh, pods
<1>8. TurnIsServed'
  BY <1>0, <1>1, <1>2, <1>a, <1>b DEF IInv, SwitchUnanswered, TurnIsServed, ShutOut, pods
<1>9. MemoryIsServed'
  BY <1>a DEF IInv, SwitchUnanswered, MemoryIsServed, pods, Records
<1> QED
  BY <1>1, <1>2, <1>3, <1>4, <1>5, <1>6, <1>7, <1>8, <1>9, StepKeeps DEF SwitchUnanswered, hub

LEMMA ReapKeeps == ASSUME IInv, NEW w \in Job, Reap(w) PROVE IInv'
<1>0. SoFar(w) /\ Standing(w) /\ LateOf(w) /\ TypeOK
  BY DEF IInv
<1>1. Working(w) /\ ticket = [job |-> w, status |-> "running"]
  BY DEF IInv, Alone, Reap, Working, Steps
<1>2. /\ pc' \in [Job -> Steps \cup {"idle", "done"}] /\ pc'[w] = "finish"
      /\ \A v \in Job \ {w} : pc'[v] = pc[v] /\ move'[v] = move[v]
      /\ move' \in [Job -> Move]
      /\ move'[w].src = move[w].src /\ move'[w].dst = move[w].dst
      /\ move'[w].rebuilt = move[w].rebuilt /\ move'[w].head = move[w].head
      /\ move'[w].verdict = "succeeded" /\ move'[w].refused = move[w].refused
  BY EndsType DEF IInv, Reap, Verdict
<1>a. /\ up = {move[w].src, move[w].dst} /\ gate[move[w].dst].holder = NoJob
      /\ move[w].dst = registry.host /\ gate[move[w].src].holder = w
      /\ registry.status # "migrating" /\ move[w].src # move[w].dst
      /\ move[w].src \in Host /\ move[w].dst \in Host /\ ~move[w].refused
      /\ [do |-> "release", job |-> w] \notin late
  BY <1>0 DEF Reap, Standing, BothUp, SoFar, TypeOK, Move, LateOf, Recovering
<1>b. turn # NoTurn /\ turn.host # registry.host => turn.host = move[w].src
  BY <1>1 DEF IInv, TurnIsServed, ShutOut
<1>c. ASSUME TakeDown(move[w].src)
      PROVE  /\ up' = {move[w].dst} /\ gate'[move[w].src] = OpenGate
             /\ \A h \in Host \ {move[w].src} : gate'[h] = gate[h]
             /\ imports' \subseteq imports /\ late' \subseteq late
             /\ turn' = NoTurn \/ (turn' = turn /\ turn.host # move[w].src)
             /\ log' = log /\ acked' = acked
  BY <1>0, <1>a, <1>c DEF TakeDown, TypeOK
<1>3. TypeOK'
  BY <1>0, <1>2, <1>a, PodsType DEF Reap, TypeOK, hub, pods
<1>4. SoFar(w)' /\ imports' \subseteq imports \cup {w}
  BY <1>0, <1>2, <1>c DEF Reap, SoFar, Early, pods
<1>5. Standing(w)'
  BY <1>2, <1>a, <1>c DEF Reap, Standing, Recovering, Quiet, Serving, hub
<1>6. /\ LateOf(w)'
      /\ \A v \in Job \ {w}, d \in {"prepare", "release"} :
           [do |-> d, job |-> v] \in late' => [do |-> d, job |-> v] \in late
  BY <1>0, <1>2, <1>c DEF Reap, LateOf, Recovering, pods
<1>7. GatesAreFresh'
  BY <1>a, <1>c DEF IInv, Reap, GatesAreFresh, OpenGate, pods
<1>8. TurnIsServed'
  BY <1>1, <1>2, <1>a, <1>b, <1>c DEF IInv, Reap, TurnIsServed, ShutOut, NoTurn, hub, pods
<1>9. MemoryIsServed'
  BY <1>a, <1>c DEF IInv, Reap, MemoryIsServed, Records, hub, pods
<1> QED
  BY <1>1, <1>2, <1>3, <1>4, <1>5, <1>6, <1>7, <1>8, <1>9, StepKeeps DEF Reap, hub

LEMMA ReapUnconfirmedKeeps == ASSUME IInv, NEW w \in Job, ReapUnconfirmed(w) PROVE IInv'
<1>0. SoFar(w) /\ Standing(w) /\ LateOf(w) /\ TypeOK
  BY DEF IInv
<1>1. Working(w) /\ ticket = [job |-> w, status |-> "running"]
  BY DEF IInv, Alone, ReapUnconfirmed, Working, Steps
<1>2. /\ pc' \in [Job -> Steps \cup {"idle", "done"}] /\ pc'[w] = "finish"
      /\ \A v \in Job \ {w} : pc'[v] = pc[v] /\ move'[v] = move[v]
      /\ move' \in [Job -> Move]
      /\ move'[w].src = move[w].src /\ move'[w].dst = move[w].dst
      /\ move'[w].rebuilt = move[w].rebuilt /\ move'[w].head = move[w].head
      /\ move'[w].verdict = "cleanup_pending" /\ move'[w].refused = move[w].refused
  BY EndsType DEF IInv, ReapUnconfirmed, Verdict
<1>a. /\ up = {move[w].src, move[w].dst} /\ gate[move[w].dst].holder = NoJob
      /\ move[w].dst = registry.host /\ gate[move[w].src].holder = w
      /\ registry.status # "migrating" /\ move[w].src # move[w].dst
      /\ move[w].src \in Host /\ move[w].dst \in Host /\ ~move[w].refused
      /\ [do |-> "release", job |-> w] \notin late
  BY <1>0 DEF ReapUnconfirmed, Standing, BothUp, SoFar, TypeOK, Move, LateOf, Recovering
<1>b. turn # NoTurn /\ turn.host # registry.host => turn.host = move[w].src
  BY <1>1 DEF IInv, TurnIsServed, ShutOut
<1>c. ASSUME TakeDown(move[w].src)
      PROVE  /\ up' = {move[w].dst} /\ gate'[move[w].src] = OpenGate
             /\ \A h \in Host \ {move[w].src} : gate'[h] = gate[h]
             /\ imports' \subseteq imports /\ late' \subseteq late
             /\ turn' = NoTurn \/ (turn' = turn /\ turn.host # move[w].src)
             /\ log' = log /\ acked' = acked
  BY <1>0, <1>a, <1>c DEF TakeDown, TypeOK
<1>3. TypeOK'
  BY <1>0, <1>2, <1>a, PodsType DEF ReapUnconfirmed, TypeOK, hub, pods
<1>4. SoFar(w)' /\ imports' \subseteq imports \cup {w}
  BY <1>0, <1>2, <1>c DEF ReapUnconfirmed, SoFar, Early, pods
<1>5. Standing(w)'
  BY <1>2, <1>a, <1>c DEF ReapUnconfirmed, Standing, Recovering, Quiet, Serving, hub
<1>6. /\ LateOf(w)'
      /\ \A v \in Job \ {w}, d \in {"prepare", "release"} :
           [do |-> d, job |-> v] \in late' => [do |-> d, job |-> v] \in late
  BY <1>0, <1>2, <1>c DEF ReapUnconfirmed, LateOf, Recovering, pods
<1>7. GatesAreFresh'
  BY <1>a, <1>c DEF IInv, ReapUnconfirmed, GatesAreFresh, OpenGate, pods
<1>8. TurnIsServed'
  BY <1>1, <1>2, <1>a, <1>b, <1>c DEF IInv, ReapUnconfirmed, TurnIsServed, ShutOut, NoTurn, hub, pods
<1>9. MemoryIsServed'
  BY <1>a, <1>c DEF IInv, ReapUnconfirmed, MemoryIsServed, Records, hub, pods
<1> QED
  BY <1>1, <1>2, <1>3, <1>4, <1>5, <1>6, <1>7, <1>8, <1>9, StepKeeps DEF ReapUnconfirmed, hub

LEMMA ReleaseKeeps == ASSUME IInv, NEW w \in Job, Release(w) PROVE IInv'
<1>0. SoFar(w) /\ Standing(w) /\ LateOf(w) /\ TypeOK
  BY DEF IInv
<1>1. Working(w) /\ ticket = [job |-> w, status |-> "running"]
  BY DEF IInv, Alone, Release, Working, Steps
<1>2. /\ pc' \in [Job -> Steps \cup {"idle", "done"}] /\ pc'[w] = "unfreeze"
      /\ \A v \in Job \ {w} : pc'[v] = pc[v] /\ move'[v] = move[v]
      /\ move' = move
  BY GoesType DEF IInv, Release, Steps
<1>a. /\ move[w].src \in Host /\ move[w].dst \in Host /\ move[w].src # move[w].dst
      /\ Recoverable(w)
  BY <1>0 DEF Release, Standing, SoFar, TypeOK, Move, Recovering
<1>b. gate'[move[w].src].holder = NoJob /\ \A h \in Host \ {move[w].src} : gate'[h] = gate[h]
  BY <1>0, <1>a DEF Release, Released, TypeOK
<1>3. TypeOK'
  BY <1>0, <1>2, <1>a, PodsType DEF Release, TypeOK, hub
<1>4. SoFar(w)' /\ imports' \subseteq imports \cup {w}
  BY <1>0, <1>2 DEF Release, SoFar, Early, pods
<1>5. Standing(w)'
  BY <1>2, <1>a, <1>b DEF Release, Standing, Recovering, Recoverable, hub
<1>6. /\ LateOf(w)'
      /\ \A v \in Job \ {w}, d \in {"prepare", "release"} :
           [do |-> d, job |-> v] \in late' => [do |-> d, job |-> v] \in late
  BY <1>0, <1>2 DEF Release, LateOf, Recovering, pods
<1>7. GatesAreFresh'
  BY <1>a, <1>b DEF IInv, Release, GatesAreFresh
<1>8. TurnIsServed'
  BY <1>1, <1>a, TurnStays DEF Recoverable, Release, hub
<1>9. MemoryIsServed'
  BY <1>a, MemoryStays DEF Recoverable, Release, hub
<1> QED
  BY <1>1, <1>2, <1>3, <1>4, <1>5, <1>6, <1>7, <1>8, <1>9, StepKeeps DEF Release, hub

LEMMA ReleaseUnconfirmedKeeps == ASSUME IInv, NEW w \in Job, ReleaseUnconfirmed(w) PROVE IInv'
<1>0. SoFar(w) /\ Standing(w) /\ LateOf(w) /\ TypeOK
  BY DEF IInv
<1>1. Working(w) /\ ticket = [job |-> w, status |-> "running"]
  BY DEF IInv, Alone, ReleaseUnconfirmed, Working, Steps
<1>2. /\ pc' \in [Job -> Steps \cup {"idle", "done"}] /\ pc'[w] = "teardown"
      /\ \A v \in Job \ {w} : pc'[v] = pc[v] /\ move'[v] = move[v]
      /\ move' \in [Job -> Move]
      /\ move'[w].src = move[w].src /\ move'[w].dst = move[w].dst
      /\ move'[w].rebuilt = move[w].rebuilt /\ move'[w].head = move[w].head
      /\ move'[w].verdict = "recovery_pending" /\ move'[w].refused = move[w].refused
  BY OwesType DEF IInv, ReleaseUnconfirmed, Steps
<1>a. /\ move[w].src \in Host /\ move[w].dst \in Host /\ move[w].src # move[w].dst
      /\ Recoverable(w)
  BY <1>0 DEF ReleaseUnconfirmed, Standing, SoFar, TypeOK, Move, Recovering
<1>3. TypeOK'
  BY <1>0, <1>2 DEF ReleaseUnconfirmed, TypeOK, hub, pods
<1>4. SoFar(w)' /\ imports' \subseteq imports \cup {w}
  BY <1>0, <1>2 DEF ReleaseUnconfirmed, SoFar, Early, pods
<1>5. Standing(w)'
  BY <1>2, <1>a DEF ReleaseUnconfirmed, Standing, Recovering, Recoverable, hub
<1>6. /\ LateOf(w)'
      /\ \A v \in Job \ {w}, d \in {"prepare", "release"} :
           [do |-> d, job |-> v] \in late' => [do |-> d, job |-> v] \in late
  BY <1>0, <1>2 DEF ReleaseUnconfirmed, LateOf, Recovering, pods
<1>7. GatesAreFresh'
  BY DEF IInv, ReleaseUnconfirmed, GatesAreFresh, pods
<1>8. TurnIsServed'
  BY <1>1, TurnStays DEF IInv, MemoryIsServed, ReleaseUnconfirmed, hub, pods
<1>9. MemoryIsServed'
  BY MemoryStays DEF IInv, MemoryIsServed, ReleaseUnconfirmed, hub, pods
<1> QED
  BY <1>1, <1>2, <1>3, <1>4, <1>5, <1>6, <1>7, <1>8, <1>9, StepKeeps DEF ReleaseUnconfirmed, hub

LEMMA UnfreezeKeeps == ASSUME IInv, NEW w \in Job, Unfreeze(w) PROVE IInv'
<1>0. SoFar(w) /\ Standing(w) /\ LateOf(w) /\ TypeOK
  BY DEF IInv
<1>1. Working(w) /\ ticket = [job |-> w, status |-> "running"]
  BY DEF IInv, Alone, Unfreeze, Working, Steps
<1>2. /\ pc' \in [Job -> Steps \cup {"idle", "done"}] /\ pc'[w] = "teardown"
      /\ \A v \in Job \ {w} : pc'[v] = pc[v] /\ move'[v] = move[v]
      /\ move' = move
  BY GoesType DEF IInv, Unfreeze, Steps
<1>a. /\ move[w].src \in Host /\ move[w].dst \in Host /\ move[w].src # move[w].dst
      /\ Recoverable(w)
  BY <1>0 DEF Unfreeze, Standing, SoFar, TypeOK, Move, Recovering
<1>3. TypeOK'
  BY <1>0, <1>2 DEF Unfreeze, Provisioned, TypeOK, RegistryStatus, pods
<1>4. SoFar(w)' /\ imports' \subseteq imports \cup {w}
  BY <1>0, <1>2 DEF Unfreeze, SoFar, Early, pods
<1>5. Standing(w)'
  BY <1>0, <1>2, <1>a DEF Unfreeze, Provisioned, Standing, Recovering, Recoverable, TypeOK, pods
<1>6. /\ LateOf(w)'
      /\ \A v \in Job \ {w}, d \in {"prepare", "release"} :
           [do |-> d, job |-> v] \in late' => [do |-> d, job |-> v] \in late
  BY <1>0, <1>2 DEF Unfreeze, LateOf, Recovering, pods
<1>7. GatesAreFresh'
  BY DEF IInv, Unfreeze, GatesAreFresh, pods
<1>8. TurnIsServed'
  BY <1>1, <1>a, <1>0, TurnStays DEF Recoverable, Unfreeze, Provisioned, TypeOK, pods
<1>9. MemoryIsServed'
  BY <1>a, <1>0, MemoryStays DEF Recoverable, Unfreeze, Provisioned, TypeOK, pods
<1> QED
  BY <1>1, <1>2, <1>3, <1>4, <1>5, <1>6, <1>7, <1>8, <1>9, StepKeeps DEF Unfreeze, hub

LEMMA UnfreezeUnconfirmedKeeps == ASSUME IInv, NEW w \in Job, UnfreezeUnconfirmed(w) PROVE IInv'
<1>0. SoFar(w) /\ Standing(w) /\ LateOf(w) /\ TypeOK
  BY DEF IInv
<1>1. Working(w) /\ ticket = [job |-> w, status |-> "running"]
  BY DEF IInv, Alone, UnfreezeUnconfirmed, Working, Steps
<1>2. /\ pc' \in [Job -> Steps \cup {"idle", "done"}] /\ pc'[w] = "teardown"
      /\ \A v \in Job \ {w} : pc'[v] = pc[v] /\ move'[v] = move[v]
      /\ move' \in [Job -> Move]
      /\ move'[w].src = move[w].src /\ move'[w].dst = move[w].dst
      /\ move'[w].rebuilt = move[w].rebuilt /\ move'[w].head = move[w].head
      /\ move'[w].verdict = "recovery_pending" /\ move'[w].refused = move[w].refused
  BY OwesType DEF IInv, UnfreezeUnconfirmed, Steps
<1>a. /\ move[w].src \in Host /\ move[w].dst \in Host /\ move[w].src # move[w].dst
      /\ Recoverable(w)
  BY <1>0 DEF UnfreezeUnconfirmed, Standing, SoFar, TypeOK, Move, Recovering
<1>3. TypeOK'
  BY <1>0, <1>2 DEF UnfreezeUnconfirmed, Provisioned, TypeOK, RegistryStatus, pods
<1>4. SoFar(w)' /\ imports' \subseteq imports \cup {w}
  BY <1>0, <1>2 DEF UnfreezeUnconfirmed, SoFar, Early, pods
<1>5. Standing(w)'
  BY <1>0, <1>2, <1>a DEF UnfreezeUnconfirmed, Provisioned, Standing, Recovering, Recoverable, TypeOK, pods
<1>6. /\ LateOf(w)'
      /\ \A v \in Job \ {w}, d \in {"prepare", "release"} :
           [do |-> d, job |-> v] \in late' => [do |-> d, job |-> v] \in late
  BY <1>0, <1>2 DEF UnfreezeUnconfirmed, LateOf, Recovering, pods
<1>7. GatesAreFresh'
  BY DEF IInv, UnfreezeUnconfirmed, GatesAreFresh, pods
<1>8. TurnIsServed'
  BY <1>1, <1>a, <1>0, TurnStays DEF Recoverable, UnfreezeUnconfirmed, Provisioned, TypeOK, pods
<1>9. MemoryIsServed'
  BY <1>a, <1>0, MemoryStays DEF Recoverable, UnfreezeUnconfirmed, Provisioned, TypeOK, pods
<1> QED
  BY <1>1, <1>2, <1>3, <1>4, <1>5, <1>6, <1>7, <1>8, <1>9, StepKeeps DEF UnfreezeUnconfirmed, hub

LEMMA TeardownKeeps == ASSUME IInv, NEW w \in Job, Teardown(w) PROVE IInv'
<1>0. SoFar(w) /\ Standing(w) /\ LateOf(w) /\ TypeOK
  BY DEF IInv
<1>1. Working(w) /\ ticket = [job |-> w, status |-> "running"]
  BY DEF IInv, Alone, Teardown, Working, Steps
<1>2. /\ pc' \in [Job -> Steps \cup {"idle", "done"}] /\ pc'[w] = "finish"
      /\ \A v \in Job \ {w} : pc'[v] = pc[v] /\ move'[v] = move[v]
      /\ move' = move
  BY GoesType DEF IInv, Teardown, Steps
<1>a. /\ move[w].src \in Host /\ move[w].dst \in Host /\ move[w].src # move[w].dst
      /\ Recoverable(w)
  BY <1>0 DEF Teardown, Standing, SoFar, TypeOK, Move, Recovering
<1>c. ASSUME TakeDown(move[w].dst)
      PROVE  /\ up' = {move[w].src} /\ gate'[move[w].dst] = OpenGate
             /\ \A h \in Host \ {move[w].dst} : gate'[h] = gate[h]
             /\ imports' \subseteq imports /\ late' \subseteq late
             /\ turn' \in {turn, NoTurn}
             /\ log' = log /\ acked' = acked
  BY <1>0, <1>a, <1>c DEF TakeDown, TypeOK, Recoverable
<1>3. TypeOK'
  BY <1>0, <1>2, <1>a, PodsType DEF Teardown, TypeOK, hub, pods
<1>4. SoFar(w)' /\ imports' \subseteq imports \cup {w}
  BY <1>0, <1>2, <1>c DEF Teardown, SoFar, Early, pods
<1>5. Standing(w)'
  BY <1>0, <1>2, <1>a, <1>c DEF Teardown, Standing, Recovering, Recoverable, Quiet, Serving, OpenGate, hub, pods
<1>6. /\ LateOf(w)'
      /\ \A v \in Job \ {w}, d \in {"prepare", "release"} :
           [do |-> d, job |-> v] \in late' => [do |-> d, job |-> v] \in late
  BY <1>0, <1>2, <1>a, <1>c DEF Teardown, LateOf, Recovering, Recoverable, pods
<1>7. GatesAreFresh'
  BY <1>a, <1>c DEF IInv, Teardown, Recoverable, GatesAreFresh, OpenGate, pods
<1>8. TurnIsServed'
  BY <1>1, <1>a, <1>c, TurnStays DEF Recoverable, Teardown, hub, pods
<1>9. MemoryIsServed'
  BY <1>a, <1>c, MemoryStays DEF Recoverable, Teardown, hub, pods
<1> QED
  BY <1>1, <1>2, <1>3, <1>4, <1>5, <1>6, <1>7, <1>8, <1>9, StepKeeps DEF Teardown, hub

LEMMA TeardownUnconfirmedKeeps == ASSUME IInv, NEW w \in Job, TeardownUnconfirmed(w) PROVE IInv'
<1>0. SoFar(w) /\ Standing(w) /\ LateOf(w) /\ TypeOK
  BY DEF IInv
<1>1. Working(w) /\ ticket = [job |-> w, status |-> "running"]
  BY DEF IInv, Alone, TeardownUnconfirmed, Working, Steps
<1>2. /\ pc' \in [Job -> Steps \cup {"idle", "done"}] /\ pc'[w] = "finish"
      /\ \A v \in Job \ {w} : pc'[v] = pc[v] /\ move'[v] = move[v]
      /\ move' \in [Job -> Move]
      /\ move'[w].src = move[w].src /\ move'[w].dst = move[w].dst
      /\ move'[w].rebuilt = move[w].rebuilt /\ move'[w].head = move[w].head
      /\ move'[w].verdict = "recovery_pending" /\ move'[w].refused = move[w].refused
  BY OwesType DEF IInv, TeardownUnconfirmed, Steps
<1>a. /\ move[w].src \in Host /\ move[w].dst \in Host /\ move[w].src # move[w].dst
      /\ Recoverable(w)
  BY <1>0 DEF TeardownUnconfirmed, Standing, SoFar, TypeOK, Move, Recovering
<1>c. ASSUME TakeDown(move[w].dst)
      PROVE  /\ up' = {move[w].src} /\ gate'[move[w].dst] = OpenGate
             /\ \A h \in Host \ {move[w].dst} : gate'[h] = gate[h]
             /\ imports' \subseteq imports /\ late' \subseteq late
             /\ turn' \in {turn, NoTurn}
             /\ log' = log /\ acked' = acked
  BY <1>0, <1>a, <1>c DEF TakeDown, TypeOK, Recoverable
<1>3. TypeOK'
  BY <1>0, <1>2, <1>a, PodsType DEF TeardownUnconfirmed, TypeOK, hub, pods
<1>4. SoFar(w)' /\ imports' \subseteq imports \cup {w}
  BY <1>0, <1>2, <1>c DEF TeardownUnconfirmed, SoFar, Early, pods
<1>5. Standing(w)'
  BY <1>0, <1>2, <1>a, <1>c DEF TeardownUnconfirmed, Standing, Recovering, Recoverable, Quiet, Serving, OpenGate, hub, pods
<1>6. /\ LateOf(w)'
      /\ \A v \in Job \ {w}, d \in {"prepare", "release"} :
           [do |-> d, job |-> v] \in late' => [do |-> d, job |-> v] \in late
  BY <1>0, <1>2, <1>a, <1>c DEF TeardownUnconfirmed, LateOf, Recovering, Recoverable, pods
<1>7. GatesAreFresh'
  BY <1>a, <1>c DEF IInv, TeardownUnconfirmed, Recoverable, GatesAreFresh, OpenGate, pods
<1>8. TurnIsServed'
  BY <1>1, <1>a, <1>c, TurnStays DEF Recoverable, TeardownUnconfirmed, hub, pods
<1>9. MemoryIsServed'
  BY <1>a, <1>c, MemoryStays DEF Recoverable, TeardownUnconfirmed, hub, pods
<1> QED
  BY <1>1, <1>2, <1>3, <1>4, <1>5, <1>6, <1>7, <1>8, <1>9, StepKeeps DEF TeardownUnconfirmed, hub

\* A worker that has not taken the ticket yet disturbs nothing.
LEMMA BystanderKeeps ==
  ASSUME IInv, NEW w \in Job, pc[w] \in {"idle", "read", "claim"}, UNCHANGED <<hub, pods>>,
         TypeOK', \A v \in Job \ {w} : pc'[v] = pc[v] /\ move'[v] = move[v],
         pc'[w] \in {"read", "claim", "done"}, SoFar(w)'
  PROVE  IInv'
<1>1. ~Working(w)' /\ Standing(w)'
  <2>1. pc'[w] \in {"idle", "read", "claim", "done"}
    OBVIOUS
  <2>2. ~Working(w)'
    BY DEF Working, Steps
  <2> QED
    BY <2>1, <2>2, AtRest
<1>2. \A d \in {"prepare", "release"} : [do |-> d, job |-> w] \notin late'
  BY DEF IInv, LateOf, Recovering, pods
<1>3. LateOf(w)'
  BY <1>2 DEF LateOf
<1>4. ASSUME NEW v \in Job \ {w}
      PROVE  (Working(v)' => Working(v)) /\ SoFar(v)' /\ Standing(v)' /\ LateOf(v)'
  <2>1. pc'[v] = pc[v] /\ move'[v] = move[v] /\ SoFar(v) /\ Standing(v) /\ LateOf(v)
    BY DEF IInv
  <2>2. SoFar(v)' /\ LateOf(v)' /\ (Working(v)' => Working(v))
    BY <2>1 DEF SoFar, LateOf, Working, hub, pods
  <2>3. Standing(v)'
    BY <2>1 DEF Standing, Quiet, Serving, Fenced, BothUp, Recoverable, Kept, hub, pods
  <2> QED
    BY <2>2, <2>3
<1>5. Alone'
  BY <1>1, <1>4 DEF IInv, Alone, hub
<1>6. TicketIsTrue'
  <2>1. ticket.status = "switch_unknown" => ticket.job \in Job \ {w}
    BY DEF IInv, TicketIsTrue
  <2> QED
    BY <2>1 DEF IInv, TicketIsTrue, Quiet, Serving, Kept, hub, pods
<1>7. TurnIsServed'
  <2>1. ShutOut => ticket.job \in Job \ {w}
    BY DEF ShutOut
  <2> QED
    BY <2>1 DEF IInv, TurnIsServed, ShutOut, hub, pods
<1>8. GatesAreFresh' /\ MemoryIsServed'
  BY DEF IInv, GatesAreFresh, MemoryIsServed, Records, hub, pods
<1> QED
  BY <1>1, <1>3, <1>4, <1>5, <1>6, <1>7, <1>8 DEF IInv

LEMMA AskKeeps == ASSUME IInv, NEW w \in Job, Ask(w) PROVE IInv'
<1>1. PICK h \in Host \ {registry.host} :
        move' = [move EXCEPT ![w].src = registry.host, ![w].dst = h]
  BY DEF Ask
<1>2. /\ pc' \in [Job -> Steps \cup {"idle", "done"}] /\ pc'[w] = "read"
      /\ \A v \in Job \ {w} : pc'[v] = pc[v]
  BY GoesType DEF IInv, Ask, Steps
<1>3. /\ move' \in [Job -> Move] /\ move'[w].src # move'[w].dst
      /\ move'[w].rebuilt = move[w].rebuilt /\ move'[w].verdict = move[w].verdict
      /\ move'[w].refused = move[w].refused
      /\ \A v \in Job \ {w} : move'[v] = move[v]
  <2>1. registry.host \in Host /\ move \in [Job -> Move]
    BY DEF IInv, TypeOK
  <2>2. /\ move' \in [Job -> Move] /\ move'[w].src = registry.host /\ move'[w].dst = h
        /\ move'[w].rebuilt = move[w].rebuilt /\ move'[w].verdict = move[w].verdict
        /\ move'[w].refused = move[w].refused
        /\ \A v \in Job \ {w} : move'[v] = move[v]
    <3>1. PICK g \in Host : g = registry.host
      BY <2>1
    <3>2. h \in Host /\ move' = [move EXCEPT ![w].src = g, ![w].dst = h]
      BY <1>1, <3>1
    <3>3. /\ move' \in [Job -> Move] /\ move'[w].src = g /\ move'[w].dst = h
          /\ move'[w].rebuilt = move[w].rebuilt /\ move'[w].verdict = move[w].verdict
          /\ move'[w].refused = move[w].refused
          /\ \A v \in Job \ {w} : move'[v] = move[v]
      BY <2>1, <3>2 DEF Move
    <3> QED
      BY <3>1, <3>3
  <2> QED
    BY <2>2
<1>4. TypeOK'
  BY <1>2, <1>3 DEF IInv, Ask, TypeOK, hub, pods
<1>5. SoFar(w)'
  BY <1>2, <1>3 DEF IInv, Ask, SoFar, Early, pods
<1> QED
  BY <1>2, <1>3, <1>4, <1>5, BystanderKeeps DEF Ask

LEMMA ReadTicketKeeps == ASSUME IInv, NEW w \in Job, ReadTicket(w) PROVE IInv'
<1>1. /\ pc' \in [Job -> Steps \cup {"idle", "done"}]
      /\ pc'[w] = IF ticket.status \in Startable THEN "claim" ELSE "done"
      /\ \A v \in Job \ {w} : pc'[v] = pc[v]
  <2>1. {"claim", "done"} \subseteq Steps \cup {"idle", "done"}
    BY DEF Steps
  <2> QED
    BY <2>1, GoesType DEF IInv, ReadTicket
<1>2. /\ move' \in [Job -> Move]
      /\ ticket.status \in Startable => move'[w].read = ticket
      /\ move'[w].src = move[w].src /\ move'[w].dst = move[w].dst
      /\ move'[w].rebuilt = move[w].rebuilt /\ move'[w].verdict = move[w].verdict
      /\ move'[w].refused = move[w].refused
      /\ \A v \in Job \ {w} : move'[v] = move[v]
  <2>1. ticket \in Ticket /\ move \in [Job -> Move]
    BY DEF IInv, TypeOK
  <2> QED
    BY <2>1, ReadUpdate DEF ReadTicket
<1>3. TypeOK'
  BY <1>1, <1>2 DEF IInv, ReadTicket, TypeOK, hub, pods
<1>4. SoFar(w)'
  BY <1>1, <1>2 DEF IInv, ReadTicket, SoFar, Early, hub, pods
<1> QED
  BY <1>1, <1>2, <1>3, <1>4, BystanderKeeps DEF ReadTicket

LEMMA ClaimKeeps == ASSUME IInv, NEW w \in Job, Claim(w) PROVE IInv'
<1>1. CASE ticket # move[w].read
  <2>1. /\ pc' \in [Job -> Steps \cup {"idle", "done"}] /\ pc'[w] = "done"
        /\ \A v \in Job \ {w} : pc'[v] = pc[v]
    BY <1>1, GoesType DEF IInv, Claim
  <2>2. UNCHANGED <<hub, pods, move>>
    BY <1>1 DEF Claim, hub
  <2>3. TypeOK' /\ SoFar(w)'
    BY <2>1, <2>2 DEF IInv, Claim, TypeOK, SoFar, Early, hub, pods
  <2> QED
    BY <2>1, <2>2, <2>3, BystanderKeeps DEF Claim
<1>2. CASE ticket = move[w].read
  <2>1. /\ pc' \in [Job -> Steps \cup {"idle", "done"}] /\ pc'[w] = "freeze"
        /\ \A v \in Job \ {w} : pc'[v] = pc[v]
    BY <1>2, GoesType DEF IInv, Claim, Steps
  <2>2. /\ ticket' = [job |-> w, status |-> "running"]
        /\ UNCHANGED <<registry, rotation, pods, move>>
    BY <1>2 DEF Claim
  <2>3. ticket.status \in Startable /\ Quiet
    BY <1>2 DEF IInv, Claim, SoFar, TicketIsTrue
  <2>4. ASSUME NEW v \in Job
        PROVE  ~Working(v) /\ [do |-> "prepare", job |-> v] \notin late
    <3>1. ticket.status \notin {"running", "freeze_unknown"}
      BY <2>3 DEF Startable
    <3>2. ~Working(v)
      BY <3>1 DEF IInv, Alone
    <3>3. [do |-> "prepare", job |-> v] \notin late
      BY <3>1 DEF IInv, LateOf
    <3> QED
      BY <3>2, <3>3
  <2>5. TypeOK'
    <3>1. ticket' \in Ticket
      BY <2>2 DEF Ticket
    <3> QED
      BY <2>1, <2>2, <3>1 DEF IInv, TypeOK, pods
  <2>6. ASSUME NEW v \in Job \ {w}
        PROVE  ~Working(v)' /\ SoFar(v)' /\ Standing(v)' /\ LateOf(v)'
    <3>1. ~Working(v)' /\ Standing(v)'
      BY <2>1, <2>4, NotWorking, AtRest DEF IInv, Working
    <3>2. SoFar(v)'
      BY <2>1, <2>2 DEF IInv, SoFar, pods
    <3>3. LateOf(v)'
      BY <2>1, <2>2, <2>4 DEF IInv, LateOf, pods
    <3> QED
      BY <3>1, <3>2, <3>3
  <2>7. SoFar(w)' /\ LateOf(w)'
    BY <2>1, <2>2, <2>4 DEF IInv, Claim, SoFar, Early, LateOf, Recovering, pods
  <2>8. Standing(w)'
    BY <2>1, <2>2, <2>3 DEF Standing, Recovering, Quiet, Serving, pods
  <2>9. Alone' /\ TicketIsTrue'
    BY <2>2, <2>6 DEF Alone, TicketIsTrue, Startable
  <2>10. TurnIsServed'
    <3>1. ~ShutOut
      BY <2>3 DEF ShutOut, Startable
    <3> QED
      BY <2>2, <3>1 DEF IInv, TurnIsServed, pods
  <2>11. GatesAreFresh' /\ MemoryIsServed'
    BY <2>2 DEF IInv, GatesAreFresh, MemoryIsServed, Records, pods
  <2> QED
    BY <2>5, <2>6, <2>7, <2>8, <2>9, <2>10, <2>11 DEF IInv
<1> QED
  BY <1>1, <1>2

\* A worker that is gone leaves everything where it was.
LEMMA GoneKeeps ==
  ASSUME IInv, NEW w \in Job, Working(w), UNCHANGED <<hub, pods, move>>, Goes(w, "done")
  PROVE  IInv'
<1>1. SoFar(w) /\ LateOf(w) /\ TypeOK /\ ticket = [job |-> w, status |-> "running"]
  BY DEF IInv, Alone
<1>2. /\ pc' \in [Job -> Steps \cup {"idle", "done"}] /\ pc'[w] = "done"
      /\ \A v \in Job \ {w} : pc'[v] = pc[v]
  BY <1>1, GoesType
<1>3. TypeOK' /\ Standing(w)' /\ GatesAreFresh' /\ MemoryIsServed'
  BY <1>1, <1>2, AtRest DEF IInv, TypeOK, GatesAreFresh, MemoryIsServed, Records, hub, pods
<1>4. pc[w] # "idle"
  BY DEF Working, Steps
<1>5. SoFar(w)'
  BY <1>1, <1>2, <1>4 DEF SoFar, Early
<1>6. LateOf(w)'
  BY <1>1, <1>2 DEF LateOf, hub, pods
<1>7. TurnIsServed'
  BY <1>1, <1>2 DEF IInv, TurnIsServed, ShutOut, hub, pods
<1> QED
  BY <1>2, <1>3, <1>5, <1>6, <1>7, StepKeeps DEF hub, pods

\* The outcome of a job is written on its ticket.
LEMMA WrittenKeeps ==
  ASSUME IInv, NEW w \in Job, pc[w] = "finish", Written(w), Goes(w, "done"),
         UNCHANGED <<registry, rotation, pods, move>>
  PROVE  IInv'
<1>1. Working(w) /\ SoFar(w) /\ Standing(w) /\ LateOf(w) /\ TypeOK
  BY DEF IInv, Working, Steps
<1>2. ticket = [job |-> w, status |-> "running"]
  BY <1>1 DEF IInv, Alone
<1>3. /\ pc' \in [Job -> Steps \cup {"idle", "done"}] /\ pc'[w] = "done"
      /\ \A v \in Job \ {w} : pc'[v] = pc[v]
  BY <1>1, GoesType
<1>4. move[w].verdict \in Verdict
  BY <1>1 DEF TypeOK, Move
<1>5. ticket' = [job |-> w, status |-> move[w].verdict]
  BY <1>2 DEF Written
<1>6. TypeOK'
  <2>1. ticket' \in Ticket
    BY <1>4, <1>5 DEF Ticket
  <2> QED
    BY <1>1, <1>3, <2>1 DEF TypeOK, pods
<1>7. ASSUME NEW v \in Job \ {w}
      PROVE  ~Working(v)' /\ SoFar(v)' /\ Standing(v)' /\ LateOf(v)'
  <2>1. ~Working(v) /\ pc[v] \in {"idle", "read", "claim", "done"} /\ ticket.job # v
    BY <1>1, OthersRest
  <2>2. ~Working(v)' /\ Standing(v)'
    BY <1>3, <2>1, AtRest DEF Working
  <2>3. SoFar(v)' /\ LateOf(v)'
    BY <1>3, <2>1 DEF IInv, SoFar, LateOf, pods
  <2> QED
    BY <2>2, <2>3
<1>8. ~Working(w)' /\ Standing(w)' /\ SoFar(w)'
  BY <1>1, <1>3, AtRest DEF Working, Steps, SoFar, Early
<1>9. LateOf(w)'
  BY <1>1, <1>3, <1>5 DEF LateOf, Recovering, pods
<1>10. Alone'
  BY <1>7, <1>8 DEF Alone
<1>11. TicketIsTrue'
  BY <1>1, <1>3, <1>4, <1>5 DEF TicketIsTrue, Startable, Standing, Quiet, Serving, Kept, Verdict, pods
<1>12. TurnIsServed'
  BY <1>1, <1>2, <1>3, <1>5 DEF IInv, TurnIsServed, ShutOut, pods
<1>13. GatesAreFresh' /\ MemoryIsServed'
  BY DEF IInv, GatesAreFresh, MemoryIsServed, Records, pods
<1> QED
  BY <1>6, <1>7, <1>8, <1>9, <1>10, <1>11, <1>12, <1>13 DEF IInv

LEMMA FinishKeeps == ASSUME IInv, NEW w \in Job, Finish(w) PROVE IInv'
BY WrittenKeeps DEF Finish

\* A refusal whose write is not answered, but not made either, is recovered from again.
LEMMA FinishUnansweredKeeps ==
  ASSUME IInv, RefusalIsAnswered, NEW w \in Job, FinishUnanswered(w)
  PROVE  IInv'
<1>1. Working(w) /\ SoFar(w) /\ Standing(w) /\ LateOf(w) /\ TypeOK
  BY DEF IInv, FinishUnanswered, Working, Steps
<1>2. CASE ~move[w].refused
  <2>1. CASE UNCHANGED ticket
    BY <1>1, <1>2, <2>1, GoneKeeps DEF FinishUnanswered, hub
  <2>2. CASE Written(w)
    BY <1>2, <2>2, WrittenKeeps DEF FinishUnanswered
  <2> QED
    BY <2>1, <2>2 DEF FinishUnanswered
<1>3. CASE move[w].refused
  <2>1. ticket' = ticket /\ Recovers(w, FALSE) /\ UNCHANGED <<registry, rotation, pods>>
    BY <1>3 DEF FinishUnanswered
  <2>2. /\ pc' \in [Job -> Steps \cup {"idle", "done"}] /\ pc'[w] = "release"
        /\ \A v \in Job \ {w} : pc'[v] = pc[v] /\ move'[v] = move[v]
        /\ move' \in [Job -> Move]
        /\ move'[w].src = move[w].src /\ move'[w].dst = move[w].dst
        /\ move'[w].rebuilt = move[w].rebuilt
        /\ move'[w].verdict = "failed" /\ move'[w].refused = FALSE
    BY <1>1, <2>1, RecoversType
  <2>3. TypeOK'
    BY <1>1, <2>1, <2>2 DEF TypeOK, pods
  <2>4. SoFar(w)'
    BY <1>1, <2>1, <2>2 DEF FinishUnanswered, SoFar, Early, pods
  <2>5. Standing(w)'
    BY <1>1, <1>3, <2>1, <2>2 DEF FinishUnanswered, Standing, Recovering, Recoverable, pods
  <2>6. LateOf(w)'
    BY <1>1, <1>3, <2>1, <2>2 DEF FinishUnanswered, LateOf, Recovering, pods
  <2>7. TurnIsServed'
    <3>1. ~ShutOut
      BY <1>1, <1>3 DEF IInv, Alone, ShutOut, FinishUnanswered
    <3> QED
      BY <2>1, <3>1 DEF IInv, TurnIsServed, pods
  <2>8. GatesAreFresh' /\ MemoryIsServed'
    BY <2>1 DEF IInv, GatesAreFresh, MemoryIsServed, Records, pods
  <2> QED
    BY <1>1, <2>1, <2>2, <2>3, <2>4, <2>5, <2>6, <2>7, <2>8, StepKeeps DEF pods
<1> QED
  BY <1>2, <1>3

LEMMA DieKeeps == ASSUME IInv, NEW w \in Job, Die(w) PROVE IInv'
<1>1. CASE Working(w)
  BY <1>1, GoneKeeps DEF Die
<1>2. CASE ~Working(w)
  <2>1. pc[w] \in {"read", "claim"}
    BY <1>2 DEF Die, Working
  <2>2. /\ pc' \in [Job -> Steps \cup {"idle", "done"}] /\ pc'[w] = "done"
        /\ \A v \in Job \ {w} : pc'[v] = pc[v]
    BY GoesType DEF IInv, Die
  <2>3. TypeOK' /\ SoFar(w)'
    BY <2>1, <2>2 DEF IInv, Die, TypeOK, SoFar, Early, hub, pods
  <2> QED
    BY <2>1, <2>2, <2>3, BystanderKeeps DEF Die
<1> QED
  BY <1>1, <1>2

LEMMA StepKeepsIInv ==
  ASSUME IInv, RefusalIsAnswered, NEW w \in Job, Step(w)
  PROVE  IInv'
BY AskKeeps, ReadTicketKeeps, ClaimKeeps, FreezeKeeps, FreezeRefusedKeeps, FreezeUnansweredKeeps,
   DrainKeeps, DrainedKeeps, DrainUnconfirmedKeeps, BuildKeeps, ExportKeeps, ImportKeeps,
   StepFailsKeeps, VerifyKeeps, SwitchKeeps, SwitchUnansweredKeeps, ReapKeeps,
   ReapUnconfirmedKeeps, ReleaseKeeps, ReleaseUnconfirmedKeeps, UnfreezeKeeps,
   UnfreezeUnconfirmedKeeps, TeardownKeeps, TeardownUnconfirmedKeeps, FinishKeeps,
   FinishUnansweredKeeps, DieKeeps DEF Step

-----------------------------------------------------------------------------
(* The steps of the owner, the sweeps and the pods *)

\* A step that moves no worker.
LEMMA AroundKeeps ==
  ASSUME IInv, UNCHANGED workers, ticket' = ticket, imports' \subseteq imports,
         late' \subseteq late, TypeOK',
         \A w \in Job : Working(w) => Standing(w)',
         GatesAreFresh', TicketIsTrue', TurnIsServed', MemoryIsServed'
  PROVE  IInv'
<1>1. ASSUME NEW w \in Job
      PROVE  SoFar(w)' /\ LateOf(w)' /\ Standing(w)' /\ (Working(w)' <=> Working(w))
  <2>1. pc' = pc /\ move' = move /\ SoFar(w) /\ LateOf(w) /\ TypeOK
    BY DEF IInv, workers
  <2>2. SoFar(w)' /\ LateOf(w)' /\ (Working(w)' <=> Working(w))
    BY <2>1 DEF SoFar, LateOf, Working
  <2>3. Standing(w)'
    <3>1. CASE Working(w)
      BY <3>1
    <3>2. CASE ~Working(w)
      BY <2>1, <3>2, NotWorking, AtRest
    <3> QED
      BY <3>1, <3>2
  <2> QED
    BY <2>2, <2>3
<1>2. Alone'
  BY <1>1 DEF IInv, Alone
<1> QED
  BY <1>1, <1>2 DEF IInv

\* While a worker stands between the fence and the switch the pod admits nothing.
LEMMA FencedTurn ==
  ASSUME IInv, NEW w \in Job, Working(w), pc[w] \notin {"reap", "finish"}
  PROVE  turn # NoTurn => turn.host = registry.host /\ turn.host \in up
<1>1. ticket = [job |-> w, status |-> "running"] /\ pc[w] # "done"
  BY DEF IInv, Alone, Working, Steps
<1> QED
  BY <1>1 DEF IInv, TurnIsServed, ShutOut

\* A step of a turn leaves the rest as it is.
LEMMA TurnKeeps ==
  ASSUME IInv, UNCHANGED <<hub, up, gate, log, imports, late, acked, workers>>, TypeOK',
         turn'.admitted => turn.admitted \/ (turn # NoTurn /\ gate[turn.host].holder = NoJob),
         turn'.admitted => turn # NoTurn,
         TurnIsServed'
  PROVE  IInv'
<1>1. ASSUME NEW w \in Job, Working(w)
      PROVE  Standing(w)'
  <2>1. Standing(w) /\ TypeOK
    BY DEF IInv
  <2>2. pc[w] \in {"build", "export", "import", "wait", "verify", "switch"} => ~turn'.admitted
    <3>1. SUFFICES ASSUME pc[w] \in {"build", "export", "import", "wait", "verify", "switch"},
                          turn'.admitted
                   PROVE  FALSE
      OBVIOUS
    <3>2. ~turn.admitted /\ gate[registry.host].holder = w
      BY <2>1, <3>1 DEF Standing, Fenced, BothUp
    <3>3. turn # NoTurn /\ gate[turn.host].holder = NoJob
      BY <3>1, <3>2
    <3>4. turn.host = registry.host
      BY <1>1, <3>1, <3>3, FencedTurn
    <3> QED
      BY <3>2, <3>3, <3>4, JobAssumption
  <2> QED
    BY <2>1, <2>2 DEF Standing, Quiet, Serving, Fenced, BothUp, Recoverable, Kept, hub, workers
<1>2. GatesAreFresh' /\ TicketIsTrue' /\ MemoryIsServed'
  BY DEF IInv, GatesAreFresh, TicketIsTrue, Quiet, Serving, Kept, MemoryIsServed, Records, hub,
     workers
<1> QED
  BY <1>1, <1>2, AroundKeeps DEF hub

LEMMA RelayKeeps == ASSUME IInv, Relay PROVE IInv'
<1>1. turn = NoTurn /\ turn' = [host |-> registry.host, admitted |-> FALSE]
  BY DEF Relay
<1>2. UNCHANGED <<hub, up, gate, log, imports, late, acked, workers>>
  BY DEF Relay
<1>3. TypeOK'
  BY <1>1, <1>2 DEF IInv, TypeOK, hub, workers
<1>4. TurnIsServed'
  BY <1>1, <1>2 DEF IInv, MemoryIsServed, TurnIsServed, hub
<1> QED
  BY <1>1, <1>2, <1>3, <1>4, TurnKeeps

LEMMA AdmitKeeps == ASSUME IInv, Admit PROVE IInv'
<1>1. /\ turn # NoTurn /\ turn \in [host : Host \cup {NoHost}, admitted : BOOLEAN]
      /\ \/ turn' = NoTurn
         \/ turn' = [turn EXCEPT !.admitted = TRUE] /\ turn.host \in up
              /\ gate[turn.host].holder = NoJob
  BY DEF IInv, TypeOK, Admit
<1>2. UNCHANGED <<hub, up, gate, log, imports, late, acked, workers>>
  BY DEF Admit
<1>3. turn' \in [host : Host \cup {NoHost}, admitted : BOOLEAN]
  <2>1. NoTurn \in [host : Host \cup {NoHost}, admitted : BOOLEAN]
    BY DEF NoTurn
  <2>2. TRUE \in BOOLEAN
    OBVIOUS
  <2>3. [turn EXCEPT !.admitted = TRUE] \in [host : Host \cup {NoHost}, admitted : BOOLEAN]
    BY <1>1, <2>2
  <2> QED
    BY <1>1, <2>1, <2>3
<1>4. TypeOK'
  BY <1>2, <1>3 DEF IInv, TypeOK, hub, workers
<1>5. TurnIsServed'
  <2>1. CASE turn' = NoTurn
    BY <2>1 DEF TurnIsServed, NoTurn
  <2>2. CASE /\ turn' = [turn EXCEPT !.admitted = TRUE] /\ turn.host \in up
             /\ gate[turn.host].holder = NoJob
    <3>1. ~ShutOut
      BY <2>2, JobAssumption DEF ShutOut
    <3>2. turn.host = registry.host
      BY <1>1, <3>1 DEF IInv, TurnIsServed
    <3>3. turn'.host = registry.host
      BY <1>1, <2>2, <3>2
    <3> QED
      BY <1>2, <2>2, <3>2, <3>3 DEF TurnIsServed, hub
  <2> QED
    BY <1>1, <2>1, <2>2
<1>6. turn'.admitted => turn # NoTurn /\ gate[turn.host].holder = NoJob
  BY <1>1 DEF NoTurn
<1> QED
  BY <1>2, <1>4, <1>5, <1>6, TurnKeeps

LEMMA EndTurnKeeps == ASSUME IInv, EndTurn PROVE IInv'
<1>1. turn' = NoTurn /\ UNCHANGED <<hub, up, gate, log, imports, late, acked, workers>>
  BY DEF EndTurn
<1>2. TypeOK'
  BY <1>1 DEF IInv, TypeOK, NoTurn, hub, workers
<1>3. TurnIsServed' /\ ~turn'.admitted
  BY <1>1 DEF TurnIsServed, NoTurn
<1> QED
  BY <1>1, <1>2, <1>3, TurnKeeps

\* A log that grows keeps its records.
LEMMA Grows ==
  ASSUME NEW s \in Seq(Record), NEW r \in Record
  PROVE  Records(Append(s, r)) = Records(s) \cup {r}
<1> DEFINE t == Append(s, r)
<1>1. /\ Len(s) \in Nat /\ DOMAIN s = 1 .. Len(s) /\ DOMAIN t = 1 .. Len(s) + 1
      /\ \A i \in 1 .. Len(s) : t[i] = s[i]
      /\ t[Len(s) + 1] = r
  OBVIOUS
<1> HIDE DEF t
<1>2. ASSUME NEW x \in Records(t) PROVE x \in Records(s) \cup {r}
  <2>1. PICK i \in 1 .. Len(s) + 1 : x = t[i]
    BY <1>1 DEF Records
  <2>2. i \in 1 .. Len(s) \/ i = Len(s) + 1
    BY <1>1
  <2> QED
    BY <1>1, <2>1, <2>2 DEF Records
<1>3. ASSUME NEW x \in Records(s) \cup {r} PROVE x \in Records(t)
  <2>1. CASE x = r
    <3>1. Len(s) + 1 \in DOMAIN t /\ t[Len(s) + 1] = x
      BY <1>1, <2>1
    <3> QED
      BY <3>1 DEF Records
  <2>2. CASE x \in Records(s)
    <3>1. PICK i \in DOMAIN s : x = s[i]
      BY <2>2 DEF Records
    <3>2. i \in DOMAIN t /\ t[i] = x
      BY <1>1, <3>1
    <3> QED
      BY <3>2 DEF Records
  <2> QED
    BY <1>3, <2>1, <2>2
<1> QED
  BY <1>2, <1>3 DEF t

LEMMA AnswerKeeps == ASSUME IInv, Answer PROVE IInv'
<1> DEFINE h == turn.host
           r == NextRecord(h)
<1>1. h = registry.host /\ h \in Host /\ turn # NoTurn /\ turn.admitted
  BY DEF IInv, TypeOK, TurnIsServed, Answer, NoTurn
<1>2. r \in Record /\ Append(log[h], r) \in Seq(Record) /\ log[h] \in Seq(Record)
  BY <1>1, RecordType DEF IInv, TypeOK
<1>3. /\ log' = [log EXCEPT ![h] = Append(log[h], r)] /\ acked' = acked \cup {r}
      /\ turn' = NoTurn /\ UNCHANGED <<hub, up, gate, imports, late, workers>>
  BY DEF Answer
<1>4. log'[h] = Append(log[h], r) /\ Records(log'[h]) = Records(log[h]) \cup {r}
  BY <1>1, <1>2, <1>3, Grows DEF IInv, TypeOK
<1> HIDE DEF h, r
<1>5. TypeOK'
  BY <1>1, <1>2, <1>3 DEF IInv, TypeOK, NoTurn, hub, workers
<1>6. ASSUME NEW w \in Job, Working(w)
      PROVE  Standing(w)'
  <2>1. Standing(w)
    BY DEF IInv
  <2>2. pc[w] \notin {"build", "export", "import", "wait", "verify", "switch"}
    BY <1>1, <2>1 DEF Standing
  <2> QED
    BY <1>3, <2>1, <2>2
       DEF Standing, Quiet, Serving, Fenced, BothUp, Recoverable, Recovering, Kept, hub, workers
<1>7. GatesAreFresh' /\ TicketIsTrue'
  BY <1>3 DEF IInv, GatesAreFresh, TicketIsTrue, Quiet, Serving, Kept, hub, workers
<1>8. TurnIsServed'
  BY <1>3 DEF TurnIsServed, NoTurn
<1>9. MemoryIsServed'
  BY <1>1, <1>3, <1>4 DEF IInv, MemoryIsServed, hub
<1> QED
  BY <1>3, <1>5, <1>6, <1>7, <1>8, <1>9, AroundKeeps DEF hub

\* Where only logs grow, other than the one that serves.
LEMMA ElsewhereGrows ==
  ASSUME IInv, NEW w \in Job, Standing(w), TypeOK,
         UNCHANGED <<hub, up, gate, turn, acked, late>>, pc' = pc,
         move'[w].src = move[w].src, move'[w].dst = move[w].dst,
         move'[w].head = move[w].head, move'[w].verdict = move[w].verdict,
         move'[w].refused = move[w].refused,
         pc[w] = "switch" => move'[w].rebuilt = move[w].rebuilt,
         pc[w] \in {"wait", "verify", "switch"} =>
           Records(move'[w].rebuilt) \subseteq Records(log'[move[w].dst])
  PROVE  Standing(w)'
<1>1. /\ Serving' = Serving /\ Quiet' = Quiet /\ Fenced(w)' = Fenced(w)
      /\ BothUp(w)' = BothUp(w) /\ Recoverable(w)' = Recoverable(w) /\ Kept(w)' = Kept(w)
  BY DEF Serving, Quiet, Fenced, BothUp, Recoverable, Kept, hub
<1>2. pc'[w] \in {"import", "wait", "verify", "switch"} => acked' \subseteq Records(move'[w].head)
  BY DEF Standing
<1>3. pc'[w] \in {"wait", "verify", "switch"} =>
        Records(move'[w].rebuilt) \subseteq Records(log'[move'[w].dst])
  OBVIOUS
<1>4. pc'[w] = "switch" => move'[w].head = move'[w].rebuilt
  BY DEF Standing
<1> QED
  BY <1>1, <1>2, <1>3, <1>4 DEF Standing, hub

LEMMA OwnRecordKeeps == ASSUME IInv, NEW h \in Host, OwnRecord(h) PROVE IInv'
<1> DEFINE r == NextRecord(h)
<1>1. r \in Record /\ Append(log[h], r) \in Seq(Record) /\ log[h] \in Seq(Record)
  BY RecordType DEF IInv, TypeOK
<1>2. /\ log' = [log EXCEPT ![h] = Append(log[h], r)] /\ h # registry.host
      /\ UNCHANGED <<hub, up, gate, imports, late, turn, acked, workers>>
  BY DEF OwnRecord
<1>3. Records(Append(log[h], r)) = Records(log[h]) \cup {r}
  BY <1>1, Grows
<1> HIDE DEF r
<1>4. \A g \in Host : Records(log[g]) \subseteq Records(log'[g])
  <2>1. SUFFICES ASSUME NEW g \in Host PROVE Records(log[g]) \subseteq Records(log'[g])
    OBVIOUS
  <2>2. CASE g = h
    BY <1>2, <1>3, <2>2 DEF IInv, TypeOK
  <2>3. CASE g # h
    <3>1. log'[g] = log[g]
      BY <1>2, <2>3 DEF IInv, TypeOK
    <3> QED
      BY <3>1
  <2> QED
    BY <2>2, <2>3
<1>5. TypeOK'
  BY <1>1, <1>2 DEF IInv, TypeOK, hub, workers
<1>6. ASSUME NEW w \in Job, Working(w)
      PROVE  Standing(w)'
  <2>1. Standing(w) /\ TypeOK /\ move[w].dst \in Host
    BY DEF IInv, TypeOK, Move
  <2>2. pc[w] \in {"wait", "verify", "switch"} =>
          Records(move[w].rebuilt) \subseteq Records(log'[move[w].dst])
    BY <1>4, <2>1 DEF Standing
  <2> QED
    BY <1>2, <2>1, <2>2, ElsewhereGrows DEF workers
<1>7. GatesAreFresh' /\ TicketIsTrue' /\ TurnIsServed'
  BY <1>2 DEF IInv, GatesAreFresh, TicketIsTrue, Quiet, Serving, Kept, TurnIsServed, ShutOut, hub,
     workers
<1>8. MemoryIsServed'
  BY <1>2, <1>4, MemoryStays DEF IInv, TypeOK, MemoryIsServed, hub
<1> QED
  BY <1>2, <1>5, <1>6, <1>7, <1>8, AroundKeeps DEF hub

\* What the sweep writes on the registry is never "migrating".
LEMMA StatusKeeps ==
  ASSUME IInv, UNCHANGED <<ticket, pods, workers>>, TypeOK',
         registry'.host = registry.host,
         registry' = registry \/ registry'.status # "migrating"
  PROVE  IInv'
<1>1. ASSUME NEW w \in Job, Working(w)
      PROVE  Standing(w)'
  <2>1. Standing(w)
    BY DEF IInv
  <2> QED
    BY <2>1 DEF Standing, Quiet, Serving, Fenced, BothUp, Recoverable, Recovering, Kept, pods, workers
<1>2. GatesAreFresh' /\ TicketIsTrue' /\ TurnIsServed' /\ MemoryIsServed'
  BY DEF IInv, GatesAreFresh, TicketIsTrue, Quiet, Serving, Kept, TurnIsServed, ShutOut,
     MemoryIsServed, Records, pods, workers
<1> QED
  BY <1>1, <1>2, AroundKeeps DEF pods

LEMMA PullKeyKeeps == ASSUME IInv, PullKey PROVE IInv'
<1>1. TypeOK'
  BY DEF IInv, PullKey, TypeOK, pods, workers
<1> QED
  BY <1>1, StatusKeeps DEF PullKey

LEMMA AttachKeyKeeps == ASSUME IInv, AttachKey PROVE IInv'
<1>1. TypeOK'
  BY DEF IInv, AttachKey, TypeOK, pods, workers
<1> QED
  BY <1>1, StatusKeeps DEF AttachKey

LEMMA RecordKeyKeeps == ASSUME IInv, RecordKey PROVE IInv'
<1>1. PICK status \in RegistryStatus :
        /\ status # "migrating" /\ registry' = [registry EXCEPT !.status = status]
        /\ rotation' \in {"none", "granting"}
        /\ UNCHANGED <<ticket, pods, workers>>
  BY DEF RecordKey
<1>2. registry'.host = registry.host /\ registry'.status # "migrating"
  BY <1>1 DEF IInv, TypeOK
<1>3. registry' \in [status : RegistryStatus, host : Host]
  BY <1>1 DEF IInv, TypeOK
<1>4. TypeOK'
  BY <1>1, <1>3 DEF IInv, TypeOK, pods, workers
<1> QED
  BY <1>1, <1>2, <1>4, StatusKeeps

LEMMA LeaveKeyKeeps == ASSUME IInv, LeaveKey PROVE IInv'
<1>1. TypeOK'
  BY DEF IInv, LeaveKey, TypeOK, pods, workers
<1> QED
  BY <1>1, StatusKeeps DEF LeaveKey

\* A late prepare can only be of the job that holds the ticket and is over.
LEMMA LatePrepareKeeps ==
  ASSUME IInv, NEW m \in Job, [do |-> "prepare", job |-> m] \in late,
         Prepared(move[m].src, m), late' \subseteq late,
         UNCHANGED <<hub, up, log, imports, turn, acked, workers>>
  PROVE  IInv'
<1>1. /\ ticket.job = m /\ ticket.status \in {"running", "freeze_unknown"}
      /\ \/ pc[m] = "done"
         \/ pc[m] = "finish" /\ move[m].verdict = "freeze_unknown" /\ ~move[m].refused
  BY DEF IInv, LateOf
<1>2. /\ move[m].src \in up /\ move[m].src \in Host /\ gate'[move[m].src].holder = m
      /\ \A h \in Host \ {move[m].src} : gate'[h] = gate[h]
  BY DEF IInv, TypeOK, Move, Prepared
<1>3. TypeOK'
  BY <1>2, PodsType DEF IInv, TypeOK, hub, workers
<1>4. ASSUME NEW w \in Job, Working(w)
      PROVE  Standing(w)'
  <2>1. w = m
    BY <1>1, <1>4 DEF IInv, Alone
  <2>2. pc[w] = "finish" /\ move[w].verdict = "freeze_unknown" /\ ~move[w].refused
    BY <1>1, <1>4, <2>1 DEF Working, Steps
  <2> QED
    BY <2>2 DEF Standing, Recovering, workers
<1>5. GatesAreFresh'
  BY <1>2 DEF IInv, GatesAreFresh
<1>6. TicketIsTrue'
  BY <1>1 DEF IInv, TicketIsTrue, Startable, hub
<1>7. TurnIsServed'
  BY <1>1, <1>2 DEF IInv, TypeOK, TurnIsServed, ShutOut, hub, workers
<1>8. MemoryIsServed'
  BY DEF IInv, MemoryIsServed, Records, hub
<1> QED
  BY <1>3, <1>4, <1>5, <1>6, <1>7, <1>8, AroundKeeps DEF hub

\* A late release frees only what its own job holds, and that job has given up.
LEMMA LateReleaseKeeps ==
  ASSUME IInv, NEW m \in Job, [do |-> "release", job |-> m] \in late,
         Released(move[m].src, m), late' \subseteq late,
         UNCHANGED <<hub, up, log, imports, turn, acked, workers>>
  PROVE  IInv'
<1>1. \/ pc[m] \in Recovering \cup {"done"}
      \/ pc[m] = "finish" /\ move[m].verdict \in {"failed", "recovery_pending"}
  BY DEF IInv, LateOf
<1>2. move[m].src \in up /\ move[m].src \in Host
  BY DEF IInv, TypeOK, Move, Released
<1>3. \A h \in Host :
        \/ gate'[h].holder = gate[h].holder
        \/ gate[h].holder = m /\ gate'[h].holder = NoJob
  <2> DEFINE s == move[m].src
  <2>1. /\ gate \in [Host -> [holder : Job \cup {NoJob}, released : Job \cup {NoJob}]]
        /\ \/ gate[s].holder = m
                /\ gate' = [gate EXCEPT ![s] = [holder |-> NoJob, released |-> m]]
           \/ gate' = gate
    BY DEF IInv, TypeOK, Released
  <2>2. s \in Host
    BY <1>2
  <2> HIDE DEF s
  <2>3. SUFFICES ASSUME NEW h \in Host
                 PROVE  \/ gate'[h].holder = gate[h].holder
                        \/ gate[h].holder = m /\ gate'[h].holder = NoJob
    OBVIOUS
  <2>4. CASE gate' = gate
    BY <2>4
  <2>5. CASE gate[s].holder = m /\ gate' = [gate EXCEPT ![s] = [holder |-> NoJob, released |-> m]]
    <3>1. CASE h = s
      BY <2>1, <2>2, <2>5, <3>1
    <3>2. CASE h # s
      BY <2>1, <2>2, <2>5, <3>2
    <3> QED
      BY <3>1, <3>2
  <2> QED
    BY <2>1, <2>4, <2>5
<1>4. TypeOK'
  BY <1>2, PodsType DEF IInv, TypeOK, hub, workers
<1>5. ASSUME NEW w \in Job, Working(w)
      PROVE  Standing(w)'
  <2>1. Standing(w) /\ move[w].src \in Host /\ move[w].dst \in Host /\ registry.host \in Host
    BY DEF IInv, TypeOK, Move
  <2>2. \A h \in {move[w].src, move[w].dst, registry.host} :
          /\ gate[h].holder = NoJob => gate'[h].holder = NoJob
          /\ gate[h].holder \in {w, NoJob} => gate'[h].holder \in {w, NoJob}
          /\ gate[h].holder = w /\ w # m => gate'[h].holder = w
    BY <1>3, <2>1, JobAssumption
  <2>3. CASE w # m
    BY <2>1, <2>2, <2>3
       DEF Standing, Quiet, Serving, Fenced, BothUp, Recoverable, Recovering, Kept, hub, workers
  <2>4. CASE w = m
    BY <1>1, <2>1, <2>2, <2>4
       DEF Standing, Quiet, Serving, Recoverable, Recovering, Kept, hub, workers
  <2> QED
    BY <2>3, <2>4
<1>6. GatesAreFresh'
  BY <1>3 DEF IInv, GatesAreFresh
<1>7. TicketIsTrue'
  <2>1. Quiet => Quiet'
    BY <1>3 DEF IInv, TypeOK, Quiet, Serving, hub
  <2>2. ASSUME ticket.status = "switch_unknown" PROVE Kept(ticket.job)'
    <3>1. ticket.job \in Job /\ Kept(ticket.job)
      BY <2>2 DEF IInv, TicketIsTrue
    <3>2. ticket.job # m /\ move[ticket.job].src \in Host
      BY <3>1 DEF Kept, IInv, TypeOK, Move
    <3> QED
      BY <1>3, <3>1, <3>2 DEF Kept, hub, workers
  <2> QED
    BY <2>1, <2>2 DEF IInv, TicketIsTrue, hub, workers
<1>8. TurnIsServed'
  <2>1. ASSUME turn # NoTurn, turn.host # registry.host PROVE ShutOut'
    <3>1. ShutOut /\ turn.host \in Host
      BY <2>1 DEF IInv, TypeOK, TurnIsServed
    <3>2. ticket.job # m
      BY <3>1 DEF ShutOut
    <3> QED
      BY <1>3, <3>1, <3>2 DEF ShutOut, hub, workers
  <2> QED
    BY <2>1 DEF IInv, TurnIsServed, hub
<1>9. MemoryIsServed'
  BY DEF IInv, MemoryIsServed, Records, hub
<1> QED
  BY <1>4, <1>5, <1>6, <1>7, <1>8, <1>9, AroundKeeps DEF hub

LEMMA ArriveLateKeeps == ASSUME IInv, ArriveLate PROVE IInv'
<1>1. PICK m \in late :
        /\ late' = late \ {m}
        /\ \/ m.do = "prepare" /\ Prepared(move[m.job].src, m.job)
           \/ m.do = "release" /\ Released(move[m.job].src, m.job)
        /\ UNCHANGED <<hub, up, log, imports, turn, acked, workers>>
  BY DEF ArriveLate
<1>2. m.job \in Job /\ m = [do |-> m.do, job |-> m.job]
  BY DEF IInv, TypeOK
<1>3. CASE m.do = "prepare" /\ Prepared(move[m.job].src, m.job)
  BY <1>1, <1>2, <1>3, LatePrepareKeeps
<1>4. CASE m.do = "release" /\ Released(move[m.job].src, m.job)
  BY <1>1, <1>2, <1>4, LateReleaseKeeps
<1> QED
  BY <1>1, <1>3, <1>4

LEMMA ImportRecordKeeps == ASSUME IInv, NEW w \in Job, ImportRecord(w) PROVE IInv'
<1> DEFINE h == move[w].dst
           r == move[w].head[move[w].done + 1]
           n == move[w].done + 1
           grown == Append(log[h], r)
<1>1. h \in Host /\ r \in Record /\ n \in Nat /\ log[h] \in Seq(Record) /\ w \in imports
  BY DEF IInv, TypeOK, Move, ImportRecord
<1>2. grown \in Seq(Record) /\ Records(grown) = Records(log[h]) \cup {r}
  BY <1>1, Grows
<1>3. /\ log' = [log EXCEPT ![h] = grown]
      /\ move' = [move EXCEPT ![w].done = n, ![w].rebuilt = grown]
      /\ UNCHANGED <<hub, up, gate, imports, late, turn, acked, pc>>
  BY DEF ImportRecord
<1> HIDE DEF r, n, grown
<1>4. /\ move' \in [Job -> Move]
      /\ move'[w].src = move[w].src /\ move'[w].dst = move[w].dst
      /\ move'[w].read = move[w].read /\ move'[w].head = move[w].head
      /\ move'[w].rebuilt = grown
      /\ move'[w].verdict = move[w].verdict /\ move'[w].refused = move[w].refused
      /\ \A v \in Job \ {w} : move'[v] = move[v]
  <2>1. move \in [Job -> Move]
    BY DEF IInv, TypeOK
  <2> QED
    BY <1>1, <1>2, <1>3, <2>1 DEF Move
<1> HIDE DEF h
<1>5. log'[h] = grown /\ \A g \in Host : Records(log[g]) \subseteq Records(log'[g])
  <2>1. log \in [Host -> Seq(Record)]
    BY DEF IInv, TypeOK
  <2>2. ASSUME NEW g \in Host PROVE Records(log[g]) \subseteq Records(log'[g])
    <3>1. CASE g = h
      BY <1>1, <1>2, <1>3, <2>1, <3>1
    <3>2. CASE g # h
      <4>1. log'[g] = log[g]
        BY <1>3, <2>1, <3>2
      <4> QED
        BY <4>1
    <3> QED
      BY <3>1, <3>2
  <2> QED
    BY <1>1, <1>3, <2>1, <2>2
<1>6. TypeOK'
  BY <1>1, <1>2, <1>3, <1>4 DEF IInv, TypeOK, hub
<1>7. pc[w] \notin Early \cup {"verify", "switch"} /\ pc[w] # "idle"
  BY <1>1 DEF IInv, SoFar, Early
<1>8. ASSUME NEW v \in Job
      PROVE  SoFar(v)' /\ Standing(v)' /\ LateOf(v)' /\ (Working(v)' <=> Working(v))
  <2>1. /\ SoFar(v) /\ Standing(v) /\ LateOf(v) /\ TypeOK /\ move[v].dst \in Host
        /\ move'[v].src = move[v].src /\ move'[v].dst = move[v].dst
        /\ move'[v].read = move[v].read /\ move'[v].head = move[v].head
        /\ move'[v].verdict = move[v].verdict /\ move'[v].refused = move[v].refused
        /\ v # w => move'[v].rebuilt = move[v].rebuilt
    BY <1>4 DEF IInv, TypeOK, Move
  <2>2. SoFar(v)'
    BY <1>3, <1>7, <2>1 DEF SoFar
  <2>3. LateOf(v)' /\ (Working(v)' <=> Working(v))
    BY <1>3, <2>1 DEF LateOf, Working, hub
  <2>4. pc[v] \in {"wait", "verify", "switch"} =>
          Records(move'[v].rebuilt) \subseteq Records(log'[move[v].dst])
    <3>1. CASE v = w
      BY <1>4, <1>5, <3>1 DEF h
    <3>2. CASE v # w
      BY <1>5, <2>1, <3>2 DEF Standing
    <3> QED
      BY <3>1, <3>2
  <2>5. Standing(v)'
    BY <1>3, <1>7, <2>1, <2>4, ElsewhereGrows
  <2> QED
    BY <2>2, <2>3, <2>5
<1>9. Alone' /\ GatesAreFresh'
  BY <1>3, <1>8 DEF IInv, Alone, GatesAreFresh, hub
<1>10. \A v \in Job : /\ move'[v].src = move[v].src /\ move'[v].dst = move[v].dst
                      /\ move'[v].verdict = move[v].verdict
                      /\ move'[v].refused = move[v].refused
  BY <1>4
<1>11. TicketIsTrue'
  <2>1. Quiet' = Quiet
    BY <1>3 DEF Quiet, Serving, hub
  <2>2. \A v \in Job : Kept(v) => Kept(v)'
    BY <1>3, <1>10 DEF Kept, hub
  <2>3. TicketIsTrue /\ ticket' = ticket /\ pc' = pc
    BY <1>3 DEF IInv, hub
  <2>4. ticket.status = "switch_unknown" => ticket.job \in Job /\ Kept(ticket.job)'
    <3>1. SUFFICES ASSUME ticket.status = "switch_unknown"
                   PROVE  ticket.job \in Job /\ Kept(ticket.job)'
      OBVIOUS
    <3>2. ticket.job \in Job /\ Kept(ticket.job)
      BY <2>3, <3>1 DEF TicketIsTrue
    <3>3. PICK v \in Job : v = ticket.job
      BY <3>2
    <3>4. Kept(v)'
      BY <2>2, <3>2, <3>3
    <3> QED
      BY <2>3, <3>2, <3>3, <3>4 DEF Kept
  <2> QED
    BY <2>1, <2>3, <2>4 DEF TicketIsTrue, Kept
<1>12. TurnIsServed'
  BY <1>3, <1>10 DEF IInv, TurnIsServed, ShutOut, hub
<1>13. MemoryIsServed'
  BY <1>3, <1>5, MemoryStays DEF IInv, TypeOK, MemoryIsServed, hub
<1> QED
  BY <1>6, <1>8, <1>9, <1>11, <1>12, <1>13 DEF IInv

\* An import that ends, well or not.
LEMMA ImportEndKeeps ==
  ASSUME IInv, NEW w \in Job, w \in imports, imports' = imports \ {w},
         NEW step \in {"verify", "release"},
         pc' = [pc EXCEPT ![w] = IF pc[w] = "wait" THEN step ELSE pc[w]],
         UNCHANGED <<hub, up, gate, log, late, turn, acked, move>>
  PROVE  IInv'
<1>1. SoFar(w) /\ Standing(w) /\ LateOf(w) /\ TypeOK
  BY DEF IInv
<1>2. /\ pc' \in [Job -> Steps \cup {"idle", "done"}]
      /\ pc'[w] = IF pc[w] = "wait" THEN step ELSE pc[w]
      /\ \A v \in Job \ {w} : pc'[v] = pc[v]
  BY <1>1 DEF TypeOK, Steps
<1>3. TypeOK'
  BY <1>1, <1>2 DEF TypeOK, hub
<1>4. CASE pc[w] = "wait"
  <2>1. Working(w)
    BY <1>4 DEF Working, Steps
  <2>2. ticket = [job |-> w, status |-> "running"]
    BY <2>1 DEF IInv, Alone
  <2>3. SoFar(w)'
    BY <1>1, <1>2, <1>4 DEF SoFar, Early
  <2>4. Standing(w)'
    BY <1>1, <1>2, <1>4
       DEF SoFar, Standing, Fenced, BothUp, Recoverable, Recovering, hub
  <2>5. LateOf(w)'
    BY <1>1, <1>2, <1>4 DEF LateOf, Recovering
  <2>6. GatesAreFresh' /\ MemoryIsServed'
    BY DEF IInv, GatesAreFresh, MemoryIsServed, Records, hub
  <2>7. TurnIsServed'
    <3>1. ~ShutOut
      BY <1>4, <2>2 DEF ShutOut
    <3> QED
      BY <3>1 DEF IInv, TurnIsServed, hub
  <2> QED
    BY <1>2, <1>3, <2>1, <2>3, <2>4, <2>5, <2>6, <2>7, StepKeeps DEF hub
<1>5. CASE pc[w] # "wait"
  <2>1. pc' = pc
    BY <1>1, <1>2, <1>5 DEF TypeOK
  <2>2. ASSUME NEW v \in Job, Working(v)
        PROVE  Standing(v)'
    <3>1. Standing(v)
      BY DEF IInv
    <3> QED
      BY <2>1, <3>1 DEF Standing, Quiet, Serving, Fenced, BothUp, Recoverable, Kept, hub
  <2>3. GatesAreFresh' /\ TicketIsTrue' /\ TurnIsServed' /\ MemoryIsServed'
    BY <2>1 DEF IInv, GatesAreFresh, TicketIsTrue, Quiet, Serving, Kept, TurnIsServed, ShutOut,
       MemoryIsServed, Records, hub
  <2> QED
    BY <1>3, <2>1, <2>2, <2>3, AroundKeeps DEF hub, workers
<1> QED
  BY <1>4, <1>5

LEMMA EnvironmentKeeps == ASSUME IInv, Environment PROVE IInv'
<1>1. ASSUME NEW w \in Job, ImportDone(w) PROVE IInv'
  BY <1>1, ImportEndKeeps DEF ImportDone
<1>2. ASSUME NEW w \in Job, ImportBreaks(w) PROVE IInv'
  BY <1>2, ImportEndKeeps DEF ImportBreaks
<1> QED
  BY <1>1, <1>2, RelayKeeps, AdmitKeeps, AnswerKeeps, EndTurnKeeps, OwnRecordKeeps, PullKeyKeeps,
     AttachKeyKeeps, RecordKeyKeeps, LeaveKeyKeeps, ArriveLateKeeps, ImportRecordKeeps
     DEF Environment

-----------------------------------------------------------------------------
(* The theorems *)

LEMMA InitIInv == Init => IInv
<1> SUFFICES ASSUME Init PROVE IInv
  OBVIOUS
<1>1. TypeOK
  BY InitTypeOK
<1>2. \A w \in Job : pc[w] = "idle" /\ move[w] = NoMove
  BY DEF Init
<1>3. \A w \in Job : SoFar(w)
  BY <1>2 DEF Init, SoFar, Early, NoMove
<1>4. \A w \in Job : Standing(w) /\ LateOf(w) /\ ~Working(w)
  BY <1>2 DEF Init, Standing, LateOf, Recovering, Working, Steps
<1>5. GatesAreFresh /\ TicketIsTrue
  BY HostAssumption DEF Init, GatesAreFresh, OpenGate, TicketIsTrue, NoTicket, Quiet, Serving
<1>6. TurnIsServed /\ MemoryIsServed
  BY DEF Init, TurnIsServed, NoTurn, MemoryIsServed
<1> QED
  BY <1>1, <1>3, <1>4, <1>5, <1>6 DEF IInv, Alone

LEMMA StutterKeeps == ASSUME IInv, UNCHANGED vars PROVE IInv'
<1>1. TypeOK'
  BY DEF IInv, TypeOK, vars, hub, pods, workers
<1>2. ASSUME NEW w \in Job, Working(w) PROVE Standing(w)'
  <2>1. Standing(w)
    BY DEF IInv
  <2> QED
    BY <2>1 DEF Standing, Quiet, Serving, Fenced, BothUp, Recoverable, Kept, vars, hub, pods,
       workers
<1>3. GatesAreFresh' /\ TicketIsTrue' /\ TurnIsServed' /\ MemoryIsServed'
  BY DEF IInv, GatesAreFresh, TicketIsTrue, Quiet, Serving, Kept, TurnIsServed, ShutOut,
     MemoryIsServed, Records, vars, hub, pods, workers
<1> QED
  BY <1>1, <1>2, <1>3, AroundKeeps DEF vars, hub, pods

LEMMA NextIInv == ASSUME RefusalIsAnswered, IInv, [Next]_vars PROVE IInv'
<1>1. CASE Environment
  BY <1>1, EnvironmentKeeps
<1>2. CASE \E w \in Job : Step(w)
  BY <1>2, StepKeepsIInv
<1>3. CASE UNCHANGED vars
  BY <1>3, StutterKeeps
<1> QED
  BY <1>1, <1>2, <1>3 DEF Next

\* Where the ticket's write of a refusal is answered (pod_migration_service.py,
\* lines 425-434), the inductive invariant holds for any number of moves, hosts,
\* turns and lost answers.
THEOREM InvariantHolds == ASSUME RefusalIsAnswered PROVE Spec => []IInv
<1>1. Init => IInv
  BY InitIInv
<1>2. IInv /\ [Next]_vars => IInv'
  BY NextIInv
<1> QED
  BY <1>1, <1>2, PTL DEF Spec

\* Types (pod_migration_service.py and what it talks to).
THEOREM TypesHold == ASSUME RefusalIsAnswered PROVE Spec => []TypeOK
<1>1. IInv => TypeOK
  BY DEF IInv
<1> QED
  BY <1>1, InvariantHolds, PTL

\* However often an owner moves, and whatever is lost on the way, the routed pod
\* runs and has every record that was answered (run_migration).
THEOREM MemoryIsAlwaysServed == ASSUME RefusalIsAnswered PROVE Spec => []MemoryIsServed
<1>1. IInv => MemoryIsServed
  BY DEF IInv
<1> QED
  BY <1>1, InvariantHolds, PTL

\* A ticket that says failed stands for an owner who is where they were
\* (MigrationRecovery).
THEOREM FailedIsRestored == ASSUME RefusalIsAnswered PROVE Spec => []FailedMeansRestored
<1>1. IInv => FailedMeansRestored
  BY DEF IInv, TicketIsTrue, Startable, Quiet, Serving, FailedMeansRestored
<1> QED
  BY <1>1, InvariantHolds, PTL

\* Neither host is given up while the outcome of a switch is unknown
\* (run_migration, lines 452-461).
THEOREM UnknownSwitchIsKept == ASSUME RefusalIsAnswered PROVE Spec => []UnknownSwitchKeepsBoth
<1>1. IInv => UnknownSwitchKeepsBoth
  BY DEF IInv, TicketIsTrue, Kept, UnknownSwitchKeepsBoth
<1> QED
  BY <1>1, InvariantHolds, PTL

\* One move at a time does anything (PodMigrationJobRepo.start).
THEOREM OneWorkerAtATime == ASSUME RefusalIsAnswered PROVE Spec => []OneWorker
<1>1. IInv => OneWorker
  BY DEF IInv, Alone, OneWorker
<1> QED
  BY <1>1, InvariantHolds, PTL

=============================================================================
