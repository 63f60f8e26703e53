----------------------- MODULE LocalObjectStoreProofs -----------------------
(***************************************************************************)
(* Proofs about LocalObjectStore, for any processes, names and contents:   *)
(* IInv is inductive, and gives the safety properties and the refinement   *)
(* of CasStore.                                                            *)
(***************************************************************************)
EXTENDS LocalObjectStore, TLAPS

USE NamesAssumption, NoDataAssumption, FreeAssumption, MaxGenAssumption, NoJournalAssumption

-----------------------------------------------------------------------------
(* The version that a process returns, or takes as the base of a write *)

LEMMA VersionTyped ==
  ASSUME TypeOK, NEW name \in Name
  PROVE  /\ Version(name) \in [data : Data \cup {NoData}, generation : 0 .. MaxGen]
         /\ Generation(name) \in 0 .. MaxGen
         /\ Generation(name) = 0 <=> content[name] = NoData
BY DEF TypeOK, Version, Generation

LEMMA KeptTyped ==
  ASSUME TypeOK, NEW p \in Proc, call[p] # Idle
  PROVE  Kept(p) \subseteq Versions
<1>1. call[p].name \in Name
  BY DEF TypeOK, Operation
<1> QED BY <1>1, VersionTyped DEF Kept, Versions

LEMMA CallTyped ==
  ASSUME TypeOK, NEW p \in Proc, call[p] # Idle
  PROVE  /\ call[p] \in Operation
         /\ call[p].name \in Name
         /\ call[p].op = "put" => call[p].data \in Data /\ call[p].expected \in 0 .. MaxGen - 1
         /\ call[p].op = "delete" => call[p].name \in Deletable
BY DEF TypeOK, Operation

LEMMA JournalTyped ==
  ASSUME TypeOK, journal # NoJournal
  PROVE  /\ journal \in Journal
         /\ journal.name \in Name
         /\ journal.data \in Data
         /\ journal.expected \in 0 .. MaxGen - 1
         /\ journal.expected + 1 \in 1 .. MaxGen
BY DEF TypeOK, Journal

-----------------------------------------------------------------------------
(* Type correctness *)

LEMMA InitIsSound == Init => IInv
<1> SUFFICES ASSUME Init PROVE IInv
  OBVIOUS
<1>1. TypeOK
  BY DEF Init, TypeOK, Pc
<1>2. RecoveryNeverRefuses
  BY DEF Init, RecoveryNeverRefuses
<1>3. LockIsHeld
  BY DEF Init, LockIsHeld, Holding, Redoing
<1>4. WorkIsSound
  BY DEF Init, WorkIsSound, Redoing
<1>5. VersionsNeverRegress /\ OneWinnerPerVersion /\ \A a \in acked : a[2] \in seen
  BY DEF Init, VersionsNeverRegress, OneWinnerPerVersion
<1>6. OwnJournal
  BY DEF Init, OwnJournal, Redoing
<1> QED BY <1>1, <1>2, <1>3, <1>4, <1>5, <1>6 DEF IInv

LEMMA StepKeepsTypes ==
  ASSUME IInv, Next
  PROVE  TypeOK'
<1> USE DEF IInv
<1>1. PICK p \in Proc : Begin(p) \/ Lock(p) \/ Redo(p) \/ Operate(p) \/ Crash(p)
  BY DEF Next
<1>2. CASE Begin(p)
  BY <1>2 DEF Begin, Goto, TypeOK, Pc, files
<1>3. CASE Lock(p)
  BY <1>3 DEF Lock, Goto, TypeOK, Pc, files
<1>4. CASE RedoContent(p)
  BY <1>4, JournalTyped DEF RedoContent, WorkIsSound, Redoing, Goto, TypeOK, Pc
<1>5. CASE RedoGeneration(p)
  <2>1. journal.expected + 1 \in 0 .. MaxGen
    BY <1>5, JournalTyped DEF RedoGeneration, WorkIsSound, Redoing
  <2> QED BY <1>5, <2>1 DEF RedoGeneration, Goto, TypeOK, Pc
<1>6. CASE RedoUnlink(p)
  <2>1. Kept(p) \subseteq Versions
    BY <1>6, KeptTyped DEF RedoUnlink, WorkIsSound, Redoing
  <2>2. {p} \X Kept(p) \subseteq Proc \X Versions
    BY <2>1
  <2>3. CASE resume[p] = "operate"
    BY <1>6, <2>3 DEF RedoUnlink, Goto, TypeOK, Pc
  <2>4. CASE resume[p] # "operate"
    BY <1>6, <2>1, <2>2, <2>4 DEF RedoUnlink, Return, Goto, TypeOK, Pc
  <2> QED BY <2>3, <2>4
<1>7. CASE Get(p)
  <2>1. Kept(p) \subseteq Versions
    BY <1>7, KeptTyped DEF Get, WorkIsSound
  <2> QED BY <1>7, <2>1 DEF Get, Return, Goto, TypeOK, Pc, files
<1>8. CASE PutLoses(p)
  BY <1>8 DEF PutLoses, Return, Goto, TypeOK, Pc, files
<1>9. CASE PutWins(p)
  <2>1. call[p] # Idle /\ call[p].op = "put"
    BY <1>9 DEF PutWins, WorkIsSound
  <2>2. journal' \in Journal
    BY <1>9, <2>1, CallTyped DEF PutWins, Journal, TypeOK
  <2> QED BY <1>9, <2>2 DEF PutWins, Goto, TypeOK, Pc
<1>10. CASE DeleteGeneration(p)
  <2>1. 0 \in 0 .. MaxGen
    BY MaxGenAssumption
  <2> QED BY <1>10, <2>1 DEF DeleteGeneration, Goto, TypeOK, Pc
<1>11. CASE DeleteContent(p)
  BY <1>11 DEF DeleteContent, Return, Goto, TypeOK, Pc
<1>12. CASE Crash(p)
  BY <1>12 DEF Crash, Goto, TypeOK, Pc, files
<1> QED BY <1>1, <1>2, <1>3, <1>4, <1>5, <1>6, <1>7, <1>8, <1>9, <1>10, <1>11, <1>12
        DEF Redo, Operate

-----------------------------------------------------------------------------
(* The lock, the journal and the files *)

LEMMA StepKeepsLock ==
  ASSUME IInv, Next
  PROVE  LockIsHeld'
<1> USE DEF IInv, LockIsHeld, Holding, Redoing, TypeOK
<1>1. PICK p \in Proc : Begin(p) \/ Lock(p) \/ Redo(p) \/ Operate(p) \/ Crash(p)
  BY DEF Next
<1>2. CASE Begin(p)
  BY <1>2 DEF Begin, Goto
<1>3. CASE Lock(p)
  BY <1>3 DEF Lock, Goto
<1>4. CASE RedoContent(p) \/ RedoGeneration(p)
  BY <1>4 DEF RedoContent, RedoGeneration, Goto
<1>5. CASE RedoUnlink(p)
  BY <1>5 DEF RedoUnlink, Return, Goto
<1>6. CASE Get(p) \/ PutLoses(p) \/ DeleteContent(p)
  BY <1>6 DEF Get, PutLoses, DeleteContent, Return, Goto
<1>7. CASE PutWins(p) \/ DeleteGeneration(p)
  BY <1>7 DEF PutWins, DeleteGeneration, Goto
<1>8. CASE Crash(p)
  BY <1>8 DEF Crash, Goto
<1> QED BY <1>1, <1>2, <1>3, <1>4, <1>5, <1>6, <1>7, <1>8 DEF Redo, Operate

\* While one process holds the lock, no other does.
LEMMA OthersWait ==
  ASSUME LockIsHeld, NEW p \in Proc, pc[p] \in Holding, NEW q \in Proc, q # p
  PROVE  pc[q] \notin Holding
BY DEF LockIsHeld

LEMMA StepKeepsRecovery ==
  ASSUME IInv, Next
  PROVE  RecoveryNeverRefuses'
<1> USE DEF IInv, RecoveryNeverRefuses
<1>1. PICK p \in Proc : Begin(p) \/ Lock(p) \/ Redo(p) \/ Operate(p) \/ Crash(p)
  BY DEF Next
<1>2. CASE UNCHANGED files
  BY <1>2 DEF files, Matches, Generation
<1>3. CASE RedoContent(p)
  <2>1. journal # NoJournal /\ Matches(journal)
    BY <1>3 DEF RedoContent, WorkIsSound, Redoing
  <2>2. journal.name \in Name /\ journal.data \in Data /\ journal.expected \in Nat
    BY <2>1, JournalTyped
  <2>3. content'[journal.name] = journal.data
    BY <1>3, <2>2 DEF RedoContent, TypeOK
  <2>4. Generation(journal.name)' \in {journal.expected, journal.expected + 1}
    BY <1>3, <2>1, <2>2, <2>3 DEF RedoContent, Matches, Generation, TypeOK
  <2>5. Matches(journal)'
    BY <1>3, <2>3, <2>4 DEF RedoContent, Matches
  <2>6. \A name \in Name : genFile'[name] # 0 => content'[name] # NoData
    BY <1>3, <2>2 DEF RedoContent, TypeOK
  <2> QED BY <2>5, <2>6
<1>4. CASE RedoGeneration(p)
  <2>1. journal # NoJournal /\ content[journal.name] = journal.data
    BY <1>4 DEF RedoGeneration, WorkIsSound, Redoing
  <2>2. /\ journal.name \in Name /\ journal.data \in Data
        /\ journal.expected + 1 \in 1 .. MaxGen
    BY <2>1, JournalTyped
  <2>3. genFile'[journal.name] = journal.expected + 1
    BY <1>4, <2>2 DEF RedoGeneration, TypeOK
  <2>4. Generation(journal.name)' = journal.expected + 1
    BY <1>4, <2>1, <2>2, <2>3 DEF RedoGeneration, Generation
  <2>5. Matches(journal)'
    BY <1>4, <2>1, <2>4 DEF RedoGeneration, Matches
  <2>6. \A name \in Name : genFile'[name] # 0 => content'[name] # NoData
    BY <1>4, <2>1, <2>2 DEF RedoGeneration, TypeOK
  <2> QED BY <2>5, <2>6
<1>5. CASE RedoUnlink(p)
  BY <1>5 DEF RedoUnlink
<1>6. CASE PutWins(p)
  BY <1>6 DEF PutWins, Matches, Generation
<1>7. CASE DeleteGeneration(p) \/ DeleteContent(p)
  <2>1. journal' = NoJournal
    BY <1>7 DEF DeleteGeneration, DeleteContent, WorkIsSound
  <2>2. call[p] # Idle
    BY <1>7 DEF DeleteGeneration, DeleteContent, WorkIsSound
  <2>3. call[p].name \in Name
    BY <2>2, CallTyped
  <2>4. \A name \in Name : genFile'[name] # 0 => content'[name] # NoData
    BY <1>7, <2>3 DEF DeleteGeneration, DeleteContent, WorkIsSound, TypeOK
  <2> QED BY <2>1, <2>4
<1>8. CASE Begin(p) \/ Lock(p) \/ Get(p) \/ PutLoses(p) \/ Crash(p)
  BY <1>8, <1>2 DEF Begin, Lock, Get, PutLoses, Crash
<1> QED BY <1>1, <1>3, <1>4, <1>5, <1>6, <1>7, <1>8 DEF Redo, Operate

LEMMA StepKeepsWork ==
  ASSUME IInv, Next
  PROVE  WorkIsSound'
<1> USE DEF IInv, Redoing
<1>1. PICK p \in Proc : Begin(p) \/ Lock(p) \/ Redo(p) \/ Operate(p) \/ Crash(p)
  BY DEF Next
<1>2. CASE Begin(p)
  <2>1. \A operation \in Operation : operation # Idle
    BY DEF Operation, Idle
  <2> QED BY <1>2, <2>1 DEF Begin, Goto, WorkIsSound, TypeOK, files
<1>3. CASE Lock(p)
  BY <1>3 DEF Lock, Goto, WorkIsSound, TypeOK, files
<1>4. CASE RedoContent(p)
  <2>1. journal # NoJournal /\ journal.name \in Name
    BY <1>4, JournalTyped DEF RedoContent, WorkIsSound
  <2>2. content'[journal.name] = journal.data
    BY <1>4, <2>1 DEF RedoContent, TypeOK
  <2>3. \A q \in Proc : q # p => pc[q] \notin Holding
    BY <1>4, OthersWait DEF RedoContent, Holding
  <2> QED BY <1>4, <2>1, <2>2, <2>3 DEF RedoContent, Goto, WorkIsSound, TypeOK, Holding
<1>5. CASE RedoGeneration(p)
  <2>1. journal # NoJournal /\ journal.name \in Name
    BY <1>5, JournalTyped DEF RedoGeneration, WorkIsSound
  <2>2. genFile'[journal.name] = journal.expected + 1
    BY <1>5, <2>1 DEF RedoGeneration, TypeOK
  <2>3. \A q \in Proc : q # p => pc[q] \notin Holding
    BY <1>5, OthersWait DEF RedoGeneration, Holding
  <2> QED BY <1>5, <2>1, <2>2, <2>3 DEF RedoGeneration, Goto, WorkIsSound, TypeOK, Holding
<1>6. CASE RedoUnlink(p)
  <2>1. \A q \in Proc : q # p => pc[q] \notin Holding
    BY <1>6, OthersWait DEF RedoUnlink, Holding
  <2> QED BY <1>6, <2>1 DEF RedoUnlink, Return, Goto, WorkIsSound, TypeOK, Holding
<1>7. CASE Get(p) \/ PutLoses(p)
  BY <1>7 DEF Get, PutLoses, Return, Goto, WorkIsSound, TypeOK, files
<1>8. CASE PutWins(p)
  <2>1. \A q \in Proc : q # p => pc[q] \notin Holding
    BY <1>8, OthersWait DEF PutWins, Holding
  <2>2. journal' # NoJournal
    <3>1. call[p] # Idle /\ call[p].op = "put"
      BY <1>8 DEF PutWins, WorkIsSound
    <3>2. journal' \in Journal
      BY <1>8, <3>1, CallTyped DEF PutWins, Journal, TypeOK
    <3> QED BY <3>2, NoJournalAssumption
  <2> QED BY <1>8, <2>1, <2>2 DEF PutWins, Goto, WorkIsSound, TypeOK, Holding
<1>9. CASE DeleteGeneration(p)
  <2>1. \A q \in Proc : q # p => pc[q] \notin Holding
    BY <1>9, OthersWait DEF DeleteGeneration, Holding
  <2>2. call[p].name \in Name
    BY <1>9, CallTyped DEF DeleteGeneration, WorkIsSound
  <2> QED BY <1>9, <2>1, <2>2 DEF DeleteGeneration, Goto, WorkIsSound, TypeOK, Holding
<1>10. CASE DeleteContent(p)
  <2>1. \A q \in Proc : q # p => pc[q] \notin Holding
    BY <1>10, OthersWait DEF DeleteContent, Holding
  <2> QED BY <1>10, <2>1 DEF DeleteContent, Return, Goto, WorkIsSound, TypeOK, Holding
<1>11. CASE Crash(p)
  BY <1>11 DEF Crash, Goto, WorkIsSound, TypeOK, files
<1> QED BY <1>1, <1>2, <1>3, <1>4, <1>5, <1>6, <1>7, <1>8, <1>9, <1>10, <1>11
        DEF Redo, Operate

-----------------------------------------------------------------------------
(* What the steps do to the current versions *)

LEMMA RedoKeepsCurrent ==
  ASSUME IInv, NEW p \in Proc, Redo(p), NEW name \in Name
  PROVE  Current(name)' = Current(name)
<1> USE DEF IInv
<1>1. pc[p] \in Redoing /\ journal # NoJournal
  BY DEF Redo, RedoContent, RedoGeneration, RedoUnlink, WorkIsSound, Redoing
<1>2. /\ journal.name \in Name /\ journal.data \in Data /\ journal.expected \in Nat
  BY <1>1, JournalTyped
<1>3. CASE RedoContent(p)
  <2>1. name # journal.name => content'[name] = content[name] /\ genFile'[name] = genFile[name]
    BY <1>2, <1>3 DEF RedoContent, TypeOK
  <2>2. name # journal.name => Version(name)' = Version(name)
    BY <2>1 DEF Version, Generation
  <2>3. journal' = journal
    BY <1>3 DEF RedoContent
  <2> QED BY <1>1, <2>2, <2>3 DEF Current
<1>4. CASE RedoGeneration(p)
  <2>1. name # journal.name => content'[name] = content[name] /\ genFile'[name] = genFile[name]
    BY <1>2, <1>4 DEF RedoGeneration, TypeOK
  <2>2. name # journal.name => Version(name)' = Version(name)
    BY <2>1 DEF Version, Generation
  <2>3. journal' = journal
    BY <1>4 DEF RedoGeneration
  <2> QED BY <1>1, <2>2, <2>3 DEF Current
<1>5. CASE RedoUnlink(p)
  <2>1. content[journal.name] = journal.data /\ genFile[journal.name] = journal.expected + 1
    BY <1>5, <1>1 DEF RedoUnlink, WorkIsSound
  <2>2. Generation(journal.name) = journal.expected + 1
    BY <1>2, <2>1, NoDataAssumption DEF Generation
  <2>3. journal' = NoJournal /\ Version(name)' = Version(name)
    BY <1>5 DEF RedoUnlink, Version, Generation
  <2> QED BY <2>1, <2>2, <2>3 DEF Current, Version
<1> QED BY <1>3, <1>4, <1>5 DEF Redo

LEMMA SameFilesKeepCurrent ==
  ASSUME UNCHANGED files, NEW name
  PROVE  Current(name)' = Current(name)
BY DEF files, Current, Version, Generation

LEMMA PutMakesNext ==
  ASSUME IInv, NEW p \in Proc, PutWins(p)
  PROVE  /\ call[p].name \in Name
         /\ call[p].data \in Data
         /\ journal' # NoJournal
         /\ journal'.name = call[p].name
         /\ journal'.expected = Current(call[p].name).generation
         /\ Current(call[p].name)' =
              [data |-> call[p].data, generation |-> Current(call[p].name).generation + 1]
         /\ \A name \in Name : name # call[p].name => Current(name)' = Current(name)
<1> USE DEF IInv
<1>1. call[p] # Idle /\ call[p].op = "put" /\ journal = NoJournal
  BY DEF PutWins, WorkIsSound
<1>2. call[p].name \in Name /\ call[p].data \in Data
  BY <1>1, CallTyped
<1>3. journal' = [name |-> call[p].name, data |-> call[p].data,
                  expected |-> call[p].expected, old |-> content[call[p].name]]
  BY DEF PutWins
<1>4. journal' # NoJournal
  <2>1. journal' \in Journal
    BY <1>1, <1>3, CallTyped DEF Journal, TypeOK
  <2> QED BY <2>1, NoJournalAssumption
<1>5. Current(call[p].name).generation = call[p].expected
  BY <1>1 DEF PutWins, Current, Version
<1>6. ASSUME NEW name \in Name, name # call[p].name
      PROVE  Current(name)' = Current(name)
  <2>1. Version(name)' = Version(name)
    BY DEF PutWins, Version, Generation
  <2> QED BY <1>1, <1>3, <1>6, <2>1 DEF Current
<1>7. Current(call[p].name)' = [data |-> call[p].data, generation |-> call[p].expected + 1]
  <2>1. call' = call
    BY DEF PutWins
  <2> QED BY <1>3, <1>4, <2>1 DEF Current
<1> QED BY <1>2, <1>3, <1>4, <1>5, <1>6, <1>7

LEMMA DeleteGenerationForgets ==
  ASSUME IInv, NEW p \in Proc, DeleteGeneration(p)
  PROVE  /\ call[p].name \in Deletable
         /\ \A name \in Name : name # call[p].name => Current(name)' = Current(name)
         /\ \/ Current(call[p].name)' = Current(call[p].name)
            \/ /\ Current(call[p].name).generation > 1
               /\ Current(call[p].name)' =
                    [data |-> Current(call[p].name).data, generation |-> 1]
<1> USE DEF IInv
<1>1. /\ call[p] # Idle /\ call[p].op = "delete"
      /\ journal = NoJournal /\ journal' = NoJournal /\ content' = content /\ call' = call
  BY DEF DeleteGeneration, WorkIsSound
<1>2. call[p].name \in Deletable /\ call[p].name \in Name
  BY <1>1, CallTyped
<1>3. genFile' = [genFile EXCEPT ![call[p].name] = 0]
  BY DEF DeleteGeneration
<1>4. ASSUME NEW name \in Name, name # call[p].name
      PROVE  Current(name)' = Current(name)
  BY <1>1, <1>2, <1>3, <1>4 DEF Current, Version, Generation, TypeOK
<1>5. genFile'[call[p].name] = 0 /\ genFile[call[p].name] \in Nat
  BY <1>2, <1>3 DEF TypeOK
<1>6. /\ Current(call[p].name) = Version(call[p].name)
      /\ Current(call[p].name)' = Version(call[p].name)'
  BY <1>1 DEF Current
<1>7. CASE content[call[p].name] = NoData \/ genFile[call[p].name] \in {0, 1}
  <2>1. Generation(call[p].name)' = Generation(call[p].name)
    BY <1>1, <1>5, <1>7 DEF Generation
  <2> QED BY <1>1, <1>2, <1>4, <1>6, <2>1 DEF Version
<1>8. CASE content[call[p].name] # NoData /\ genFile[call[p].name] \notin {0, 1}
  <2>1. Generation(call[p].name)' = 1 /\ Generation(call[p].name) > 1
    BY <1>1, <1>5, <1>8 DEF Generation
  <2> QED BY <1>1, <1>2, <1>4, <1>6, <2>1 DEF Version
<1> QED BY <1>7, <1>8

LEMMA DeleteContentRemoves ==
  ASSUME IInv, NEW p \in Proc, DeleteContent(p), NEW deleted, deleted = call[p].name
  PROVE  /\ deleted \in Deletable
         /\ \A name \in Name : name # deleted => Current(name)' = Current(name)
         /\ \/ Current(deleted)' = Current(deleted)
            \/ /\ Current(deleted).generation = 1
               /\ Current(deleted)' = [data |-> NoData, generation |-> 0]
<1> USE DEF IInv
<1>1. /\ call[p] # Idle /\ call[p].op = "delete" /\ genFile[deleted] = 0
      /\ journal = NoJournal /\ journal' = NoJournal /\ genFile' = genFile
  BY DEF DeleteContent, WorkIsSound
<1>2. deleted \in Deletable /\ deleted \in Name
  BY <1>1, CallTyped
<1>3. content' = [content EXCEPT ![deleted] = NoData]
  BY DEF DeleteContent
<1>4. ASSUME NEW name \in Name, name # deleted
      PROVE  Current(name)' = Current(name)
  BY <1>1, <1>2, <1>3, <1>4 DEF Current, Version, Generation, TypeOK
<1>5. content'[deleted] = NoData
  BY <1>2, <1>3 DEF TypeOK
<1>6. Current(deleted) = Version(deleted) /\ Current(deleted)' = Version(deleted)'
  BY <1>1 DEF Current
<1>7. Version(deleted)' = [data |-> NoData, generation |-> 0]
  BY <1>5 DEF Version, Generation
<1>8. Version(deleted).generation = 1 \/ Version(deleted) = [data |-> NoData, generation |-> 0]
  BY <1>1 DEF Version, Generation
<1> QED BY <1>2, <1>4, <1>6, <1>7, <1>8

-----------------------------------------------------------------------------
(* The histories *)

\* Versions that were returned are not taken back by a step that keeps the
\* current versions of the objects that nobody deletes, or makes the next one.
LEMMA SeenStaysGood ==
  ASSUME IInv,
         \A name \in Name \ Deletable :
           \/ Current(name)' = Current(name)
           \/ Current(name)'.generation = Current(name).generation + 1,
         NEW v \in seen
  PROVE  /\ v.version.generation <= Current(v.name)'.generation
         /\ v.version.generation = Current(v.name)'.generation => v.version = Current(v.name)'
<1> USE DEF IInv
<1>1. /\ v.version.generation <= Current(v.name).generation
      /\ v.version.generation = Current(v.name).generation => v.version = Current(v.name)
  BY DEF VersionsNeverRegress
<1>2. v.name \in Name \ Deletable /\ v.version.generation \in Nat
  BY MaxGenAssumption DEF TypeOK, Versions
<1>3. Current(v.name).generation \in Nat
  BY <1>2, VersionTyped, JournalTyped, MaxGenAssumption DEF Current
<1> QED BY <1>1, <1>2, <1>3

LEMMA KeptIsCurrent ==
  ASSUME NEW p \in Proc, \A name \in Name : Current(name) = Version(name),
         TypeOK, call[p] # Idle, NEW v \in Kept(p)
  PROVE  v.name \in Name \ Deletable /\ v.version = Current(v.name)
BY CallTyped DEF Kept

LEMMA StepKeepsSeen ==
  ASSUME IInv, Next
  PROVE  VersionsNeverRegress'
<1> USE DEF IInv
<1>1. PICK p \in Proc : Begin(p) \/ Lock(p) \/ Redo(p) \/ Operate(p) \/ Crash(p)
  BY DEF Next
<1>2. \A name \in Name \ Deletable :
        \/ Current(name)' = Current(name)
        \/ Current(name)'.generation = Current(name).generation + 1
  <2> SUFFICES ASSUME NEW name \in Name \ Deletable
               PROVE  \/ Current(name)' = Current(name)
                      \/ Current(name)'.generation = Current(name).generation + 1
    OBVIOUS
  <2>1. CASE Redo(p)
    BY <2>1, RedoKeepsCurrent
  <2>2. CASE Begin(p) \/ Lock(p) \/ Get(p) \/ PutLoses(p) \/ Crash(p)
    BY <2>2, SameFilesKeepCurrent DEF Begin, Lock, Get, PutLoses, Crash
  <2>3. CASE PutWins(p)
    <3>1. CASE name = call[p].name
      <4>1. call' = call
        BY <2>3 DEF PutWins
      <4>2. Current(name)' = [data |-> call[p].data, generation |-> Current(name).generation + 1]
        BY <2>3, <3>1, <4>1, PutMakesNext
      <4> QED BY <4>2
    <3>2. CASE name # call[p].name
      BY <2>3, <3>2, PutMakesNext
    <3> QED BY <3>1, <3>2
  <2>4. CASE DeleteGeneration(p)
    BY <2>4, DeleteGenerationForgets
  <2>5. CASE DeleteContent(p)
    BY <2>5, DeleteContentRemoves
  <2> QED BY <1>1, <2>1, <2>2, <2>3, <2>4, <2>5 DEF Operate
<1>3. CASE seen' = seen
  BY <1>2, <1>3, SeenStaysGood DEF VersionsNeverRegress
<1>4. CASE seen' = seen \cup Kept(p) /\ (Get(p) \/ RedoUnlink(p))
  <2>1. pc[p] # "idle" /\ call[p] # Idle
    BY <1>4 DEF Get, RedoUnlink, WorkIsSound
  <2>2. \A v \in Kept(p) : v.name \in Name \ Deletable /\ v.version = Version(v.name)
    BY <2>1, CallTyped DEF Kept
  <2>3. \A name \in Name : Version(name) = Current(name)'
    BY <1>4 DEF Get, RedoUnlink, files, WorkIsSound, Current, Version, Generation
  <2>4. \A v \in Kept(p) : v.version = Current(v.name)' /\ v.version.generation \in Nat
    BY <2>2, <2>3, VersionTyped, MaxGenAssumption
  <2>5. ASSUME NEW v \in seen'
        PROVE  /\ v.version.generation <= Current(v.name)'.generation
               /\ v.version.generation = Current(v.name)'.generation => v.version = Current(v.name)'
    BY <1>2, <1>4, <2>4, SeenStaysGood
  <2> QED BY <2>5 DEF VersionsNeverRegress
<1> QED BY <1>1, <1>3, <1>4
        DEF Begin, Lock, Redo, RedoContent, RedoGeneration, RedoUnlink, Operate, Get, PutLoses,
            PutWins, DeleteGeneration, DeleteContent, Crash

\* A winner is told of a version higher than any that was told before.
LEMMA StepKeepsWinners ==
  ASSUME IInv, Next
  PROVE  /\ OneWinnerPerVersion'
         /\ (\A a \in acked : a[2] \in seen)'
         /\ OwnJournal'
<1> USE DEF IInv
<1>1. PICK p \in Proc : Begin(p) \/ Lock(p) \/ Redo(p) \/ Operate(p) \/ Crash(p)
  BY DEF Next
<1>2. CASE RedoUnlink(p) /\ resume[p] # "operate"
  <2>1. /\ pc[p] = "redo_unlink" /\ journal # NoJournal /\ call[p] # Idle
        /\ resume[p] = "return"
        /\ seen' = seen \cup Kept(p) /\ acked' = acked \cup ({p} \X Kept(p))
    BY <1>2 DEF RedoUnlink, WorkIsSound, Redoing, TypeOK
  <2>2. /\ call[p].name = journal.name
        /\ \A a \in acked :
             a[2].name = journal.name => a[2].version.generation <= journal.expected
    BY <2>1 DEF OwnJournal, Redoing
  <2>3. journal.name \in Name /\ journal.expected \in Nat /\ journal.data \in Data
    BY <2>1, JournalTyped
  <2>4. Version(journal.name).generation = journal.expected + 1
    <3>1. content[journal.name] = journal.data /\ genFile[journal.name] = journal.expected + 1
      BY <2>1 DEF WorkIsSound
    <3> QED BY <2>3, <3>1, NoDataAssumption DEF Version, Generation
  <2>5. \A k \in Kept(p) : /\ k = [name |-> journal.name, version |-> Version(journal.name)]
                            /\ k.name = journal.name
                            /\ k.version.generation = journal.expected + 1
    BY <2>2, <2>4 DEF Kept
  <2>6. \A a \in acked : a[2].name = journal.name =>
                           /\ a[2].version.generation <= journal.expected
                           /\ a[2].version.generation \in Nat
    BY <2>2, MaxGenAssumption DEF TypeOK, Versions
  <2>7. \A a \in acked, k \in Kept(p) :
          a[2].name = k.name => a[2].version.generation # k.version.generation
    BY <2>3, <2>5, <2>6
  <2>8. \A b \in {p} \X Kept(p) : b[1] = p /\ b[2] \in Kept(p) /\ b = <<b[1], b[2]>>
    OBVIOUS
  <2>9. ASSUME NEW a \in acked', NEW b \in acked', a[2].name = b[2].name,
               a[2].version.generation = b[2].version.generation
        PROVE  a = b
    <3>1. CASE a \in acked /\ b \in acked
      BY <2>9, <3>1 DEF OneWinnerPerVersion
    <3>2. CASE a \in {p} \X Kept(p) /\ b \in {p} \X Kept(p)
      BY <3>2, <2>5, <2>8
    <3>3. CASE a \in acked /\ b \in {p} \X Kept(p)
      BY <2>7, <2>8, <2>9, <3>3
    <3>4. CASE a \in {p} \X Kept(p) /\ b \in acked
      BY <2>7, <2>8, <2>9, <3>4
    <3> QED BY <2>1, <3>1, <3>2, <3>3, <3>4
  <2>10. \A q \in Proc : pc'[q] \notin Redoing
    <3>1. \A q \in Proc : q # p => pc[q] \notin Redoing
      BY <2>1, OthersWait DEF Holding, Redoing
    <3> QED BY <1>2, <3>1 DEF RedoUnlink, Return, Goto, TypeOK, Redoing
  <2> QED BY <2>1, <2>8, <2>9, <2>10 DEF OneWinnerPerVersion, OwnJournal
<1>3. CASE PutWins(p)
  <2>1. acked' = acked /\ seen' = seen /\ call' = call
    BY <1>3 DEF PutWins
  <2>2. \A q \in Proc : q # p => pc'[q] \notin Redoing
    BY <1>3, OthersWait DEF PutWins, Goto, TypeOK, Holding, Redoing
  <2>3. journal'.name = call[p].name /\ journal'.expected = Current(call[p].name).generation
    BY <1>3, PutMakesNext
  <2>4. \A a \in acked : a[2].name = journal'.name =>
                           a[2].version.generation <= journal'.expected
    BY <2>3 DEF VersionsNeverRegress
  <2>5. OwnJournal'
    BY <2>1, <2>2, <2>3, <2>4 DEF OwnJournal
  <2> QED BY <2>1, <2>5 DEF OneWinnerPerVersion
<1>4. CASE Lock(p) \/ Begin(p) \/ Crash(p)
  <2>1. /\ acked' = acked /\ seen' = seen /\ journal' = journal
        /\ \A q \in Proc : q # p => pc'[q] = pc[q] /\ resume'[q] = resume[q] /\ call'[q] = call[q]
        /\ ~(pc'[p] \in Redoing /\ resume'[p] = "return")
    BY <1>4 DEF Lock, Begin, Crash, Goto, files, TypeOK, Redoing
  <2> QED BY <2>1 DEF OneWinnerPerVersion, OwnJournal
<1>5. CASE RedoContent(p) \/ RedoGeneration(p)
  <2>1. /\ acked' = acked /\ seen' = seen /\ journal' = journal /\ resume' = resume /\ call' = call
        /\ \A q \in Proc : pc'[q] \in Redoing => pc[q] \in Redoing
    BY <1>5 DEF RedoContent, RedoGeneration, Goto, TypeOK, Redoing
  <2> QED BY <2>1 DEF OneWinnerPerVersion, OwnJournal
<1>6. CASE \/ RedoUnlink(p) /\ resume[p] = "operate"
           \/ Get(p) \/ PutLoses(p) \/ DeleteGeneration(p) \/ DeleteContent(p)
  <2>1. acked' = acked /\ seen \subseteq seen'
    BY <1>6 DEF RedoUnlink, Get, PutLoses, DeleteGeneration, DeleteContent
  <2>2. pc[p] \in Holding
    BY <1>6 DEF RedoUnlink, Get, PutLoses, DeleteGeneration, DeleteContent, Holding, Redoing
  <2>3. \A q \in Proc : q # p => pc[q] \notin Redoing
    BY <2>2, OthersWait DEF Holding
  <2>4. \A q \in Proc : pc'[q] \notin Redoing
    BY <1>6, <2>3 DEF RedoUnlink, Get, PutLoses, DeleteGeneration, DeleteContent, Return, Goto,
                      TypeOK, Redoing
  <2> QED BY <2>1, <2>4 DEF OneWinnerPerVersion, OwnJournal
<1> QED BY <1>1, <1>2, <1>3, <1>4, <1>5, <1>6 DEF Redo, Operate

-----------------------------------------------------------------------------
(* Theorems *)

LEMMA StepKeepsIInv == IInv /\ [Next]_vars => IInv'
<1> SUFFICES ASSUME IInv, [Next]_vars PROVE IInv'
  OBVIOUS
<1>1. CASE Next
  BY <1>1, StepKeepsTypes, StepKeepsLock, StepKeepsRecovery, StepKeepsWork, StepKeepsSeen,
     StepKeepsWinners DEF IInv
<1>2. CASE UNCHANGED vars
  <2>1. UNCHANGED <<content, genFile, journal, lock, pc, call, resume, seen, acked>>
    BY <1>2 DEF vars, files
  <2>2. TypeOK' /\ RecoveryNeverRefuses'
    BY <2>1 DEF IInv, TypeOK, RecoveryNeverRefuses, Matches, Generation
  <2>3. LockIsHeld' /\ WorkIsSound' /\ OwnJournal' /\ OneWinnerPerVersion'
    BY <2>1 DEF IInv, LockIsHeld, WorkIsSound, OwnJournal, OneWinnerPerVersion
  <2>4. VersionsNeverRegress'
    BY <2>1 DEF IInv, VersionsNeverRegress, Current, Version, Generation
  <2> QED BY <2>1, <2>2, <2>3, <2>4 DEF IInv
<1> QED BY <1>1, <1>2

\* The inductive invariant of the store (pod_commit_log.py, LocalObjectStore):
\* files and journal fit together at every step a process may die at.
THEOREM InvariantHolds == Spec => []IInv
<1>1. Init => IInv
  BY InitIsSound
<1>2. IInv /\ [Next]_vars => IInv'
  BY StepKeepsIInv
<1> QED BY <1>1, <1>2, PTL DEF Spec

\* _recover_pending_write never refuses the files that the store's own crashes
\* leave behind, and _read_pair never finds a generation without content.
THEOREM CrashesAreRecovered == Spec => []RecoveryNeverRefuses
<1>1. IInv => RecoveryNeverRefuses
  BY DEF IInv
<1> QED BY <1>1, InvariantHolds, PTL

\* A version that a caller was given is not taken back by a crash or a recovery.
THEOREM VersionsStay == Spec => []VersionsNeverRegress
<1>1. IInv => VersionsNeverRegress
  BY DEF IInv
<1> QED BY <1>1, InvariantHolds, PTL

\* Two writers are never both told that they made the same version.
THEOREM OneWriterWins == Spec => []OneWinnerPerVersion
<1>1. IInv => OneWinnerPerVersion
  BY DEF IInv
<1> QED BY <1>1, InvariantHolds, PTL

-----------------------------------------------------------------------------
(* The pair of files implements the versioned object. *)

LEMMA InitMaps == Init => Store!Init
<1> SUFFICES ASSUME Init, NEW name \in Name
             PROVE  Current(name) \in {[data |-> NoData, generation |-> 0]}
                                       \cup [data : Data, generation : {1}]
  BY DEF Store!Init, Store!Absent, Versioned
<1>1. Current(name) = Version(name)
  BY DEF Init, Current
<1>2. CASE content[name] = NoData
  BY <1>1, <1>2 DEF Init, Version, Generation
<1>3. CASE content[name] # NoData
  BY <1>1, <1>3 DEF Init, Version, Generation
<1> QED BY <1>2, <1>3

LEMMA VersionedIsKept ==
  ASSUME \A name \in Name : Current(name)' = Current(name)
  PROVE  Versioned' = Versioned
BY DEF Versioned

LEMMA VersionedChanges ==
  ASSUME NEW name \in Name, NEW version, Current(name)' = version,
         \A other \in Name : other # name => Current(other)' = Current(other)
  PROVE  Versioned' = [Versioned EXCEPT ![name] = version]
BY DEF Versioned

LEMMA StepMaps ==
  ASSUME IInv, Next
  PROVE  Store!Next \/ Versioned' = Versioned
<1>1. PICK p \in Proc : Begin(p) \/ Lock(p) \/ Redo(p) \/ Operate(p) \/ Crash(p)
  BY DEF Next
<1>2. CASE Redo(p)
  BY <1>2, RedoKeepsCurrent, VersionedIsKept
<1>3. CASE Begin(p) \/ Lock(p) \/ Get(p) \/ PutLoses(p) \/ Crash(p)
  BY <1>3, SameFilesKeepCurrent, VersionedIsKept DEF Begin, Lock, Get, PutLoses, Crash
<1>4. CASE PutWins(p)
  <2> DEFINE name == call[p].name
             data == call[p].data
  <2>1. name' = name
    BY <1>4 DEF PutWins
  <2>2. name \in Name /\ data \in Data
    BY <1>4, PutMakesNext
  <2>3. Current(name)' = [data |-> data, generation |-> Versioned[name].generation + 1]
    BY <1>4, <2>1, <2>2, PutMakesNext DEF Versioned
  <2>4. \A other \in Name : other # name => Current(other)' = Current(other)
    BY <1>4, PutMakesNext
  <2>5. Store!CompareAndSwap(name, data)
    BY <2>1, <2>2, <2>3, <2>4, VersionedChanges DEF Store!CompareAndSwap
  <2> QED BY <2>2, <2>5 DEF Store!Next
<1>5. CASE DeleteGeneration(p)
  <2> DEFINE name == call[p].name
  <2>1. name' = name
    BY <1>5 DEF DeleteGeneration
  <2>2. name \in Name
    BY <1>5, DeleteGenerationForgets, NamesAssumption
  <2>3. \A other \in Name : other # name => Current(other)' = Current(other)
    BY <1>5, DeleteGenerationForgets
  <2>4. CASE Current(name)' = Current(name)
    BY <2>1, <2>3, <2>4, VersionedIsKept
  <2>5. CASE /\ Current(name).generation > 1
             /\ Current(name)' = [data |-> Current(name).data, generation |-> 1]
    <3>1. PICK n \in Name : n = name
      BY <2>2
    <3>2. PICK d, g : Current(n) = [data |-> d, generation |-> g]
      BY DEF Current, Version
    <3>3. Current(n)' = [data |-> d, generation |-> 1]
      BY <2>1, <2>5, <3>1, <3>2
    <3>4. Versioned' = [Versioned EXCEPT ![n] = [data |-> d, generation |-> 1]]
      BY <2>2, <2>3, <3>1, <3>3, VersionedChanges
    <3>5. Versioned[n] = [data |-> d, generation |-> g] /\ g > 1
      BY <2>2, <2>5, <3>1, <3>2 DEF Versioned
    <3>6. [Versioned[n] EXCEPT !.generation = 1] = [data |-> d, generation |-> 1]
      BY <3>5
    <3>7. Versioned' = [Versioned EXCEPT ![n].generation = 1]
      BY <3>4, <3>6
    <3>8. Store!Forget(n)
      BY <3>5, <3>7 DEF Store!Forget
    <3> QED BY <3>8 DEF Store!Next
  <2> QED BY <1>5, <2>4, <2>5, DeleteGenerationForgets
<1>6. CASE DeleteContent(p)
  <2>1. PICK name : name = call[p].name
    OBVIOUS
  <2>2. name \in Name
    BY <1>6, <2>1, DeleteContentRemoves, NamesAssumption
  <2>3. \A other \in Name : other # name => Current(other)' = Current(other)
    BY <1>6, <2>1, DeleteContentRemoves
  <2>4. CASE Current(name)' = Current(name)
    BY <2>3, <2>4, VersionedIsKept
  <2>5. CASE /\ Current(name).generation = 1
             /\ Current(name)' = [data |-> NoData, generation |-> 0]
    <3>1. Store!Delete(name)
      BY <2>2, <2>3, <2>5, VersionedChanges DEF Store!Delete, Store!Absent, Versioned
    <3> QED BY <2>2, <3>1 DEF Store!Next
  <2> QED BY <1>6, <2>1, <2>4, <2>5, DeleteContentRemoves
<1> QED BY <1>1, <1>2, <1>3, <1>4, <1>5, <1>6 DEF Operate

\* LocalObjectStore keeps the promise of ObjectStore: every write is one step
\* that makes the next version, although it takes four file operations and may
\* be finished by another process.
THEOREM ImplementsCasStore == Spec => StoreSpec
<1>1. Init => Store!Init
  BY InitMaps
<1>2. IInv /\ [Next]_vars => [Store!Next]_Versioned
  <2> SUFFICES ASSUME IInv, [Next]_vars PROVE Store!Next \/ Versioned' = Versioned
    OBVIOUS
  <2>1. CASE Next
    BY <2>1, StepMaps
  <2>2. CASE UNCHANGED vars
    BY <2>2, SameFilesKeepCurrent, VersionedIsKept DEF vars, files
  <2> QED BY <2>1, <2>2
<1> QED BY <1>1, <1>2, InvariantHolds, PTL DEF Spec, StoreSpec, Store!Spec
=============================================================================
