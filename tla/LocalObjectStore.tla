-------------------------- MODULE LocalObjectStore --------------------------
(***************************************************************************)
(* The object store on one machine's disk (LocalObjectStore in             *)
(* hushh_mcp/services/pod_commit_log.py).  An object is a pair of files,   *)
(* its content and its generation, which no file system replaces at once.  *)
(* A redo journal makes the pair atomic, and a lock file makes every       *)
(* operation exclusive; whoever takes the lock first finishes what the     *)
(* journal says, because its writer may have died.                         *)
(*                                                                         *)
(* A step is one replacement or removal of a file.  A process may die      *)
(* before any of them (a failed file operation leaves the same files); the *)
(* operating system then drops its lock.                                   *)
(***************************************************************************)
EXTENDS Naturals

CONSTANTS
  Proc,        \* processes (or coroutines) that use the store
  Name,        \* object keys
  Deletable,   \* those that callers delete
  Data,        \* what an object can hold
  NoData,      \* there is no content file
  NoJournal,   \* there is no journal
  Free,        \* nobody holds the lock
  MaxGen       \* bound of the model: the highest generation

ASSUME NamesAssumption == Deletable \subseteq Name
ASSUME NoDataAssumption == NoData \notin Data
ASSUME FreeAssumption == Free \notin Proc
ASSUME MaxGenAssumption == MaxGen \in Nat \ {0}

VARIABLES
  content,     \* the content file of each object
  genFile,     \* its .gen file, 0 if there is none
  journal,     \* .pending-write.json
  lock,        \* who holds .lock
  pc,          \* where each process stands
  call,        \* its operation and arguments
  resume,      \* where it goes on after redoing the journal
  seen,        \* history: the versions that were returned to a caller
  acked        \* history: the process and the version, where a writer was told
               \* that it won (both for the objects that nobody deletes)

files == <<content, genFile, journal>>
vars == <<files, lock, pc, call, resume, seen, acked>>

-----------------------------------------------------------------------------
Operation ==
  [op : {"get"}, name : Name] \cup
  [op : {"delete"}, name : Deletable] \cup
  [op : {"put"}, name : Name, data : Data, expected : 0 .. MaxGen - 1]

Idle == [op |-> "none"]

Journal == [name : Name, data : Data, expected : 0 .. MaxGen - 1,
            old : Data \cup {NoData}]

ASSUME NoJournalAssumption == NoJournal \notin Journal

Pc == {"idle", "waiting", "operate", "redo_content", "redo_generation",
       "redo_unlink", "delete_content"}

\* The generation that _read_pair returns: content without a .gen file is a
\* first version from before generations were kept.
Generation(name) ==
  IF content[name] = NoData THEN 0
  ELSE IF genFile[name] = 0 THEN 1
  ELSE genFile[name]

Version(name) == [data |-> content[name], generation |-> Generation(name)]

\* The checks of _recover_pending_write: the old pair, the interrupted pair or
\* the completed new pair.
Matches(j) ==
  \/ /\ Generation(j.name) = j.expected
     /\ content[j.name] \in {j.old, j.data}
  \/ /\ Generation(j.name) = j.expected + 1
     /\ content[j.name] = j.data

\* What the histories keep of the version that p is about to return
Kept(p) ==
  {[name |-> name, version |-> Version(name)] : name \in {call[p].name} \ Deletable}

Goto(p, label) == pc' = [pc EXCEPT ![p] = label]

Return(p) ==
  /\ Goto(p, "idle")
  /\ lock' = Free
  /\ call' = [call EXCEPT ![p] = Idle]
  /\ resume' = [resume EXCEPT ![p] = "idle"]

-----------------------------------------------------------------------------
Begin(p) ==
  \E operation \in Operation :
    /\ pc[p] = "idle"
    /\ Goto(p, "waiting")
    /\ call' = [call EXCEPT ![p] = operation]
    /\ UNCHANGED <<files, lock, resume, seen, acked>>

\* Mutation: the lock is taken without a look at the journal.
LockOnly(p) ==
  /\ pc[p] = "waiting"
  /\ lock = Free
  /\ lock' = p
  /\ Goto(p, "operate")
  /\ resume' = [resume EXCEPT ![p] = "operate"]
  /\ UNCHANGED <<files, call, seen, acked>>

Lock(p) ==
  /\ pc[p] = "waiting"
  /\ lock = Free
  /\ lock' = p
  /\ Goto(p, IF journal = NoJournal THEN "operate" ELSE "redo_content")
  /\ resume' = [resume EXCEPT ![p] = "operate"]
  /\ UNCHANGED <<files, call, seen, acked>>

\* Mutation: the generation is replaced first.
RedoGenerationFirst(p) ==
  /\ pc[p] = "redo_content"
  /\ Matches(journal)
  /\ genFile' = [genFile EXCEPT ![journal.name] = journal.expected + 1]
  /\ Goto(p, "redo_generation")
  /\ UNCHANGED <<content, journal, lock, call, resume, seen, acked>>

RedoContent(p) ==
  /\ pc[p] = "redo_content"
  /\ Matches(journal)
  /\ content' = [content EXCEPT ![journal.name] = journal.data]
  /\ Goto(p, "redo_generation")
  /\ UNCHANGED <<genFile, journal, lock, call, resume, seen, acked>>

RedoGeneration(p) ==
  /\ pc[p] = "redo_generation"
  /\ genFile' = [genFile EXCEPT ![journal.name] = journal.expected + 1]
  /\ Goto(p, "redo_unlink")
  /\ UNCHANGED <<content, journal, lock, call, resume, seen, acked>>

\* The journal is removed, and the process goes on to its own operation, or
\* returns, if the journal was its own.
RedoUnlink(p) ==
  /\ pc[p] = "redo_unlink"
  /\ journal' = NoJournal
  /\ IF resume[p] = "operate"
       THEN /\ Goto(p, "operate")
            /\ UNCHANGED <<lock, call, resume, seen, acked>>
       ELSE /\ Return(p)
            /\ seen' = seen \cup Kept(p)
            /\ acked' = acked \cup ({p} \X Kept(p))
  /\ UNCHANGED <<content, genFile>>

Get(p) ==
  /\ pc[p] = "operate"
  /\ call[p].op = "get"
  /\ Return(p)
  /\ seen' = seen \cup Kept(p)
  /\ UNCHANGED <<files, acked>>

\* Mutation: a lost race leaves without releasing the lock.
PutLosesLocked(p) ==
  /\ pc[p] = "operate"
  /\ call[p].op = "put"
  /\ Generation(call[p].name) # call[p].expected
  /\ Goto(p, "idle")
  /\ UNCHANGED <<files, lock, call, resume, seen, acked>>

\* A lost race of put_if_generation (None), or the refusal of put, which
\* expects generation 0
PutLoses(p) ==
  /\ pc[p] = "operate"
  /\ call[p].op = "put"
  /\ Generation(call[p].name) # call[p].expected
  /\ Return(p)
  /\ UNCHANGED <<files, seen, acked>>

\* Mutation: the generation is not compared, and the caller's is taken.
PutUnchecked(p) ==
  /\ pc[p] = "operate"
  /\ call[p].op = "put"
  /\ journal' = [name |-> call[p].name, data |-> call[p].data,
                 expected |-> call[p].expected, old |-> content[call[p].name]]
  /\ Goto(p, "redo_content")
  /\ resume' = [resume EXCEPT ![p] = "return"]
  /\ UNCHANGED <<content, genFile, lock, call, seen, acked>>

PutWins(p) ==
  /\ pc[p] = "operate"
  /\ call[p].op = "put"
  /\ Generation(call[p].name) = call[p].expected
  /\ journal' = [name |-> call[p].name, data |-> call[p].data,
                 expected |-> call[p].expected, old |-> content[call[p].name]]
  /\ Goto(p, "redo_content")
  /\ resume' = [resume EXCEPT ![p] = "return"]
  /\ UNCHANGED <<content, genFile, lock, call, seen, acked>>

\* Mutation: the content is removed first.
DeleteContentFirst(p) ==
  /\ pc[p] = "operate"
  /\ call[p].op = "delete"
  /\ content' = [content EXCEPT ![call[p].name] = NoData]
  /\ Goto(p, "delete_content")
  /\ UNCHANGED <<genFile, journal, lock, call, resume, seen, acked>>

DeleteGeneration(p) ==
  /\ pc[p] = "operate"
  /\ call[p].op = "delete"
  /\ genFile' = [genFile EXCEPT ![call[p].name] = 0]
  /\ Goto(p, "delete_content")
  /\ UNCHANGED <<content, journal, lock, call, resume, seen, acked>>

DeleteContent(p) ==
  /\ pc[p] = "delete_content"
  /\ content' = [content EXCEPT ![call[p].name] = NoData]
  /\ Return(p)
  /\ UNCHANGED <<genFile, journal, seen, acked>>

Crash(p) ==
  /\ pc[p] # "idle"
  /\ Goto(p, "idle")
  /\ lock' = IF lock = p THEN Free ELSE lock
  /\ call' = [call EXCEPT ![p] = Idle]
  /\ resume' = [resume EXCEPT ![p] = "idle"]
  /\ UNCHANGED <<files, seen, acked>>

-----------------------------------------------------------------------------
\* Files may be there from before generations were kept.
Init ==
  /\ content \in [Name -> Data \cup {NoData}]
  /\ genFile = [name \in Name |-> 0]
  /\ journal = NoJournal
  /\ lock = Free
  /\ pc = [p \in Proc |-> "idle"]
  /\ call = [p \in Proc |-> Idle]
  /\ resume = [p \in Proc |-> "idle"]
  /\ acked = {}
  /\ seen = {}

Redo(p) == RedoContent(p) \/ RedoGeneration(p) \/ RedoUnlink(p)

Operate(p) ==
  \/ Get(p) \/ PutLoses(p) \/ PutWins(p)
  \/ DeleteGeneration(p) \/ DeleteContent(p)

Next == \E p \in Proc : Begin(p) \/ Lock(p) \/ Redo(p) \/ Operate(p) \/ Crash(p)

Spec == Init /\ [][Next]_vars

-----------------------------------------------------------------------------
(* Correctness *)

Versions == [name : Name \ Deletable, version : [data : Data \cup {NoData}, generation : 0 .. MaxGen]]

\* Every variable has its type.
TypeOK ==
  /\ content \in [Name -> Data \cup {NoData}]
  /\ genFile \in [Name -> 0 .. MaxGen]
  /\ journal \in Journal \cup {NoJournal}
  /\ lock \in Proc \cup {Free}
  /\ pc \in [Proc -> Pc]
  /\ call \in [Proc -> Operation \cup {Idle}]
  /\ resume \in [Proc -> {"idle", "operate", "return"}]
  /\ seen \subseteq Versions
  /\ acked \subseteq Proc \X Versions

\* No crash makes the store refuse its own files: a journal always matches the
\* pair it is about to replace, whichever of its steps were done and however
\* often they were, and no generation is left without content.
RecoveryNeverRefuses ==
  /\ journal # NoJournal => Matches(journal)
  /\ \A name \in Name : genFile[name] # 0 => content[name] # NoData

\* The version that the next reader will find: a journal is as good as done.
Current(name) ==
  IF journal # NoJournal /\ journal.name = name
    THEN [data |-> journal.data, generation |-> journal.expected + 1]
    ELSE Version(name)

\* For an object that nobody deletes, a version that was returned to any caller
\* is never taken back: later versions replace it, and its number always means
\* the same content.
VersionsNeverRegress ==
  \A v \in seen :
    /\ v.version.generation <= Current(v.name).generation
    /\ v.version.generation = Current(v.name).generation => v.version = Current(v.name)

\* Of the writers that race for the next version of an object that nobody
\* deletes, one at most is told that it won.
OneWinnerPerVersion ==
  \A a, b \in acked :
    (/\ a[2].name = b[2].name
     /\ a[2].version.generation = b[2].version.generation) => a = b

-----------------------------------------------------------------------------
\* The pair of files implements an atomic versioned object.
Versioned == [name \in Name |-> Current(name)]

Store == INSTANCE CasStore WITH object <- Versioned

StoreSpec == Store!Spec

-----------------------------------------------------------------------------
(* The inductive invariant *)

Redoing == {"redo_content", "redo_generation", "redo_unlink"}

Holding == Redoing \cup {"operate", "delete_content"}

\* The process that holds the lock is the one at work.
LockIsHeld == \A p \in Proc : pc[p] \in Holding <=> lock = p

\* Its call, and the journal that it redoes or has found redone
WorkIsSound ==
  \A p \in Proc :
    /\ pc[p] # "idle" => call[p] # Idle
    /\ pc[p] \in Redoing => journal # NoJournal /\ resume[p] # "idle"
    /\ pc[p] \in {"operate", "delete_content"} => journal = NoJournal
    /\ pc[p] = "redo_generation" => content[journal.name] = journal.data
    /\ pc[p] = "redo_unlink" => /\ content[journal.name] = journal.data
                                /\ genFile[journal.name] = journal.expected + 1
    /\ pc[p] = "delete_content" => /\ call[p].op = "delete"
                                   /\ genFile[call[p].name] = 0

\* A writer that redoes its own journal has not been answered for it.
OwnJournal ==
  \A p \in Proc :
    pc[p] \in Redoing /\ resume[p] = "return" =>
      /\ call[p].name = journal.name
      /\ \A a \in acked :
           a[2].name = journal.name => a[2].version.generation <= journal.expected

IInv ==
  /\ TypeOK
  /\ RecoveryNeverRefuses
  /\ LockIsHeld
  /\ WorkIsSound
  /\ VersionsNeverRegress
  /\ \A a \in acked : a[2] \in seen
  /\ OwnJournal
  /\ OneWinnerPerVersion
=============================================================================
