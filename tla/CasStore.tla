------------------------------ MODULE CasStore ------------------------------
(***************************************************************************)
(* What an ObjectStore promises (the protocol class in pod_commit_log.py): *)
(* every object has a version, a write succeeds only against the version   *)
(* its caller expects, in one step, and makes the next one.                *)
(*                                                                         *)
(* LocalObjectStore implements this specification.                         *)
(***************************************************************************)
EXTENDS Naturals

CONSTANTS
  Name,       \* names of objects
  Data,       \* what an object can hold
  NoData      \* an absent object

VARIABLE
  object      \* the current version of every object: data, generation

Absent == [data |-> NoData, generation |-> 0]

\* An object that was stored before generations were kept is at its first one.
Init ==
  object \in [Name -> {Absent} \cup [data : Data, generation : {1}]]

\* A write that wins: the version that its caller expects is the current one.
CompareAndSwap(name, data) ==
  object' = [object EXCEPT ![name] = [data |-> data, generation |-> @.generation + 1]]

\* A delete removes the version, then the object.  One that is cut short
\* leaves the object as a first version.
Forget(name) ==
  /\ object[name].generation > 1
  /\ object' = [object EXCEPT ![name].generation = 1]

Delete(name) ==
  /\ object[name].generation = 1
  /\ object' = [object EXCEPT ![name] = Absent]

Next ==
  \E name \in Name :
    \/ \E data \in Data : CompareAndSwap(name, data)
    \/ Forget(name)
    \/ Delete(name)

Spec == Init /\ [][Next]_object
==============================================================================
