---------------------------- MODULE AdmissionGate ----------------------------
(***************************************************************************)
(* What the admission of a pod promises to whoever updates or moves it,    *)
(* with no log, process or retry in sight: one operation at a time closes  *)
(* the gate; turns enter only while it is open, and leave when they like;  *)
(* a closed gate is idle, and opens again, only when no turn is inside.    *)
(*                                                                         *)
(* UpgradeAdmission implements this specification on stores that settle    *)
(* before they are read, and PodMigration takes a pod's gate at this level.*)
(***************************************************************************)
CONSTANTS
  Turn,         \* who may be inside
  Operation,
  NoOperation   \* the gate is open

VARIABLES
  holder,   \* the operation that closed the gate, or NoOperation
  idle,     \* the gate was declared idle for the holder
  inside    \* the turns at work

Init == holder = NoOperation /\ idle = FALSE /\ inside = {}

Enter(t) ==
  /\ holder = NoOperation
  /\ inside' = inside \cup {t}
  /\ UNCHANGED <<holder, idle>>

\* One turn returns, or all of them die with their process.
Leave ==
  /\ inside' \in SUBSET inside
  /\ UNCHANGED <<holder, idle>>

Holds(operation) == holder \in {NoOperation, operation} /\ holder' = operation

Close(operation) == Holds(operation) /\ UNCHANGED <<idle, inside>>

\* The declaration closes a gate that was opened in the meantime.
DeclareIdle(operation) ==
  /\ Holds(operation)
  /\ inside = {}
  /\ idle' = TRUE
  /\ UNCHANGED inside

Reopen ==
  /\ inside = {}
  /\ holder' = NoOperation /\ idle' = FALSE
  /\ UNCHANGED inside

Next ==
  \/ \E t \in Turn : Enter(t)
  \/ Leave \/ Reopen
  \/ \E operation \in Operation : Close(operation) \/ DeclareIdle(operation)

Spec == Init /\ [][Next]_<<holder, idle, inside>>
==============================================================================
