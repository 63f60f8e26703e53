--------------------------- MODULE MCRuntimeWriter ---------------------------
(* RuntimeWriter on small sets for TLC. *)
EXTENDS RuntimeWriter

CONSTANTS a, b, initial, update

\* a serves first; b is the revision of the approved update.
MCOperationOf == [r \in Runtime |-> IF r = a THEN initial ELSE update]

\* Turns are followed while the log has room for what they write and for one
\* record of the other runtime behind it.
TurnsFit == turns[a] + turns[b] > 0 => Len(log) + 2 <= MaxLen
=============================================================================
