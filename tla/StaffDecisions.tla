--------------------------- MODULE StaffDecisions ---------------------------
(***************************************************************************)
(* What the Core catalogues promise to staff about the snapshots they      *)
(* import: a value that staff decided stays what staff decided, and is     *)
(* what the activity log last recorded for it, until staff decide again.   *)
(* Anything else may change with a snapshot.                               *)
(***************************************************************************)
EXTENDS Naturals, Sequences

CONSTANTS
  Datum,   \* what a catalogue keeps: a price, a field, a flag
  Absent   \* the value of a datum that does not exist yet

VARIABLES
  value,     \* value[k]
  decided,   \* the data that imports may no longer touch
  recorded   \* recorded[k]: the values the activity log has for k

catalogue == <<value, decided, recorded>>

Init == \A k \in Datum :
  recorded[k] # <<>> => k \in decided /\ value[k] = recorded[k][Len(recorded[k])]

Kept(k) ==
  /\ recorded'[k] = recorded[k]
  /\ k \in decided => k \in decided' /\ value'[k] = value[k]

(* The entry that records a creation need not repeat the values.            *)
Decide(k) ==
  LET n == Len(recorded[k]) + 1 IN
  /\ Len(recorded'[k]) = n
  /\ SubSeq(recorded'[k], 1, n - 1) = recorded[k]
  /\ value[k] = Absent \/ recorded'[k][n] = value'[k]
  /\ k \in decided'

Next == \A k \in Datum : Kept(k) \/ Decide(k)

Spec == Init /\ [][Next]_catalogue
=============================================================================
