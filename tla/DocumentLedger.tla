--------------------------- MODULE DocumentLedger ---------------------------
(***************************************************************************)
(* What the P4 workflow promises about billing, without documents, keys,   *)
(* versions or connections: a base invoice is billed by one document at a  *)
(* time, a document becomes real once, under a permanent number no other   *)
(* billing ever had, and only a cancelled billing is started over.         *)
(***************************************************************************)
CONSTANTS Base, Number

VARIABLES
  live,    \* the state of each base invoice's current document
  issued   \* the permanent numbers given out, with the base they bill

ledger == <<live, issued>>

Init == live = [b \in Base |-> "none"] /\ issued = {}

Open(b) ==
  /\ live[b] \in {"none", "cancelled"}
  /\ live' = [live EXCEPT ![b] = "temporary"]
  /\ UNCHANGED issued

Confirm(b, n) ==
  /\ live[b] = "temporary"
  /\ \A a \in Base : <<n, a>> \notin issued
  /\ live' = [live EXCEPT ![b] = "real"]
  /\ issued' = issued \cup {<<n, b>>}

Cancel(b) ==
  /\ live[b] \in {"temporary", "real"}
  /\ live' = [live EXCEPT ![b] = "cancelled"]
  /\ UNCHANGED issued

Next == \E b \in Base : Open(b) \/ Cancel(b) \/ \E n \in Number : Confirm(b, n)

Spec == Init /\ [][Next]_ledger
=============================================================================
