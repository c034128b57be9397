--------------------------- MODULE MCCoreInvoices ---------------------------
(* Instances of CoreInvoices: two invoices that want the same order line,   *)
(* the lifecycle of the first and its conflicts with a later snapshot, each *)
(* command at the invoice versions where it meets the others.               *)
EXTENDS CoreInvoices

MCNone == "none"
MCSourceOf == [l \in OrderLine |-> "s1"]
MCLater == [s \in Snapshot |-> IF s = "s1" THEN {"s2"} ELSE {}]

Create(i, lines, key) ==
  {[kind |-> "creation", id |-> i, invoice |-> i, conflict |-> None, expected_version |-> 0,
    key |-> key, lines |-> lines, source |-> None, imported |-> None]}

Transition(kind, id, key, versions) ==
  [kind : {kind}, id : {id}, invoice : {"i1"}, conflict : {None}, expected_version : versions,
   key : {key}, lines : {{}}, source : {None}, imported : {None}]

Raise(k, source, imported, key, versions) ==
  [kind : {"evidence_conflict"}, id : {k}, invoice : {"i1"}, conflict : {k},
   expected_version : versions, key : {key}, lines : {{}},
   source : {source}, imported : {imported}]

Resolve(id, k, key, versions) ==
  [kind : {"conflict_resolution"}, id : {id}, invoice : {None}, conflict : {k},
   expected_version : versions, key : {key}, lines : {{}}, source : {None}, imported : {None}]

(* i2 wants line l2 of i1, a line that does not exist, or the key of i1.    *)
Creations ==
  Create("i1", {"l1", "l2"}, "k1") \cup Create("i2", {"l2"}, "k2")
  \cup Create("i2", {"l9"}, "k3") \cup Create("i2", {"l3"}, "k1")

Lifecycle ==
  Transition("review_submission", "e1", "k4", {1, 2})
  \cup Transition("approval", "e2", "k5", {1, 2, 3})
  \cup Transition("cancellation", "e3", "k6", {1, 3})

(* The same conflict twice, one with evidence that is not later, and two    *)
(* resolutions.                                                             *)
Conflicts ==
  Raise("x1", "s1", "s2", "k7", {1}) \cup Raise("x2", "s1", "s2", "k8", {2})
  \cup Raise("x1", "s2", "s1", "k9", {1})
  \cup Resolve("e4", "x1", "k10", {2, 3}) \cup Resolve("e5", "x1", "k11", {2, 3})

InvoiceRequests == Creations \cup Lifecycle \cup Conflicts

(* What the future and the properties depend on: the command of an idle     *)
(* connection is overwritten before it is read, and only one that was told  *)
(* "ok" is remembered by a property.                                        *)
Relevant == <<tables, pc, [c \in Conn |-> reply[c] = "ok"],
              [c \in Conn |-> IF pc[c] = "idle" /\ reply[c] # "ok" THEN {} ELSE {cmd[c]}]>>
=============================================================================
