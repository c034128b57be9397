------------------------- MODULE MCInvoiceWorkflow -------------------------
(* Instances of InvoiceWorkflow: documents of two base invoices of one      *)
(* customer and year, so that references, numbers and the base are          *)
(* contended; each command at the document versions where it meets others.  *)
EXTENDS InvoiceWorkflow

MCBaseLines == [b \in Base |-> IF b = "b1" THEN {"l1", "l2"} ELSE {"l3"}]
Unpriced(lines) == [l \in lines |-> None]
PartlyPriced == [l \in {"l1", "l2"} |-> IF l = "l1" THEN "p1" ELSE None]
FullyPriced(lines) == [l \in lines |-> "p1"]

Create(d, b, prices, key) ==
  {[kind |-> "creation", id |-> d, doc |-> d, line |-> None, price |-> None,
    expected_version |-> 0, key |-> key, number |-> None, base |-> b, customer |-> "c1",
    year |-> 2026, prices |-> prices, original |-> None]}

Correct(d, o, customer, key) ==
  {[r EXCEPT !.base = None, !.original = o, !.customer = customer] :
     r \in Create(d, None, FullyPriced({"l1", "l2"}), key)}

At(kind, id, d, line, price, n, key, versions) ==
  [kind : {kind}, id : {id}, doc : {d}, line : {line}, price : {price},
   expected_version : versions, key : {key}, number : {n}, base : {None},
   customer : {"c1"}, year : {2026}, prices : {Unpriced({})}, original : {None}]

Override(id, d, line, key, versions) == At("temporary_override", id, d, line, "p1", None, key, versions)
Confirm(id, d, n, key, versions) == At("real_confirmation", id, d, None, None, n, key, versions)
Cancel(id, d, key, versions) == At("cancellation", id, d, None, None, None, key, versions)

(* One document priced, confirmed and cancelled; line l3 is not its own, the *)
(* confirmation is repeated with another number, and the one of the second   *)
(* base's document wants the same number.                                    *)
Lifecycle ==
  Create("d1", "b1", PartlyPriced, "k1") \cup Create("d3", "b2", FullyPriced({"l3"}), "k3")
  \cup Override("e1", "d1", "l2", "k6", {1, 2}) \cup Override("e2", "d1", "l3", "k7", {1})
  \cup Confirm("e3", "d1", "n1", "k8", {1, 2}) \cup Confirm("e3", "d1", "n2", "k8", {2})
  \cup Confirm("e7", "d3", "n1", "k12", {1})
  \cup Cancel("e4", "d1", "k9", {1, 3}) \cup Cancel("e5", "d1", "k10", {1, 2})

(* A rival document of the first base, rival corrections of a cancelled      *)
(* document, and a correction of the correction under either customer code.  *)
Corrections ==
  Create("d2", "b1", FullyPriced({"l1", "l2"}), "k2")
  \cup Correct("d2", "d1", "c1", "k4") \cup Correct("d3", "d1", "c1", "k5")
  \cup Correct("d3", "d2", "c1", "k13") \cup Correct("d3", "d2", "c2", "k13")
  \cup Confirm("e8", "d2", "n1", "k14", {1}) \cup Cancel("e6", "d2", "k11", {1})

WorkflowRequests == Lifecycle \cup Corrections

(* What the future and the properties depend on: the command of an idle     *)
(* connection is overwritten before it is read, and only one that was told  *)
(* "ok" is remembered by a property.                                        *)
Relevant == <<tables, pc, [c \in Conn |-> reply[c] = "ok"],
              [c \in Conn |-> IF pc[c] = "idle" /\ reply[c] # "ok" THEN {} ELSE {cmd[c]}]>>
=============================================================================
