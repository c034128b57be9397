---------------------------- MODULE MCCoreOrders ----------------------------
(* Instances of CoreOrders: orders that share identities, keys, lines and   *)
(* sources, and a plan for one of them.                                     *)
EXTENDS CoreOrders

AskOrder(id, by, key, lines) ==
  [kind |-> "order", row |-> [id |-> id, by |-> by, key |-> key, lines |-> lines]]
AskPlan(id, by, key, order) ==
  [kind |-> "plan", row |-> [id |-> id, by |-> by, key |-> key, order |-> order]]
M(line, source) == [line |-> line, source |-> source]

(* "s0" has no positive quantity; the lines of the second order are not in   *)
(* the order a replay reads them back in.                                    *)
Rivals == {
  AskOrder("o1", "ann", "k1", <<M(1, "s1"), M(2, "s2")>>),
  AskOrder("o1", "ann", "k1", <<M(2, "s2"), M(1, "s1")>>),
  AskOrder("o1", "ann", "k1", <<M(1, "s1"), M(2, "s0")>>),
  AskOrder("o1", "ann", "k1", <<M(1, "s1")>>),
  AskOrder("o2", "ann", "k1", <<M(3, "s1")>>),
  AskOrder("o2", "ben", "k2", <<M(2, "s2")>>),
  AskOrder("o2", "ben", "k3", <<M(3, "s1"), M(3, "s2")>>),
  AskPlan("p1", "ann", "k4", "o1"), AskPlan("p1", "ann", "k4", "o2"),
  AskPlan("p1", "ben", "k5", "o1")}
=============================================================================
