--------------------------- MODULE MCCorePacking ---------------------------
(* Instances of CorePacking: one order of one line (quantity 3), its plan,  *)
(* and commands at the plan versions where they meet each other.            *)
EXTENDS CorePacking

At(kind, id, line, box, quantity, reverses, key, versions) ==
  [kind : {kind}, id : {id}, plan : {"p1"}, line : {line}, box : {box},
   quantity : {quantity}, reverses : {reverses},
   expected_version : versions, key : {key}]

MCNone == "none"
MCLinesOf == [p \in Plan |-> {"l1"}]
MCOriginal == [l \in Line |-> IF l = "l1" THEN 3 ELSE 1]

(* A box, then an allocation and its two rival reversals.                   *)
Rivals ==
  At("box", "b1", "none", "none", 1, "none", "kb1", {0})
  \cup At("allocation", "e1", "l1", "b1", 2, "none", "k1", {0, 1})
  \cup At("reversal", "r1", "none", "none", 0, "e1", "k6", {2})
  \cup At("reversal", "r2", "none", "none", 0, "e1", "k7", {2, 3})

(* b3 wants the number of b1, e4 reuses the key of e1, e5 allocates its line *)
(* again, e3 writes off what e1 may have packed, l2 is another order's.      *)
Contested ==
  At("box", "b3", "none", "none", 1, "none", "kb3", {1})
  \cup At("allocation", "e4", "l1", "b1", 1, "none", "k1", {1})
  \cup At("allocation", "e5", "l1", "b1", 1, "none", "k5", {2, 3})
  \cup At("unavailable", "e3", "l1", "none", 2, "none", "k3", {1, 2})
  \cup At("unavailable", "e8", "l2", "none", 1, "none", "k8", {0})

PackingRequests == Rivals \cup Contested

OverlapRequests ==
  At("box", "b1", "none", "none", 1, "none", "kb1", {0})
  \cup At("allocation", "e1", "l1", "b1", 2, "none", "k1", {1})
  \cup At("unavailable", "e3", "l1", "none", 2, "none", "k3", {1})
(* What the future and the properties depend on: the command of an idle     *)
(* connection is overwritten before it is read, and only one that was told  *)
(* "ok" is remembered by a property.                                        *)
Relevant == <<rows, version, pc, [c \in Conn |-> reply[c] = "ok"],
              [c \in Conn |-> IF pc[c] = "idle" /\ reply[c] # "ok" THEN {} ELSE {cmd[c]}]>>
=============================================================================
