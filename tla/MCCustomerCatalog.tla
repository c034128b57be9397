------------------------- MODULE MCCustomerCatalog -------------------------
(* Instances of CustomerCatalog: a snapshot with everything, one that lists *)
(* a consignee twice, changes the rest and drops a customer, and one that   *)
(* lists a customer twice and leaves its children, or an orphan, behind.    *)
EXTENDS CustomerCatalog

Rec(c, v) == [customer |-> c, fields |-> [f \in Field |-> v]]
Kid(c, ch, v) == [customer |-> c, child |-> ch, value |-> v]
MCListed == [s \in Snapshot |->
  CASE s = "s1" -> <<Rec("c1", "x"), Rec("c2", "x")>>
    [] s = "s2" -> <<Rec("c1", "y"), Rec(Blank, "x")>>
    [] OTHER -> <<Rec("c1", "x"), Rec("c2", "y"), Rec("c1", "y")>>]
MCChildRows == [s \in Snapshot |->
  CASE s = "s1" -> <<Kid("c1", "config", "x"), Kid("c1", "k1", "x"), Kid("c2", "k1", "x")>>
    [] s = "s2" -> <<Kid("c1", "k1", "y"), Kid("c1", "k1", "x"), Kid("c1", "config", "y"), Kid("c2", "n1", "x")>>
    [] OTHER -> <<Kid("c1", "config", "x"), Kid("c2", "k1", "y"), Kid("c2", Blank, "y"), Kid("c2", "n1", "x")>>]
=============================================================================
