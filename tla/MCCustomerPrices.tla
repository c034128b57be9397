-------------------------- MODULE MCCustomerPrices --------------------------
(* Instances of CustomerPrices: three snapshots that list, list twice, drop *)
(* and misprice the rows of two customers, and one- and two-line lists.     *)
EXTENDS CustomerPrices, TLC

L(c, i, p) == [key |-> <<c, i>>, price |-> p]
MCListed == [s \in Snapshot |->
  CASE s = "s1" -> <<L("c1", "i1", "p1"), L("c1", "i2", "p1"), L("c2", "i1", "p2")>>
    [] s = "s2" -> <<L("c1", "i1", "p2"), L("c1", "i2", "p1"), L("c1", "i2", "p2"), L("c2", "i2", "p1")>>
    [] OTHER -> <<L("c2", "i1", "p1"), L("c1", "i2", None), L("c1", "i1", "p1")>>]
MCCustomersIn == [s \in Snapshot |-> IF s = "s2" THEN {"c1"} ELSE {"c1", "c2"}]
MCItemsIn == [s \in Snapshot |-> IF s = "s3" THEN {"i1"} ELSE {"i1", "i2"}]
Line(i, p) == [item |-> i, price |-> p]
MCPaste == {<<>>, <<Line("i1", "p1")>>, <<Line("i1", "p2"), Line("i2", "p2")>>,
            <<Line("i1", "p2"), Line("i1", "p1")>>, <<Line("i1", None)>>}
Tokens == Permutations(Ref)
=============================================================================
