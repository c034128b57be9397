--------------------------- MODULE MCItemCatalog ---------------------------
(* Instances of ItemCatalog: an older snapshot that lists an item twice and *)
(* another without a USA name, and a newer one that names it, admits the    *)
(* other with an ambiguous name, and lists an item with a legacy override.  *)
EXTENDS ItemCatalog

Rec(i, v, usa) == [item |-> i, data |-> v, usa |-> usa, valid |-> TRUE]
MCListed == [s \in Snapshot |->
  IF s = "s1" THEN <<Rec("i1", "x", Blank), Rec("i2", "x", Blank), Rec("i2", "y", Blank)>>
  ELSE <<Rec("i1", "y", Blank), Rec("i2", "y", Blank), [Rec(Blank, "x", Blank) EXCEPT !.valid = FALSE], Rec("i3", "x", "x")>>]
MCAuxiliary == [s \in Snapshot |-> IF s = "s1" THEN [t \in {"PACKING"} |-> <<"i1">>] ELSE [t \in {"PACKING"} |-> <<"i2">>]]
MCChangeName == [s \in Snapshot |->
  IF s = "s1" THEN <<>>
  ELSE <<[item |-> "i1", name |-> "x"], [item |-> "i2", name |-> "x"], [item |-> "i2", name |-> "y"]>>]
MCOverride == [i \in Item |-> IF i = "i3" THEN [data |-> "y", usa |-> Blank] ELSE None]
MCChanges ==
  {[op |-> "edit", item |-> "i1", part |-> p, value |-> "y"] : p \in {"data", "usa"}}
  \cup {[op |-> "create", item |-> i, data |-> "x", usa |-> Blank] : i \in {"i2", "i3"}}
  \cup {[op |-> "archive", item |-> "i1"]}
=============================================================================
