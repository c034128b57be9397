SPECIFICATION Spec
CONSTANTS
  Customer = {"c1", "c2"}
  Field = {"name"}
  Config = "config"
  Consignee = {"k1"}
  Note = {"n1"}
  Added = {"a1"}
  Value = {"x", "y"}
  Snapshot = {"s1", "s2", "s3"}
  Listed <- MCListed
  ChildRows <- MCChildRows
  Blank = Blank
  None = None
  MaxActivity = 3
INVARIANTS
  ReadyMeansImported
PROPERTY DecisionsStand
