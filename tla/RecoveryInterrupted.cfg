SPECIFICATION Spec
CONSTANTS
  Content = {"f", "s", "w1"}
  First = "f"
  Offered = {"s"}
  Damaged = "damaged"
  SnapshotId = {"a1"}
  Module = {"prices", "items", "customers"}
  Eager = {"prices"}
  Items = "items"
  None = None
  MaxSwitches = 3
  MaxKept = 2
INVARIANTS
  RollsBackLatestRestore
