SPECIFICATION FairSpec
CONSTANTS
  Content = {"f", "s", "w1"}
  First = "f"
  Offered = {"f", "s"}
  Damaged = "damaged"
  SnapshotId = {"a1", "a2"}
  Module = {"prices", "items", "customers"}
  Eager = {"prices"}
  Items = "items"
  None = None
  MaxSwitches = 3
  MaxKept = 2
INVARIANTS
  SwitchesAreTraced
  NoConnectionSurvives
  AnsweredAsRecorded
PROPERTIES
  RestartFollows
