SPECIFICATION Spec
CONSTANTS
  Item = {"i1", "i2", "i3"}
  Value = {"x", "y"}
  Snapshot = {"s1", "s2"}
  Listed <- MCListed
  Auxiliary <- MCAuxiliary
  ChangeName <- MCChangeName
  Override <- MCOverride
  Changes <- MCChanges
  Blank = Blank
  None = None
  MaxActivity = 1
INVARIANTS
  ImportsAreWhole
  QuarantineTells
PROPERTY DecisionsStand
