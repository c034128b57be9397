SPECIFICATION AcceptanceSpec
CONSTANTS
  Certifier = {c1, c2}
  Content = {"s1", "s2", "s3"}
  Valid = {"s1", "s2"}
  Ready <- MCReady
  Damaged = Damaged
  Absent = Absent
SYMMETRY Certifiers
INVARIANTS
  AcceptedIsWhole
  ServedIsAccepted
  MountedIsReconciled
