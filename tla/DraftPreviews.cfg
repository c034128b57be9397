SPECIFICATION RegistrySpec
CONSTANTS
  Draft = {d1, d2}
  Conflict = {"x1", "x2"}
  OrderLine = {"l1", "l2", "l3"}
  Submission <- MCSubmission
  None = None
  MaxAudit = 5
  Staff = {"ann", "ben", "old"}
  Active = {"ann", "ben"}
  Snapshot = {"s1", "s2"}
  Order = {"o1", "o2", "o3"}
  LinesOf <- MCLinesOf
  Unpriced = {"o3"}
  Dispute = {"awb"}
  Choice = {"a", "b"}
  Selections <- MCSelections
  Disputes <- MCDisputes
  Ref = {r1, r2}
  MaxPending = 2
  TTL = 2
SYMMETRY Tokens
INVARIANTS
  ServedOnceAsShown
  FullOfLivePreviews
  BilledOnceWhenReady
  OneOpenConflict
  LinesHeldOnce
  AuditTellsStatus
  OneDraftPerKey
