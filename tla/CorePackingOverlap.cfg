SPECIFICATION Spec
CONSTANTS
  Conn = {c1, c2}
  Plan = {"p1"}
  Line = {"l1", "l2"}
  RowId = {"b1", "b2", "b3", "e1", "e2", "e3", "e4", "e5", "e8", "r1", "r2"}
  Key = {"kb1", "kb2", "kb3", "k1", "k2", "k3", "k5", "k6", "k7", "k8"}
  None <- MCNone
  LinesOf <- MCLinesOf
  Original <- MCOriginal
  Requests <- OverlapRequests
INVARIANTS
  Conservation
