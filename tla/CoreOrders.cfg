SPECIFICATION OrdersSpec
CONSTANTS
  Conn = {c1, c2}
  OrderId = {"o1", "o2"}
  PlanId = {"p1"}
  Actor = {"ann", "ben"}
  Key = {"k1", "k2", "k3", "k4", "k5"}
  Line = {1, 2, 3}
  SourceRow = {"s0", "s1", "s2"}
  Positive = {"s1", "s2"}
  Requests <- Rivals
INVARIANTS
  OrdersAreTraced
  AcknowledgedAsAsked
