SPECIFICATION Spec
CONSTANTS
  Conn = {c1, c2}
  LegacyConn = {c2}
  Invoice = {"i1", "i2"}
  Conflict = {"x1", "x2"}
  EventId = {"e1", "e2", "e3", "e4", "e5"}
  LineId = {"l1", "l2", "l3", "l9"}
  OrderLine = {"l1", "l2", "l3"}
  Snapshot = {"s1", "s2"}
  SourceOf <- MCSourceOf
  Later <- MCLater
  Key = {"k1", "k2", "k3", "k4", "k5", "k6", "k7", "k8", "k9", "k10", "k11"}
  None <- MCNone
  Requests <- InvoiceRequests
VIEW Relevant
INVARIANTS
  HistoryTellsStatus
  OneInvoicePerLine
  ConflictsResolvedOnce
  AcknowledgedOnce
PROPERTIES
  FrozenOnceDocumented
