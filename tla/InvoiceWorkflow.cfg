SPECIFICATION Spec
CONSTANTS
  Conn = {c1, c2}
  Doc = {"d1", "d2", "d3"}
  Base = {"b1", "b2"}
  Line = {"l1", "l2", "l3"}
  BaseLines <- MCBaseLines
  Customer = {"c1", "c2"}
  Year = {2026}
  Number = {"n1", "n2"}
  Price = {"p1"}
  EventId = {"e1", "e2", "e3", "e4", "e5", "e6", "e7", "e8"}
  Key = {"k1", "k2", "k3", "k4", "k5", "k6", "k7", "k8", "k9", "k10", "k11", "k12", "k13", "k14"}
  MaxSeq = 2
  None = None
  Requests <- WorkflowRequests
VIEW Relevant
INVARIANTS
  HistoryTellsState
  OneCorrectionChain
  ReferencesAreDense
  RealIsPriced
  AcknowledgedOnce
PROPERTIES
  ImplementsLedger
