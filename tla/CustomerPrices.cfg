SPECIFICATION Spec
CONSTANTS
  Customer = {"c1", "c2"}
  Item = {"i1", "i2"}
  Price = {"p1", "p2"}
  Snapshot = {"s1", "s2", "s3"}
  Listed <- MCListed
  CustomersIn <- MCCustomersIn
  ItemsIn <- MCItemsIn
  Paste <- MCPaste
  Active = {"ann"}
  Ref = {r1, r2}
  None = None
  MaxAudit = 2
SYMMETRY Tokens
INVARIANTS
  ReadyMeansImported
  AuditIsAChain
  PreviewsStayApplicable
PROPERTY DecisionsStand
