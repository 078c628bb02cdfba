SPECIFICATION Spec
CONSTANTS
  a = a
  b = b
  c = c
  v1 = v1
  Names = {a, b, c}
  Paths <- MCPaths
  Values = {v1}
  None = None
SYMMETRY MCSiblings
INVARIANTS
  TypeOK
  RefsCounted
  TreeIntact
  PendingListed
  TxPassComplete
PROPERTY
  ImplementsKvtMap
