CONSTANTS
  c1 = c1
  c2 = c2
  c3 = c3
  m = m
  None = None
  mnt = m
  Clients = {c1, c2}
  Kinds = {"read", "write"}
  MaxCalls = 2
  Stale = {1, 3}
SYMMETRY Symmetry
SPECIFICATION Spec
INVARIANTS
  TypeOK
  NoneForgotten
  DataFollowsHead
PROPERTY ImplementsExchange
CHECK_DEADLOCK FALSE
