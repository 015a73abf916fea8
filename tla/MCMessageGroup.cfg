CONSTANTS
  s1 = s1
  s2 = s2
  s3 = s3
  v1 = v1
  v2 = v2
  u1 = u1
  None = None
  Senders = {s1, s2}
  Servers = {v1}
  Removers = {u1}
  GroupOf <- MCGroupOf
  MaxMid = 3
  Repeats = TRUE
SYMMETRY Symmetry
SPECIFICATION Spec
INVARIANT TypeOK
PROPERTY ImplementsRpc
CHECK_DEADLOCK FALSE
