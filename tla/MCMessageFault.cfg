CONSTANTS
  s1 = s1
  s2 = s2
  s3 = s3
  v1 = v1
  v2 = v2
  u1 = u1
  None = None
  Senders = {s1}
  Servers = {v1}
  Removers = {u1}
  GroupOf <- MCGroupOf
  MaxMid = 1
  Repeats = FALSE
SPECIFICATION Spec
INVARIANT RecvReturns
CHECK_DEADLOCK FALSE
