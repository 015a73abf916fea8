CONSTANTS
  s1 = s1
  s2 = s2
  s3 = s3
  v1 = v1
  v2 = v2
  u1 = u1
  None = None
  Senders = {s1, s2}
  Servers = {v1, v2}
  Removers = {}
  GroupOf <- MCGroupOf
  MaxMid = 3
  Repeats = FALSE
SYMMETRY Symmetry
SPECIFICATION Spec
INVARIANT ReceivedOnce
PROPERTY AnswersWanted
CHECK_DEADLOCK FALSE
