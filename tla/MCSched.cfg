CONSTANTS
  p1 = p1
  p2 = p2
  p3 = p3
  p4 = p4
  Null = Null
  None = None
  First = p1
  Procs = {p1, p2, p3, p4}
  MaxSleep = 1
  Loads <- MCLoads
SYMMETRY Symmetry
SPECIFICATION Spec
INVARIANTS
  TypeOK
  ReadyListSound
  NobodyForgotten
CHECK_DEADLOCK FALSE
