CONSTANTS
  p1 = p1
  p2 = p2
  o1 = o1
  o2 = o2
  o3 = o3
  dR = dR
  dD = dD
  fF = fF
  fG = fG
  fH = fH
  x = x
  y = y
  None = None
  Procs = {p1, p2}
  Objs = {o1, o2, o3}
  root = o1
  Files = {dR, dD, fF, fG, fH}
  Dirs = {dR, dD}
  Root = dR
  Child <- MCChild
  Paths <- MCPaths
  Made = {dR, dD, fG}
  MaxCalls = 2
SYMMETRY Symmetry
SPECIFICATION Spec
INVARIANTS
  TypeOK
  CountsExact
  ParentKept
  InUseKept
CHECK_DEADLOCK FALSE
