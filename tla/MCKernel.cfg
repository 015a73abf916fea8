CONSTANTS
  None = None
  Threads = {first, p1, p2}
  Users = {p1, p2}
  First = first
  Kinds = {"mgroup"}
  Objects = {x1, x2, x3}
  MaxForks = 4
  FdGroups = {first, x1}
  Chans = {c1, c2}
  NChans = 2
  NameGroups = {g1}
  CopyGroups = {g1, g2}
  Bindings = {x1}
  FileFids = {x1}
  MaxLen = 2
  MaxOffset = 2
  MaxLog = 2
  MaxLost = 1
  Heaps <- MCHeaps
  PageGroups = {g1, g2}
  Ram = {r1, r2, r3, r4}
  Io = {io}
  Segments <- MCSegments
  Spaces = {x1, x2, x3}
  Tables = {r1, r2, r3, r4}
  Sections = {0, 1, 2}
  Fault = None
  Irqs = {g1, g2}
  Handled = {g2}
SYMMETRY Symmetry
SPECIFICATION Spec
INVARIANTS
  TypeOK
  ProcessesSound
  ChannelsKept
  MountsKept
  PathsKept
  TransfersSound
  BlocksDisjoint
  MemoryKept
  MachineInStep
PROPERTY NothingForgotten
CHECK_DEADLOCK FALSE
