CONSTANTS
  None = None
  f1 = f1
  f2 = f2
  f3 = f3
  f4 = f4
  Names = {n1, n2}
  Values = {d1, d2}
  MaxFids = 3
  MaxSize = 2
  MaxOpen = 1
  Nodes <- MCNodes
  Root = f1
  BUFSMAX = 2
  BufSectors = {d1, d2, raw}
  MaxUses = 3
  MaxVersion = 2
  Raw = raw
  Parts <- MCParts
  PartLba <- MCLba
  PartSectors <- MCSectors
  NBlocks = 7
  MaxBlocks = 2
  MaxBlock = 4
  MaxRequests = 3
  MaxLen = 1
  MaxTyped = 2
  MaxQueue = 2
SYMMETRY Symmetry
SPECIFICATION Spec
INVARIANTS
  TypeOK
  
  
  
  BuffersTrue
  PartsApart
  ConsoleSound
CHECK_DEADLOCK FALSE
