CONSTANTS
  reader = reader
  reader2 = reader2
  writer = writer
  writer2 = writer2
  None = None
  Readers = {reader, reader2}
  Writers = {writer, writer2}
  MayClose = {reader, reader2, writer}
  MaxLen = 2
  Loads <- MCLoads
SPECIFICATION Spec
INVARIANTS
  TypeOK
  NoByteLost
  WalkIsFinite
PROPERTY StreamKept
CHECK_DEADLOCK FALSE
