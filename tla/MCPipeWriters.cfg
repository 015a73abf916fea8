CONSTANTS
  reader = reader
  reader2 = reader2
  writer = writer
  writer2 = writer2
  None = None
  Readers = {reader, reader2}
  Writers = {writer, writer2}
  MayClose = {}
  MaxLen = 1
  Loads <- MCWriterLoads
SPECIFICATION Spec
INVARIANT NothingLost
CHECK_DEADLOCK FALSE
