CONSTANTS
  p1 = p1
  p2 = p2
  p3 = p3
  p4 = p4
  Null = Null
  None = None
  First = p1
  Procs = {p1, p2, p3}
  MaxSleep = 0
  Loads <- MCFairLoads
SPECIFICATION FairSpec
PROPERTY ReadyRuns
CHECK_DEADLOCK FALSE
