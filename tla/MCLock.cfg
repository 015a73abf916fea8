CONSTANTS
  p1 = p1
  p2 = p2
  p3 = p3
  p4 = p4
  l1 = l1
  l2 = l2
  None = None
  Procs = {p1, p2, p3, p4}
  Locks = {l1, l2}
SYMMETRY Symmetry
SPECIFICATION Spec
INVARIANTS
  MutualExclusion
  QueueHoldsWaiters
PROPERTY ImplementsMutex
CHECK_DEADLOCK FALSE
