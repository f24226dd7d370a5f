SPECIFICATION Spec
CONSTANTS
  Procs = {p1, p2, p3}
  Blocks = {k1}
  Vals = {0, 1}
  NUM = 7
  IDX_MOD = 7
  None = None
SYMMETRY ProcSymmetry
INVARIANTS
  QueueConsistent WakeupComing
PROPERTIES
  ImplementsBlockDevice
