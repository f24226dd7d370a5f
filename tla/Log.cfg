\* Crash atomicity, and waiting in begin_op: two processes, two blocks of two values.
SPECIFICATION FairSpec
CONSTANTS
  p1 = p1
  p2 = p2
  Procs = {p1, p2}
  b1 = b1
  b2 = b2
  Blocks = {b1, b2}
  Vals = {0, 1}
  MAXOPBLOCKS = 2
  LOGBLOCKS = 4
  OPBLOCKS = 2
  Absent = Absent
PROPERTIES
  ImplementsAtomicDisk SleeperWoken
