SPECIFICATION Spec
CONSTANTS
  Procs = {p1, p2}
  None = None
  INPUT_BUF_SIZE = 2
  UINT_MOD = 4
  Lengths = {0, 2}
  Readers = {p1, p2}
  Writers = {p2}
  BATCH = 2
  FIFO = 2
  BadDst = {p2}
CHECK_DEADLOCK FALSE
INVARIANTS
  InputConsistent OutputConsistent
PROPERTIES
  ImplementsLines
