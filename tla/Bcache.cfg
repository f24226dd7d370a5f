SPECIFICATION Spec
CONSTANTS
  Procs = {p1, p2}
  Bufs = {b1, b2, b3}
  Blocks = {k1, k2, k3, k4}
  Vals = {0, 1}
  MAXPIN = 1
  None = None
SYMMETRY Symmetric
INVARIANTS
   NoStrandedSleeper
PROPERTIES
  ImplementsBlockStore
