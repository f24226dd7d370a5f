SPECIFICATION Spec
CONSTANTS
  Procs = {p1, p2}
  None = None
  Mark = Mark
  Descs = {d1, d2}
  BSIZE = 2
  NDIRECT = 1
  SIZE = 9
  BPB = 4
  MAXOPBLOCKS = 6
  Lengths = {1, 3, 4}
  MkfsAppends <- SmallImage
  BadSrc = {p1, p2}
  MAXCALLS = 3
  MAXCRASH = 2
SYMMETRY Symmetric
CHECK_DEADLOCK FALSE
INVARIANTS
  BlocksConsistent  OpFitsLog
