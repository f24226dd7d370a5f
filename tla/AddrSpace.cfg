SPECIFICATION Spec
CONSTANTS
  Procs = {p1, p2}
  Frames = {f1, f2}
  PGSIZE = 1
  ADDRS = 8
  TRAPFRAME = 2
  IMAGE = 1
  MAXVMA = 1
  NVREG = 1
  FILEMAX = 0
  FileInit <- Blank
  FileSize = 0
  Opened = {TRUE}
  Vals = {"zero"}
  NONE = NONE
  Uses = {"grow", "shrink", "map_ro", "exec", "touch_any", "unmap_any", "copy"}
  Deltas <- PageUpAndDown
  Lengths = {1}
  Prots <- OnlyWritable
  Offsets = {0}
SYMMETRY Symmetry
CHECK_DEADLOCK FALSE
INVARIANTS
   FileRefs
