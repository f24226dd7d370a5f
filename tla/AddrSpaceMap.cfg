SPECIFICATION Spec
CONSTANTS
  Procs = {p1, p2}
  Frames = {f1, f2, f3}
  PGSIZE = 2
  ADDRS = 10
  TRAPFRAME = 4
  IMAGE = 0
  MAXVMA = 2
  NVREG = 1
  FILEMAX = 2
  FileInit <- TwoPages
  FileSize = 4
  Opened = {TRUE, FALSE}
  Vals = {"v"}
  NONE = NONE
  Uses = {"mapzero"}
  Deltas = {}
  Lengths = {1, 4}
  Prots <- OnlyWritable
  Offsets = {1}
SYMMETRY Symmetry
CONSTRAINT TwoRegions
CHECK_DEADLOCK FALSE

  
PROPERTIES
   FileExact
