SPECIFICATION Spec
CONSTANTS
  Procs = {p1, p2}
  Initproc = p1
  NINODES = 3
  Names <- TwoNames
  Paths <- ThreePaths
  NFILE = 1
  Calls <- AllCalls
  MAXCALLS = 2
  MAXCRASH = 1
  None = None
INVARIANTS
  RefsExact NoFreedInUse TreeConsistent 
