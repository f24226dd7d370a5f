\* Three slots on two CPUs; the third process may be killed.
SPECIFICATION FairSpec
CONSTANTS
  i = i
  p1 = p1
  p2 = p2
  Procs = {i, p1, p2}
  Initproc = i
  c1 = c1
  c2 = c2
  CPUs = {c1, c2}
  MAXPID = 4
  KillPids = {3}
  None = None
INVARIANTS
  CpusConsistent FamilyConsistent
PROPERTIES
  OrphanReaped
