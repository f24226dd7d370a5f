\* Log space: three processes and as many blocks as the log holds; the contents
\* of the blocks play no part.  Timer: two harts and one process, which may be
\* killed; ticks wraps at once.
SPECIFICATION MachineSpec
CONSTANTS
  Procs = {p1, p2, p3}
  Blocks = {b1, b2, b3, b4}
  Vals = {0}
  MAXOPBLOCKS = 2
  LOGBLOCKS = 4
  OPBLOCKS = 1
  Absent = Absent
  Harts = {c0, c1}
  Hart0 = c0
  Threads = {t1}
  Tickslock = Tickslock
  Nohart = Nohart
  TICKMOD = 2
  Naps = {0, 1}
  Doomed = {t1}
INVARIANTS
  SpaceSuffices LocksExact InterruptsRestored NoMissedTick
