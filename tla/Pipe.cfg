\* Two processes, one of which may be killed; a ring of two bytes whose counters
\* wrap after two rounds.
SPECIFICATION FairSpec
CONSTANTS
  p1 = p1
  p2 = p2
  Procs = {p1, p2}
  Creator = p1
  Killable = {p2}
  b1 = b1
  b2 = b2
  Byte = {b1, b2}
  NoByte = NoByte
  PIPESIZE = 2
  UINT_MOD = 4
  MAXN = 3
  Counts = {0, 3}
  Eof = Eof
  None = None
CHECK_DEADLOCK FALSE
INVARIANTS
  PipeConsistent NoStrandedSleeper
PROPERTIES
  ImplementsChannel CallsReturn
