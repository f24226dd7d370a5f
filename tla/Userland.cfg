SPECIFICATION Spec
CONSTANTS
  Tokens <- AllTokens
  MAXTOKENS = 5
  MAXARGS = 3
  Pids = {1, 2, 3, 4, 5}
  NOFILE = 5
  Lines <- CommandLines
  Missing = {"x", "y"}
  MAXCMDS = 2
  NALLOC = 4
  HEAPMAX = 13
  Units = {2, 3}
  Gaps = {1}
  BUFSIZE = 4
  Patterns <- SomePatterns
  FileLists <- SomeFiles
  LINEMAX = 4
  REPLYMAX = 3
  ARGMAX = 3
  Inputs <- SomeInputs
  Files = {"f"}
  Uncreatable = {"g"}
CHECK_DEADLOCK FALSE
INVARIANTS
  CommandsRun ParsesGrammar HeapConsistent GrepExact CommandsObeyed
PROPERTIES
  PromptReturns
