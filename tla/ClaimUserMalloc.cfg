SPECIFICATION MemSpec
CONSTANTS
  freemem = 10
  HOLESTART = 112
  HOLEEND = 208
  maxaddr = 271
  WORD = 4096
  Sizes = {10}
  StrayPtrs = {}
  Callers = {1, 2}
  MaxMallocs = 2
INVARIANT BlocksDisjoint
CHECK_DEADLOCK FALSE
