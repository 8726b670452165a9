SPECIFICATION MemSpec
CONSTANTS
  freemem = 10
  HOLESTART = 592
  HOLEEND = 704
  maxaddr = 799
  WORD = 4096
  Sizes = {10, 60}
  StrayPtrs = {}
  Callers = {k}
  MaxMallocs = 5
INVARIANT BlocksDisjoint
CHECK_DEADLOCK FALSE
