SPECIFICATION FairMemSpec
CONSTANTS
  freemem = 10
  HOLESTART = 592
  HOLEEND = 704
  maxaddr = 799
  WORD = 4096
  Sizes = {0, 10, 60, 464}
  StrayPtrs = {8, 40, 600, 816}
  Callers = {k}
  MaxMallocs = 4
INVARIANT DisjointUntilOvergrown
PROPERTY ReturnsUntilOvergrown
CHECK_DEADLOCK FALSE
