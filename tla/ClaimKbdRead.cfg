SPECIFICATION DevSpec
CONSTANTS
  MAX_PROC = 3
  MAX_SIG = 2
  WORD = 6
  CPU_WRAP = 1
  MILLISECONDS_TICK = 1
  LOWMEM = 0
  EAX = 0
  Handlers = {}
  BadHandlers = {}
  SleepLens = {}
  PidArgs = {}
  SigArgs = {}
  Workload = {"create","stop"}
  MAX_FDT = 1
  KBD_BUFF = 2
  Keys = {"d"}
  BuffLens = {1}
  Commands = {}
  ArgAddrs = {}
INVARIANT IdleStands
