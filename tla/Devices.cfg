SPECIFICATION DevSpec
CONSTANTS
  MAX_PROC = 3
  MAX_SIG = 2
  WORD = 6
  CPU_WRAP = 1
  MILLISECONDS_TICK = 1
  LOWMEM = 0
  EAX = 0
  Handlers = {}
  BadHandlers = {}
  SleepLens = {}
  PidArgs = {}
  SigArgs = {}
  Workload = {"create"}
  MAX_FDT = 2
  KBD_BUFF = 1
  Keys = {"LCTL", "d"}
  BuffLens = {1}
  Commands = {81}
  ArgAddrs = {}
INVARIANT IrqMeansOpen
CHECK_DEADLOCK FALSE
