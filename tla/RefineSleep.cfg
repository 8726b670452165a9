SPECIFICATION Spec
CONSTANTS
  MAX_PROC = 4
  MAX_SIG = 3
  WORD = 8
  CPU_WRAP = 1
  MILLISECONDS_TICK = 1
  LOWMEM = 0
  EAX = 0
  Handlers = {}
  BadHandlers = {}
  SleepLens = {2, 3}
  PidArgs = {}
  SigArgs = {}
  Workload = {"create", "sleep"}
PROPERTIES ImplementsScheduler SleepsAsAsked
