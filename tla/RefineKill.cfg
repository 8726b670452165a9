SPECIFICATION Spec
CONSTANTS
  MAX_PROC = 4
  MAX_SIG = 3
  WORD = 8
  CPU_WRAP = 1
  MILLISECONDS_TICK = 1
  LOWMEM = 0
  EAX = 0
  Handlers = {}
  BadHandlers = {}
  SleepLens = {}
  PidArgs = {2, 3}
  SigArgs = {1, 2}
  Workload = {"create", "wait", "kill"}
PROPERTIES ImplementsScheduler WaitEnds
