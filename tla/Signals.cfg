SPECIFICATION Spec
CONSTANTS
  MAX_PROC = 3
  MAX_SIG = 4
  WORD = 6
  CPU_WRAP = 1
  MILLISECONDS_TICK = 1
  LOWMEM = 0
  EAX = 0
  Handlers = {1}
  BadHandlers = {2}
  SleepLens = {}
  PidArgs = {3}
  SigArgs <- MCSigArgs
  Workload = {"stop", "create", "signal", "kill"}
INVARIANT SignalNesting
