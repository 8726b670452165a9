SPECIFICATION Spec
CONSTANTS
  MAX_PROC = 4
  MAX_SIG = 2
  WORD = 8
  CPU_WRAP = 1
  MILLISECONDS_TICK = 1
  LOWMEM = 0
  EAX = 0
  Handlers = {}
  BadHandlers = {}
  SleepLens = {1}
  PidArgs = {0, 1, 2, 3}
  SigArgs = {1}
  Workload = {"create", "sleep", "kill", "killSleeping", "killIdle"}
INVARIANTS TypeOK PointersFilled
CHECK_DEADLOCK FALSE
