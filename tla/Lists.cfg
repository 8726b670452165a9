SPECIFICATION FairSpec
CONSTANTS
  MAX_PROC = 3
  MAX_SIG = 3
  WORD = 6
  CPU_WRAP = 1
  MILLISECONDS_TICK = 1
  LOWMEM = 0
  EAX = 5
  Handlers = {}
  BadHandlers = {}
  SleepLens = {0, 1, 2}
  PidArgs = {0, 3}
  SigArgs = {1}
  Workload = {"create", "stop", "answers", "wait", "sleep", "kill"}
INVARIANTS ListsSound ReadyMeansQueued SleepersListed LiveFound CreateFindsFree
PROPERTIES ReturnKept ReadyRuns SleeperWakes
