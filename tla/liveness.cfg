CONSTANTS
  main = main
  a = a
  b = b
  Threads = {main, a, b}
  Main = main
  Mutexes = {}
  WaitQueues = {q1}
  HostQueues = {q1}
  NULL = NULL
  Idle = Idle
  Dwc = Dwc
  MaxPrio = 1
  BasePrio <- MCBasePrio
  InitLive = {main, a, b}
  Managers = {main}
  Calls = {"resume", "ticks", "sleep"}
  MaxSuspend = 1
  MaxCount = 1
  MaxDisable = 1
SPECIFICATION FairSpec
PROPERTIES
  SleepersAreReleased StrongestIsServed
