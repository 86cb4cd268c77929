CONSTANTS
  main = main
  a = a
  b = b
  Threads = {main, a, b}
  Main = main
  Mutexes = {m1}
  WaitQueues = {q1, dwcQueue}
  HostQueues = {q1}
  NULL = NULL
  Idle = Idle
  Dwc = dwcQueue
  MaxPrio = 1
  BasePrio <- MCBasePrio
  InitLive = {main, a, b}
  Managers = {main}
  Calls = {"sleep", "callback", "resume"}
  MaxSuspend = 1
  MaxCount = 1
  MaxDisable = 1
SPECIFICATION Spec
INVARIANTS
  DisableBelongsToExec
