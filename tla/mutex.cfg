CONSTANTS
  main = main
  a = a
  b = b
  Threads = {main, a, b}
  Main = main
  Mutexes = {m1, m2}
  WaitQueues = {q1}
  HostQueues = {q1}
  NULL = NULL
  Idle = Idle
  Dwc = Dwc
  MaxPrio = 2
  BasePrio <- MCPrioBelow
  InitLive = {main, a, b}
  Managers = {main}
  Calls = {"wake", "sleep", "lock", "suspend", "resume"}
  MaxSuspend = 2
  MaxCount = 2
  MaxDisable = 1
SPECIFICATION Spec
INVARIANTS
  RankInv StrongestRuns MutexesOK PriorityInheritance
