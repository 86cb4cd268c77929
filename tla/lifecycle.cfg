CONSTANTS
  main = main
  a = a
  b = b
  Threads = {main, a, b}
  Main = main
  Mutexes = {m1}
  WaitQueues = {q1}
  HostQueues = {q1}
  NULL = NULL
  Idle = Idle
  Dwc = Dwc
  MaxPrio = 1
  BasePrio <- MCBasePrio
  InitLive = {main}
  Managers = {main}
  Calls = {"create", "resume", "exit", "cancel", "join", "detach", "lock", "sleep", "wake", "callback", "yield"}
  MaxSuspend = 1
  MaxCount = 1
  MaxDisable = 1
SPECIFICATION Spec
INVARIANTS
  LifeInv WaitQueuesOK NoThreadLost MutexesOK JoinersWoken ThreadListOK
