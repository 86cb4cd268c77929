CONSTANTS
  Users = {t1, t2}
  Messages = {x, y}
  Capacity = 2
  QueueCapacity = 1
  BlockOps = 2
  Clients = {c1, c2}
  Platforms = {"posix", "switch"}
  Threads = {g1, g2}
  Sockets = {s1}
  MaxRequests = 2
  MaxGeneration = 2
  CallbacksPerPump = 1
  OSAlarms = {a1, a2}
  Fibers = {1, 2}
  MaxTicks = 1
  PumpLimit = 1
  InterruptOps = 1
  MaxNest = 3
  CodePlace = 3
  InstalledPacks = {"6.13.0", "6.13.1", "6.13.3"}
  MaxFailures = 2
SPECIFICATION ServicesSpec
INVARIANTS
  TypeOK NoLostWakeup ServicesTypeOK
  SectionsExclude WorldStopHolds OneRoute IdleIsIdle
  ScratchIsOwn OwnAnswer CallsBackOnce PeerIsOwn
  AlarmsInOrder InterruptsFinish
  FinishedIsWhole SkippedIsThere
PROPERTIES
  ImplementsFifo ImplementsAtomicFile WaitsEnd Settles GuardsAreReleased OldPackStays
CHECK_DEADLOCK FALSE
