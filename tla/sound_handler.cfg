SPECIFICATION SoundSpec
CONSTANTS
  QueueCapacity = 1
  BlockOps = 2
INVARIANT HandlerExcludes
CHECK_DEADLOCK FALSE
