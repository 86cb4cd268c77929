SPECIFICATION NandSpec
CONSTANTS
  Platforms = {"switch"}
  Clients = {c1}
INVARIANT OriginalKept
CHECK_DEADLOCK FALSE
