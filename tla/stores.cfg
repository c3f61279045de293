CONSTANTS
  Kinds = {"memory", "bdb", "memcached", "redis"}
  Radix = 256
  Tearing = FALSE
  Overtaking = FALSE
  Racing = FALSE
  MaxSeq = 3
  MaxRcv = 2
  MaxQueries = 1
  MaxCrashes = 1
  MaxOpens = 2
SPECIFICATION FairSpec
INVARIANTS
  QueryComplete
  ControlCovers
  StopDrains
PROPERTIES
  
  Drained
  QueryAnswered
CHECK_DEADLOCK FALSE
