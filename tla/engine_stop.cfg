CONSTANTS
  Pipelines = {"initiator"}
  Silences = {"acceptor"}
  Losses = TRUE
  MaxMsgs = 1
SPECIFICATION FairSpec
CHECK_DEADLOCK FALSE
INVARIANT
  SafeDestroy
PROPERTIES
  StopReturns
  DestructionEnds
