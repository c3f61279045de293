CONSTANTS
  Threads = {t1, t2}
  Codes = 2
  Systems = {"ff", "tbb"}
  RotNums = {1}
  Directions = {TRUE}
  EmptyLines = FALSE
  MaxLines = 2
  MaxRotations = 2
  MaxFlushes = 1
SPECIFICATION FairSpec
INVARIANTS
  LogFaithful
PROPERTIES
  LineTaken
  StopReturns
CHECK_DEADLOCK FALSE
