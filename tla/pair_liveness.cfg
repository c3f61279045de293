CONSTANTS
  IgnoreLogonSeqCheck = FALSE
  AlwaysSeqnumAssign = FALSE
  SilentDisconnect = FALSE
  Reliable = FALSE
  ResetSeqNums = FALSE
  Races = {"crash", "count"}
  MaxApp = 2
  MaxThrows = 1
  Rethrows = TRUE
  MaxFails = 1
  MaxCrashes = 1
  MaxTicks = 0
  MaxConnects = 1
  MaxLogouts = 1
  Batches = FALSE
SPECIFICATION FairSpec
PROPERTIES
  RecoveryEnds
  LogonCompletes
CHECK_DEADLOCK FALSE
