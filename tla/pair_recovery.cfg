CONSTANTS
  IgnoreLogonSeqCheck = FALSE
  AlwaysSeqnumAssign = FALSE
  SilentDisconnect = FALSE
  Reliable = FALSE
  ResetSeqNums = FALSE
  Races = {}
  MaxApp = 3
  MaxThrows = 2
  Rethrows = FALSE
  MaxFails = 1
  MaxCrashes = 0
  MaxTicks = 1
  MaxConnects = 2
  MaxLogouts = 0
  Batches = FALSE
SPECIFICATION Spec
INVARIANTS
  NoSkip
  ResendStateServed
  QuietAgree
  ExpectedCovers
CHECK_DEADLOCK FALSE
