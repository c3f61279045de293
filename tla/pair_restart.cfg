CONSTANTS
  IgnoreLogonSeqCheck = FALSE
  AlwaysSeqnumAssign = FALSE
  SilentDisconnect = FALSE
  Reliable = FALSE
  ResetSeqNums = FALSE
  Races = {"start"}
  MaxApp = 3
  MaxThrows = 1
  Rethrows = TRUE
  MaxFails = 1
  MaxCrashes = 1
  MaxTicks = 0
  MaxConnects = 2
  MaxLogouts = 0
  Batches = TRUE
SPECIFICATION Spec
INVARIANTS
  TypeOK
  NoSeqReuse
  NumbersAhead
  ResendFaithful
CHECK_DEADLOCK FALSE
