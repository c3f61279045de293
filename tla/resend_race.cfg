CONSTANTS
  IgnoreLogonSeqCheck = FALSE
  AlwaysSeqnumAssign = FALSE
  SilentDisconnect = FALSE
  Reliable = FALSE
  ResetSeqNums = FALSE
  Races = {"resend"}
  MaxApp = 4
  MaxThrows = 1
  Rethrows = TRUE
  MaxFails = 0
  MaxCrashes = 0
  MaxTicks = 0
  MaxConnects = 1
  MaxLogouts = 0
  Batches = FALSE
SPECIFICATION Spec
INVARIANTS
  NoSeqReuse
CHECK_DEADLOCK FALSE
