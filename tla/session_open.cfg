CONSTANTS
  IgnoreLogonSeqCheck = FALSE
  AlwaysSeqnumAssign = FALSE
  SilentDisconnect = FALSE
  Reliable = FALSE
  ResetSeqNums = FALSE
  MaxSeq = 3
  MaxMsgs = 4
  MaxApp = 1
  MaxStarts = 2
  MaxFails = 1
  ReqSend = {0}
  ReqReceive = {0, 2}
SPECIFICATION Spec
INVARIANTS
  DeliveredInOrder
  RecordLag
PROPERTIES
  ExpectedNeverFalls
  NothingBeforeLogon
  ResendableKept
CHECK_DEADLOCK FALSE
