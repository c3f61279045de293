CONSTANTS
  Groups = {0, 3}
  MaxTries = {1, 2, 3}
  LoginRetries = 2
  Closing = TRUE
SPECIFICATION FairSpec
CHECK_DEADLOCK FALSE
INVARIANT
  RetriesKept
PROPERTIES
  TriesEveryServer
  StaysUpOrGivesUp
  RecoversAlone
