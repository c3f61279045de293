CONSTANTS
  SeqNums = {1, 2, 3}
  Texts <- MCTexts
  Numbers = {1, 2}
  None = None
  Unlocked = FALSE
  Tearing = FALSE
SPECIFICATION Spec
INVARIANTS
  Recoverable
  RangeComplete
  Readable
PROPERTIES
  KeepsContract
CHECK_DEADLOCK FALSE
