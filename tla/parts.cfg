CONSTANTS
  Schema <- MCSchema
  Texts <- MCTexts
  EditTexts <- MCEditTexts
  NewFields <- MCNewFields
  Elements <- MCElements
  MaxEdits = 4
  Byte = 4
  Lanes = 3
  WeekDays = 4
  Slots = 3
  Weeks = 2
  MaxTokens = 3
  MaxWords = 7
  LastYear = 2099
SPECIFICATION Spec
INVARIANTS
  RoundTrip
  DecodeFaithful
  SumExact
  DatesExact
  ScheduleFollowed
CHECK_DEADLOCK FALSE
