CONSTANT
  LastYear = 2099
SPECIFICATION DatesSpec
INVARIANT
  WorksTill2100
