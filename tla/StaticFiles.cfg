SPECIFICATION MCSpec
CONSTANTS
  Extension = ".js"
  MaxChanges = 2
  MaxRequests = 3
CHECK_DEADLOCK FALSE
INVARIANTS
  TypeOK
  LengthOfTheBody
  OnlyARemovalKills
PROPERTIES
  AnsweredInTheEnd
