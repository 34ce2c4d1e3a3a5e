SPECIFICATION Spec
CONSTANTS
  Codes <- SomeCodes
  MaxWire = 4
  OtherStatuses = {}
CHECK_DEADLOCK FALSE
INVARIANTS
  RetCodeIsShown
