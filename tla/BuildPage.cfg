SPECIFICATION MCSpec
CONSTANTS
  Codes <- TwoCodes
  MaxWire = 4
  OtherStatuses <- OfOldTimes
CHECK_DEADLOCK FALSE
INVARIANTS
  TypeOK
  SettledMatchesReport
PROPERTIES
  VerdictsStand
  NothingStaysInProgress
