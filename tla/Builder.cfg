SPECIFICATION MCSpec
CONSTANTS
  Platform = "Darwin"
  WarnLimit = 2
  TimeoutLimit = 3
  LongLimit = 4
  Signals <- SomeSignals
INVARIANTS
  NoSilentEnd
  TimeoutReported
  PassedMeansPassed
PROPERTIES
  ReportsInOrder
  CheckEnds
