SPECIFICATION OneNode
CONSTANTS
  Platform = "Darwin"
  WarnLimit = 2
  TimeoutLimit = 3
  LongLimit = 4
  Signals <- SomeSignals
INVARIANTS
  LateMeansLate
