SPECIFICATION OneNode
CONSTANTS
  Platform = "Linux"
  WarnLimit = 2
  TimeoutLimit = 2
  LongLimit = 4
  Signals <- AllSignals
INVARIANTS
  LastMessageTellsWarnings
