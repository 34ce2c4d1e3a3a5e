SPECIFICATION FairSpec
CONSTANTS
  ThisPage = p1
  p1 = p1
  p2 = p2
  Pages = {p1, p2}
  Texts = {"object", "other"}
  MaxSockets = 3
  MaxJobs = 2
  MaxEvents = 2
CHECK_DEADLOCK FALSE
INVARIANTS
  TypeOK
  OnlyItsOwn
PROPERTIES
  EventsInOrder
  EventsReachTheAsker
