SPECIFICATION MCSpec
CONSTANTS
  r1 = r1
  r2 = r2
  c1 = c1
  c2 = c2
  RLibs = RLibs
  None = None
  NoFile = NoFile
  Empty = Empty
  Garbled = Garbled
  Requests = {r1, r2}
  Issues = {1, 2, 3}
  Runs = {c1, c2}
  IssueOf <- MCIssueOf
  RunOf <- MCRunOf
  ShapeOf <- MCShapeOf
  PageSize = 2
  Earlier <- MCEarlier
INVARIANTS
  ARunIsKept
  DroppedForAReason
PROPERTIES
  OldTreesGo
