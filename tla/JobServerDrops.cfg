SPECIFICATION CalmSpec
CONSTANTS
  r1 = r1
  r2 = r2
  r3 = r3
  i1 = i1
  c1 = c1
  c2 = c2
  RLibs = RLibs
  None = None
  NoFile = NoFile
  Empty = Empty
  Garbled = Garbled
  Requests = {r1, r2, r3}
  Issues = {i1}
  Runs = {c1, c2}
  IssueOf <- MCIssueOf
  RunOf <- MCRunOf
  ShapeOf <- MCShapeOf
INVARIANTS
  InstructionStartsBuild
