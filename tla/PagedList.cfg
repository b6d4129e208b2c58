SPECIFICATION FairSpec
CONSTANTS
  q1 = q1
  q2 = q2
  c1 = c1
  l1 = l1
  l2 = l2
  Query = {q1, q2, c1}
  NoQuery = q1
  Code = {c1}
  Lang = {l1, l2}
  Lang1 = l1
  Row = {1, 2, 3, 4, 5}
  Rows <- SomeRows
  ItemsPerPage = 2
  MaxMoves = 5
  MaxCalls = 2
CHECK_DEADLOCK FALSE
INVARIANTS
  TypeOK
  QuietListIsPrefix
PROPERTIES
  LoadingEnds
