SPECIFICATION FairSpec
CONSTANTS
  c1 = c1
  c2 = c2
  c3 = c3
  Call = {c1, c2, c3}
  Nil = Nil
  MaxConnections = 3
  MaxId = 2
CHECK_DEADLOCK FALSE
INVARIANT TypeOK
INVARIANT AnswersWithinConnection
INVARIANT RunsOnce
PROPERTY OneReader
PROPERTY ShutdownReturns
PROPERTY FirstConnectionServes
