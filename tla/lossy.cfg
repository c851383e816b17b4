SPECIFICATION Spec
CONSTANTS
  n1 = n1
  n2 = n2
  n3 = n3
  Command = {1, 2}
  Node = {n1, n2, n3}
  Nil = Nil
  Electable = {n1}
  InOrder = FALSE
  MaxTerm = 1
  MaxQueue = 1
  MaxCuts = 1
  MaxRestarts = 0
  MaxWriteErrors = 1
  MaxGone = 1
CHECK_DEADLOCK FALSE
INVARIANT TypeOK
INVARIANT LogsArePrefixes
INVARIANT FollowersSkipNothing
INVARIANT DiskMatchesMemory
