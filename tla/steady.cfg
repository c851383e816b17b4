SPECIFICATION FairSpec
CONSTANTS
  n1 = n1
  n2 = n2
  n3 = n3
  Command = {1, 2, 3}
  Node = {n1, n2, n3}
  Nil = Nil
  Electable = {n1}
  InOrder = TRUE
  MaxTerm = 1
  MaxQueue = 2
  MaxCuts = 0
  MaxRestarts = 0
  MaxWriteErrors = 0
  MaxGone = 1
INVARIANT NothingRepeats
INVARIANT LeaderAppliesInOrder
PROPERTY KeepsPromises
