SPECIFICATION Spec
CONSTANTS
  n1 = n1
  n2 = n2
  n3 = n3
  n4 = n4
  Command = {}
  Node = {n1, n2, n3, n4}
  Nil = Nil
  Electable = {n1, n2}
  InOrder = TRUE
  MaxTerm = 2
  MaxQueue = 0
  MaxCuts = 0
  MaxRestarts = 0
  MaxWriteErrors = 0
  MaxGone = 0
CHECK_DEADLOCK FALSE
INVARIANT LeaderWonMajority
INVARIANT VotesWereGranted
