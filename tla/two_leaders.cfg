SPECIFICATION Spec
CONSTANTS
  n1 = n1
  n2 = n2
  n3 = n3
  Command = {}
  Node = {n1, n2, n3}
  Nil = Nil
  Electable = {n1, n2}
  InOrder = TRUE
  MaxTerm = 1
  MaxQueue = 1
  MaxCuts = 0
  MaxRestarts = 0
  MaxWriteErrors = 0
  MaxGone = 0
CHECK_DEADLOCK FALSE
INVARIANT OneLeaderPerTerm
