SPECIFICATION Spec
CONSTANTS
  c1 = c1
  c2 = c2
  c3 = c3
  Call = {c1, c2, c3}
  Nil = Nil
  MaxConnections = 2
  MaxId = 2
SYMMETRY CallsAreAlike
CHECK_DEADLOCK FALSE
INVARIANT OwnAnswers
