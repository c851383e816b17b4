SPECIFICATION Spec
CONSTANTS
  Nil = Nil
  Damaged = Damaged
  Member = {n1, n2, n3}
  Local = n1
  MaxNamed = 2
  MaxUnsaved = 2
INVARIANT TypeOK
INVARIANT FileIsBeforeOrAfter
INVARIANT PeersAreListed
INVARIANT NodeCanRestart
