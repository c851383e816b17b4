SPECIFICATION Spec
CONSTANTS
  n1 = n1
  n2 = n2
  Command = {1, 2}
  Node = {n1, n2}
  Nil = Nil
  Electable = {n1, n2}
  InOrder = TRUE
  MaxTerm = 3
  MaxQueue = 1
  MaxCuts = 0
  MaxRestarts = 1
  MaxWriteErrors = 0
  MaxGone = 0
CHECK_DEADLOCK FALSE
INVARIANT AppendsComeFromElected
INVARIANT RedirectTargetWasLeader
INVARIANT WinsAreOnDisk
INVARIANT AnswersAreHonest
INVARIANT EntriesAreGenuine
INVARIANT NobodyAppliesAhead
INVARIANT ExecutedIsDurable
PROPERTY ElectedOncePerTerm
PROPERTY TermsNeverGoBack
