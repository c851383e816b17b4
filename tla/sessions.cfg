SPECIFICATION FairSpec
CONSTANTS
  Nil = Nil
  MaxSessions = 2
  MaxArrivals = 3
  MaxRefused = 1
  MaxLost = 1
CHECK_DEADLOCK FALSE
INVARIANT TypeOK
INVARIANT AnswersAreOwed
INVARIANT InOnePlace
INVARIANT ShutdownClosesSessions
PROPERTY RequestsAreAnswered
PROPERTY SessionsEnd
