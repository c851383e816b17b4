SPECIFICATION Spec
CONSTANTS
  Nil = Nil
  Limit = 4194304
  Buffer = 128
  Numbers <- MCNumbers
  Texts <- MCTexts
  Keys <- MCKeys
  Values <- MCValues
  Spoilt = Spoilt
CHECK_DEADLOCK FALSE
INVARIANT ReadAsWritten
INVARIANT CommandsArrive
INVARIANT ResultsAreUnderstood
INVARIANT ShortCommandsFit
INVARIANT SlackForAppends
INVARIANT ShortAnswersAreSent
