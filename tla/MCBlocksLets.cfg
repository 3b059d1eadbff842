SPECIFICATION MCSpec
CONSTANTS
  Chosen = {"blocks"}
  N = 3
  Founds <- MCFounds
  MaxLines = 8
  MaxDepth = 2
  MaxNumber = 2
  MaxDefines = 0
  None = None
  Claims <- MCClaims
  Splits <- MCSplits
  Said <- MCSaid
  Endings <- MCEndings
  Strays = {"lets"}
INVARIANT BlockFollows
CHECK_DEADLOCK FALSE
