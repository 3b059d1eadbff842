SPECIFICATION MCSpec
CONSTANTS
  Chosen = {"scope"}
  N = 3
  Founds <- MCFounds
  MaxLines = 8
  MaxDepth = 2
  MaxNumber = 2
  MaxDefines = 0
  None = None
  Claims <- MCClaims
  Splits <- MCSplits
  Said <- MCSaid
  Endings <- MCEndings
  Strays = {}
INVARIANT CasesApart
CONSTRAINT OneBlock
CHECK_DEADLOCK FALSE
