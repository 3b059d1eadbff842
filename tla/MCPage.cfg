SPECIFICATION MCSpec
CONSTANTS
  Chosen = {"surplus", "scope", "blocks", "supply"}
  N = 3
  Founds <- MCFounds
  MaxLines = 8
  MaxDepth = 2
  MaxNumber = 2
  MaxDefines = 1
  None = None
  Claims <- MCClaims
  Splits <- MCSplits
  Said <- MCSaid
  Endings <- MCEndings
  Strays = {}
INVARIANTS RemovableTogether NothingEscapes BlockFollows SupplyIsExact
CONSTRAINT Promising
CHECK_DEADLOCK FALSE
