SPECIFICATION MCSpec
CONSTANTS
  Chosen = {"frames"}
  Threads = {t1, t2, t3}
  Texts <- MCTexts
  Kind <- MCKind
  Spelt <- MCSpelt
  Asked <- MCAsked
  Known <- MCKnown
  KnownOf <- MCKnownOf
  Capacity <- MCCapacity
  MaxAsks = 3
  None = None
  MaxIds = 4
  Bys = {"proof", "contradiction", "cases", "induction"}
  Shadowing = FALSE
  OwnersEnd = TRUE
  Asks <- MCAsks
  Grid <- MCGrid
  Terms = {"x", "y", "z"}
  Lines <- ChainLines
  Links <- ChainSteps
  Claims <- ChainClaims
  Most <- ChainMost
  Numbers = {0, 1, 2}
INVARIANT KernelAccepts
CHECK_DEADLOCK FALSE
