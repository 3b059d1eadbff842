SPECIFICATION SpecVerify
CONSTANTS
  Theorems <- MCTheorems
  Comparisons = {"c"}
  Versions <- MCVersions
  BadVersion = "bad"
  Cites <- MCCites
  WantsProved = {"t"}
  Includes <- MCIncludes
  MaxRuns = 2
  MaxFaults = 2
  None = None
INVARIANTS BuiltIsFresh NeverStale GreenIsFresh FreshIsVerified
PROPERTY RunEnds
CHECK_DEADLOCK FALSE
