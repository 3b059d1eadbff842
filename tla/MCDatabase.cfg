SPECIFICATION MCSpec
CONSTANTS
  Chosen = {"builder", "renumber", "library"}
  Addresses = {a1, a2, a3, a4, a5}
  Labels = {"vx", "suc", "ax", "up", "two"}
  Sigs <- MCSigs
  MaxBorn = 5
  None = None
  Theorems <- MCTheorems
  Shifts <- MCShifts
  MaxPart = 4
  MaxWrites = 4
  GapsFilled = TRUE
  Symbols = {x, y}
  Bodies <- MCBodies
  Inference = {t}
  MaxRead = 6
  MaxAdded = 1
SYMMETRY Perms
INVARIANTS KnownIsTrue FaultExact CitesTheSame SignatureIsFrame
PROPERTY NestedAsBefore
CHECK_DEADLOCK FALSE
