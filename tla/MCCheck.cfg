SPECIFICATION MCSpec
CONSTANTS
  Chosen = {"in_order", "shared", "kept", "sorts", "inspection"}
  N = 4
  Most = 3
  Cores = 4
  Answer <- MCAnswer
  Nothing = Nothing
  Panicked = Panicked
  CanPanic = {2}
  A = A
  B = B
  C = C
  Order <- MCOrder
  RecordFile = R
  Written <- MCWritten
  Slots <- MCSlots
  Takers = {1, 2}
  MaxEdits = 2
  Absent = Absent
  None = None
  Threads = 2
  MaxSharedEdits = 1
  Corpora <- MCCorpora
  Own <- MCOwn
  Pairs <- MCPairs
  Named = TRUE
  Wanted <- MCWanted
  Unsaid = Unsaid
  Signatures <- MCSignatures
  Statements <- MCStatements
  Events <- MCEvents
  MaxLines = 4
INVARIANTS NoItemTwice AsOneWorker NothingDropped
  KeptSaysFresh ReachSound EditedSaysRun StaysOpen AsSaid
  InspectionFollows InspectionIsWritten
PROPERTIES ImplementsMap CheckEnds
CHECK_DEADLOCK FALSE
