CONSTANTS
  a = a
  b = b
  i = i
  j = j
  c0 = c0
  c1 = c1
  NoMessage = NoMessage
  Events = {a, b}
  EventIds = {i}
  IdOf <- SharedId
  Checkpoints = {c0, c1}
  Pages <- OnePage
  CommitRate = 2
  MaxChannel = 1
  MaxQueued = 1
  MaxOpens = 2
  MaxCrashes = 0
  MaxFailures = 1
SPECIFICATION Spec
INVARIANTS
  WriterInv
  AckedEventsStored
  DuplicatesBounded
  DeleteAnswer
\* The last session may end.
CHECK_DEADLOCK FALSE
