CONSTANTS
  a = a
  b = b
  i = i
  j = j
  c0 = c0
  c1 = c1
  NoMessage = NoMessage
  Events = {a, b}
  EventIds = {i, j}
  IdOf <- DistinctIds
  Checkpoints = {c0, c1}
  Pages = {}
  CommitRate = 2
  MaxChannel = 1
  MaxQueued = 1
  MaxOpens = 2
  MaxCrashes = 0
  MaxFailures = 0
SPECIFICATION FairSpec
PROPERTIES
  MessagesTaken
  HandlersEnd
\* The last session may end.
CHECK_DEADLOCK FALSE
