CONSTANTS
  a = a
  b = b
  c = c
  NoEvent = NoEvent
  Events = {a, b, c}
  EventIds = {a, b, c}
  IdTables <- OwnOrSharedIds
  CommitRate = 2
  Times = {1, 2, 3}
  PageSize = 2
  MaxCrashes = 1
SPECIFICATION FairSpec
INVARIANTS
  ProgressInv
  OpensComplete
  IndexedOnce
  ProgressTold
PROPERTIES
  ReindexEnds
