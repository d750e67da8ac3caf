CONSTANTS
  a = a
  b = b
  b2 = b2
  e3 = e3
  c1 = c1
  c2 = c2
  Events = {a, b, b2, e3}
  EventIds = {a, b, e3}
  IdOf <- OwnId
  Matching = {a, b, e3}
  Clients = {c1, c2}
  Tokens = {1, 2, 3, 4, 5, 6, 7}
  NoToken = 0
  Limit = 1
  Increment = 1
  CacheSize = 2
  MaxChanges = 1
SPECIFICATION Spec
INVARIANTS
  SearchInv
  PagesDisjoint
  PagesComplete
  NoEmptyPage
CHECK_DEADLOCK FALSE
VIEW UpToTokens
