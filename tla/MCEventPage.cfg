SPECIFICATION PageSpec
CONSTANTS
  s1 = s1
  s2 = s2
  NoKey = NoKey
  Slot = {s1, s2}
  MaxBookings = 2
  NoSlot = NoSlot
  NoCache = NoCache
  Poll = {p1, p2}
  Attempts = 1
  Capacity = 1
  Sizes = {1, 2}
  Opening = {s1}
  Budgets <- Actors
CHECK_DEADLOCK FALSE
INVARIANTS PageTypeOK CacheMatchesRows BookingsKeepTheirSlot
PROPERTIES PageCatchesUp
