\* Two pools run side by side and fail, or are cancelled, at any moment.
SPECIFICATION FairSpec
CONSTANTS
  None = None
  Abort = Abort
  p = p
  q = q
  Pools = {p, q}
  Items <- TwoAndOne
  Limit <- TwoWorkers
INVARIANTS
  NothingOutlivesTheGroup
  ReportsAreTrue
PROPERTIES
  NothingStartsAfterTheVerdict
  GroupSettles
