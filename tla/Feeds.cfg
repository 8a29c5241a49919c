SPECIFICATION FairSpec
CONSTANTS
  Callers = {c1, c2}
  Refreshes = {g1, g2}
  Periods = {"1d"}
  Setups <- MCSetups
  Queries <- MCQueries
  PageSize = 2
  MaxPages = 2
  Backoff = 1
  MaxStale = 3
  DefaultTTL = 2
  LeastTTL = 1
  MostTTL = 2
  MaxAreas = 1
  MaxVertices = 2
  DefaultLimit = 1
  MaxLimit = 2
  DefaultNear = 1
  MaxNear = 2
  DefaultRadius = 1
  MaxRadius = 3
  MaxTime = 3
INVARIANTS MissesShareOneCall NothingIsMissing
PROPERTIES ProviderIsSpared WaitingLosesNothing CopiesGetNewer CopiesAreWhole WaitersAreAnswered
