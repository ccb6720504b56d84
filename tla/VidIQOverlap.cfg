\* The same fetches: the budget of every one of them, also those that overlap.
SPECIFICATION Spec
CONSTANTS
  d1 = d1
  d2 = d2
  s = s
  k1 = k1
  k2 = k2
  v1 = v1
  None = None
  Reports <- MCReports
  Seeds <- MCSeeds
  Related <- MCRelated
  Generic <- MCGeneric
  Single = {}
  Process = {}
  Adds <- MCAdds
  Found <- MCFound
  MaxCalls = 3
  Fanout = 1
  CacheLimit = 3
INVARIANTS
  SpendCapped
CHECK_DEADLOCK FALSE
