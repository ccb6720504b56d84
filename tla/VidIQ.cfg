\* Two fetches of any kind overlap or not: every answer, failure, expiry and timeout.
SPECIFICATION FairSpec
CONSTANTS
  d1 = d1
  d2 = d2
  s = s
  k1 = k1
  k2 = k2
  v1 = v1
  None = None
  Reports <- MCReports
  Seeds <- MCSeeds
  Related <- MCRelated
  Generic <- MCGeneric
  Single = {}
  Process = {}
  Adds <- MCAdds
  Found <- MCFound
  MaxCalls = 3
  Fanout = 1
  CacheLimit = 3
INVARIANTS
  TypeOK
  CallsBudgeted
  PartialIsHonest
PROPERTIES
  EveryReportEnds
CHECK_DEADLOCK FALSE
