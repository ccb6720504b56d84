\* Every interleaving of three processes on one run; stalls anywhere except
\* between the guarded SELECT and the flush; fair scheduling.
SPECIFICATION FairSpec
CONSTANTS
  w1 = w1
  w2 = w2
  w3 = w3
  r1 = r1
  None = None
  Workers <- MCWorkers
  Runs <- MCRuns
  MaxAttempts = 2
  LeaseTicks = 2
  TotalTicks = 3
  Punctual <- PersistPunctual
INVARIANTS
  TypeOK
  ExclusiveAttempt
  ResultMatchesStatus
PROPERTIES
  LeaseRespected
  ImplementsIdeaRun
  EveryRunEnds
CHECK_DEADLOCK FALSE
