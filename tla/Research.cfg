\* Overlapping requests and writers, failures, hanging and late agents, process stops,
\* watchdog passes and deletion in every order.
SPECIFICATION FairSpec
CONSTANTS
  MaxTurns = 3
  StaleTicks = 1
INVARIANTS
  TypeOK
  ReportMergesItsTurns
PROPERTIES
  ImplementsResearchThread
  EverySessionSettles
CHECK_DEADLOCK FALSE
