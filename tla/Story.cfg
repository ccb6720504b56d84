\* Every order of requests, overlapping or not, agents that answer late or never, failures,
\* process stops, watchdog passes and deletion.
SPECIFICATION FairSpec
CONSTANTS
  MaxCycles = 1
  MaxStories = 3
  MaxJobs = 4
INVARIANTS
  TypeOK
  ScriptMatchesSelection
PROPERTIES
  StatusMovesForward
  ImplementsStoryLifecycle
  EveryStoryEnds
CHECK_DEADLOCK FALSE
