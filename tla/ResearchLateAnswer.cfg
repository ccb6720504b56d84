\* Requests do not overlap, but the agent may answer after the watchdog's threshold.
SPECIFICATION Spec
CONSTANTS
  MaxTurns = 3
  StaleTicks = 1
PROPERTIES
  CitationsGrow
CHECK_DEADLOCK FALSE
