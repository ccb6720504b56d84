\* A script edited by hand while a chat operation works on the plan.
SPECIFICATION Spec
CONSTANTS
  a = a
  b = b
  None = None
  Texts <- MCTexts
  MaxRequests = 6
  MaxEdits = 1
  MaxVersions = 2
  EditsWait = FALSE
  PunctualAgent = TRUE
INVARIANTS
  NoScriptLost
CHECK_DEADLOCK FALSE
