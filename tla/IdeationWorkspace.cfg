\* Edits wait for operations and agents are on time: failures, restarts, deletion
\* and every order of requests.
SPECIFICATION FairSpec
CONSTANTS
  a = a
  b = b
  None = None
  Texts <- MCTexts
  MaxRequests = 6
  MaxEdits = 1
  MaxVersions = 2
  EditsWait = TRUE
  PunctualAgent = TRUE
INVARIANTS
  TypeOK
  ScriptMatchesPlan
PROPERTIES
  ImplementsIdeationDesk
  EveryOperationEnds
CHECK_DEADLOCK FALSE
