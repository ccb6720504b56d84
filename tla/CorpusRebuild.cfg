\* Rebuilds by administrators and scripts, overlapping or not, failures, restarts and a reader.
SPECIFICATION Spec
CONSTANTS
  Keys <- MCKeys
  Channel <- MCChannel
  Popular <- MCPopular
  InitDocs <- MCInitDocs
  MinDocs = 1
  MaxDocs = 2
  Fraction = 50
  Jobs = {j1, j2}
  Requests <- MCRequests
  None = None
INVARIANTS
  TypeOK
PROPERTIES
  CorpusNeverShrinks
  LibraryFollowsDocs
  ServedIsNewest
SYMMETRY Symmetric
CHECK_DEADLOCK FALSE
