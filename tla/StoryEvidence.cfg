\* Every answer and failure of providers, browser and models, with enrichment on.
SPECIFICATION Spec
CONSTANTS
  a = a
  b = b
  c = c
  d = d
  e = e
  None = None
  Held <- MCHeld
  Urls = {a, b, c, d, e}
  Blank = Blank
  SearchCap = 1
  Plans <- MCPlans
  Focus <- MCFocus
  Attachments = 1
  DefaultMinutes = 10
  Minutes = 5
  Outlines <- MCOutlines
  Listed = 3
  Reread = 4
  MaxIterations = 3
  MaxCycles = 1
  Enrichment = TRUE
INVARIANTS
  TypeOK
  EvidenceOnce
  CitationsListed
  PlanFitsEpisode
  LanesKept
PROPERTIES
  RewriteKeepsCitations
CHECK_DEADLOCK FALSE
