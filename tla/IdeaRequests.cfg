\* Two requests of two users in flight at once, one client key used again and again,
\* every order of statements, worker steps and deletions.
SPECIFICATION Spec
CONSTANTS
  alice = alice
  root = root
  r1 = r1
  r2 = r2
  k1 = k1
  k2 = k2
  q1 = q1
  q2 = q2
  None = None
  Users <- MCUsers
  Admins <- MCAdmins
  RunIds <- MCRunIds
  Keys <- MCKeys
  Formats <- MCFormats
  Requests <- MCRequests
SYMMETRY MCSymmetry
INVARIANTS
  TypeOK
  OneActiveRun
  KeyServesOneRun
PROPERTIES
  DeletedIdeaStays
CHECK_DEADLOCK FALSE
