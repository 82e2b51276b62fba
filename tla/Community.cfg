SPECIFICATION Spec
CONSTANTS
  Users = {u1, u2}
  Host = u1
  Admin = u2
  Handlers = {h1, h2}
  Replicas = {p1, p2}
  None = None
  SUBMISSION_BADGES <- MCSubmissionBadges
  HelpfulAt = 1
  MaxCalls = 4
  MaxEvents = 2
  MaxRequests = 5
CHECK_DEADLOCK FALSE
SYMMETRY Symmetry
INVARIANTS
  TypeOK
  CountersMatch
  AwardedOnce
