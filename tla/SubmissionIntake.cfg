SPECIFICATION IntakeSpec
CONSTANTS
  Users = {u1}
  Files = {f1, f2, f3}
  Requests = {q1, q2, q3}
  NoObject = NoObject
  NoUser = NoUser
  MaxDailySubs = 1
  MaxTotalSubs = 2
  MaxDay = 3
SYMMETRY Symmetry
CHECK_DEADLOCK FALSE
INVARIANTS
  LimitsRespected
  RowHasItsObject
  QueuedRowAccountedFor
