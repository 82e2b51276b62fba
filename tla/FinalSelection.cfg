SPECIFICATION Spec
CONSTANTS
  soon = soon
  u1 = u1
  u2 = u2
  r1 = r1
  r2 = r2
  r3 = r3
  Calls = {c1}
  Crons = {p1, p2}
  NoCron = NoCron
  Settings = {soon}
  EndsAt <- MCEndsAt
  MaxTime = 1
  MaxFaults = 1
  Users = {u1}
  Rows = {r1, r2}
  Owner <- MCOwner
  PrivateScore <- MCPrivateScore
  LowerIsBetter = FALSE
  Clicks = {k1, k2}
  NoRow = NoRow
CHECK_DEADLOCK FALSE
SYMMETRY Symmetry
INVARIANTS
  TypeOK
  SelectionSound
PROPERTIES
  SelectionStays
