SPECIFICATION Spec
CONSTANTS
  f1 = f1
  f2 = f2
  Users = {u1}
  Files = {f1, f2}
  Requests = {q1, q2}
  NoObject = NoObject
  NoUser = NoUser
  MaxDailySubs = 2
  MaxTotalSubs = 0
  MaxDay = 1
  Slots = {w1, w2}
  NoSlot = NoSlot
  NoRow = NoRow
  PublicScore <- MCPublicScore
  PrivateScore <- MCPrivateScore
  Unscorable = {}
  HigherIsBetter = TRUE
  MaxAttempts = 2
  MaxStalled = 1
  MaxFaults = 2
CHECK_DEADLOCK FALSE
SYMMETRY Symmetry
INVARIANTS
  CompletedIsRanked
  CompletedStaysScored
  BoardSound
PROPERTIES
  IntakeSpec
