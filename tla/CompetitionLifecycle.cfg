SPECIFICATION FairLifecycleSpec
CONSTANTS
  soon = soon
  late = late
  Calls = {c1, c2}
  Crons = {p1, p2}
  NoCron = NoCron
  Settings = {soon, late}
  EndsAt <- MCEndsAt
  MaxTime = 1
  MaxFaults = 2
CHECK_DEADLOCK FALSE
PROPERTIES
  EndedCompletes
INVARIANTS
  ReviewedFirst
  ExclusiveUnlessLapsed
