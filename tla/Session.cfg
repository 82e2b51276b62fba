SPECIFICATION FairSpec
CONSTANTS
  Tabs = {t1, t2}
  None = None
  MaxTime = 2
  MaxActs = 4
CHECK_DEADLOCK FALSE
INVARIANTS
  SessionContinues
  TabConsistent
PROPERTIES
  PageSettles
