SPECIFICATION FairSpec
CONSTANTS
  NaN = NaN
  Rejected = Rejected
  NoScore = Rejected
  NoEntry = NoEntry
  NoPage = NoPage
  Scale = 12
  Float32Limit = 2
  MaxCsvRows = 4
  SplitNum = 1
  SplitDen = 2
  Competitions <- MCCompetitions
  Submissions <- MCSubmissions
  Files <- MCFiles
  Outcome <- StandaloneOutcome
  Ascending <- LowerIsBetter
  Users = {u1, u2, u3}
  Readers = {r1}
  Limit = 2
  Ttl = 1
  MaxFiles = 3
CHECK_DEADLOCK FALSE
INVARIANTS
  TypeOK
  EntryIsBest
  CachedNeverAhead
  WorkersAgree
  SplitFollowsTruth
PROPERTIES
  BestScoresSpec
  RanksCountBetter
  EventuallyFresh
