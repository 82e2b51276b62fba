SPECIFICATION Spec
CONSTANTS
  Handlers = {h1, h2}
  None = None
  MaxFailedLogins = 2
  BackupCodes = 1
  MaxCalls = 5
CHECK_DEADLOCK FALSE
SYMMETRY Symmetry
INVARIANTS
  TypeOK
  SessionMatchesPassword
  FailuresCounted
  SecondFactorSound
  DeletedIsErased
