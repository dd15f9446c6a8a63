SPECIFICATION FairSpec
CONSTANTS
  Account = {a}
  None = None
  MayFail = TRUE
  MaxTimers = 2
  MaxLogins = 2
  MaxLogouts = 1
  MaxRestarts = 1
INVARIANTS TypeOK OneLoginFlow RefreshPending
PROPERTY LoginEnds
CHECK_DEADLOCK FALSE
