SPECIFICATION Spec
CONSTANTS
  Account = {a}
  None = None
  MayFail = FALSE
  MaxTimers = 2
  MaxLogins = 1
  MaxLogouts = 1
  MaxRestarts = 0
INVARIANT LogoutIsFinal
CHECK_DEADLOCK FALSE
