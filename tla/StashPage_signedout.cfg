SPECIFICATION Spec
CONSTANTS
  None = None
  Error = Error
  MaxClicks = 1
  MaxNews = 1
INVARIANT SignedOutHasNoLeague
CHECK_DEADLOCK FALSE
