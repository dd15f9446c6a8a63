SPECIFICATION FairSpec
CONSTANTS
  Session = Session
  Key = Key
  None = None
  MaxLogins = 1
  MaxLosses = 1
PROPERTY LoginOutcomeArrives
CHECK_DEADLOCK FALSE
