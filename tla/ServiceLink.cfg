SPECIFICATION FairSpec
CONSTANTS
  BufSize = 1
  NetSize = 1
  MaxEdits = 1
  MaxPolls = 1
  MaxEvents = 1
  MaxLosses = 1
INVARIANTS CalledOnce OneSweep ResyncedAfterReconnect
PROPERTIES Reconnects EverySentRequestEnds
CHECK_DEADLOCK FALSE
