SPECIFICATION Spec
CONSTANTS
  Area = {a1}
  Char = {}
  None = None
  LineKinds = {"start", "area", "afk_on", "afk_off"}
  SameSecond = FALSE
  Rereads = {0}
  WholeAgain = FALSE
  MaxLines = 5
  MaxTime = 4
  MaxRestarts = 1
  MaxSweeps = 0
INVARIANT TotalIsLength
CHECK_DEADLOCK FALSE
