SPECIFICATION MCSpec
CONSTANTS
  a1 = a1
  a2 = a2
  c1 = c1
  c2 = c2
  Area = {a1}
  Char = {}
  None = None
  LineKinds = {"start", "area", "afk_on", "afk_off", "lost", "gained"}
  SameSecond = FALSE
  Rereads = {0, 1}
  WholeAgain = FALSE
  MaxLines = 5
  MaxTime = 3
  MaxRestarts = 1
  MaxSweeps = 1
INVARIANTS ReadOnceSpansTile ReadOnceAwayAgrees SessionsDisjoint SecondReadingAddsEarlyDeaths
CHECK_DEADLOCK FALSE
