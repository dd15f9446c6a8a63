SPECIFICATION MCSpec
CONSTANTS
  Conn = {c1, c2}
  Dir = {d1, d2}
  d1 = d1
  NoTailer = NoTailer
  Playing = {d1}
  MayFail = TRUE
  MaxSets = 3
  MaxCrashes = 1
  Copy = {s1, s2, s3}
  NoCopy = NoCopy
  Version = {1, 2}
  MaxTries = 2
SYMMETRY Symmetric
INVARIANTS TypeOK TailedIsLive DetectionRuns OrderlyOneTailerPerDir OrderlySettledIsKnown
INVARIANTS SomebodyServes
CHECK_DEADLOCK FALSE
