SPECIFICATION FairSpec
CONSTANTS
  Install = {a}
  Kind = {"live", "quiet"}
  Chunk = 2
  Cap = 1
  MaxBatch = 2
  MayFail = FALSE
  MaxLines = 3
  MaxTruncates = 0
  MaxStarts = 1
  MayStop = FALSE
  Free = Free
  Others = {o}
PROPERTY EveryEventRecorded
