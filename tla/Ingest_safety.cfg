SPECIFICATION Spec
CONSTANTS
  Install = {a}
  Kind = {"live", "noise", "long"}
  Chunk = 2
  Cap = 1
  MaxBatch = 2
  MayFail = TRUE
  MaxLines = 3
  MaxTruncates = 1
  MaxStarts = 2
  MayStop = TRUE
  Free = Free
  Others = {}
INVARIANTS NoLeakedConnection InOrderWithoutGap AheadByOneChannel
CHECK_DEADLOCK FALSE
