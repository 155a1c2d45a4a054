SPECIFICATION Spec
CONSTANTS
  P = P
  Pairs <- MCPairs
  Local <- MCLocal
  Defaults = {}
  Retention = 1
  Window = 1
  MaxGap = 1
  Every = 20
  Day = 4
  Month = 3
  RunAt = 0
  Retry = 1
  MaxRun = 1
  MaxRuns = 0
  MaxTime = 14
INVARIANT DailyAtItsHour
CHECK_DEADLOCK FALSE
