SPECIFICATION Spec
CONSTANTS
  P = P
  Pairs <- MCPairs
  Local <- MCLocal
  Defaults = {}
  Retention = 4
  Window = 3
  MaxGap = 1
  Every = 5
  Day = 2
  Month = 3
  RunAt = 1
  Retry = 0
  MaxRun = 1
  MaxRuns = 1
  MaxTime = 6
INVARIANTS HolesEndAtWindows StuckIsExplained ScheduleKept SeesLatest TornByTwoWriters
CHECK_DEADLOCK FALSE
