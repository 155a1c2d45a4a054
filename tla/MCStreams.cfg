SPECIFICATION FairSpec
CONSTANTS
  Exchanges = {bybit}
  SilentAfter = 3
  RebuildAfter = 3
  MaxLag = 2
  MaxRefreshes = 2
INVARIANT OneLiveStream
PROPERTIES
  StopEndsStreams
  DeadStreamRevived
