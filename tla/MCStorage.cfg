SPECIFICATION FairSpec
CONSTANTS
  Trades = {t1, t2}
  Capacity = 2
  None = None
INVARIANTS
  PipelineKeepsLast
  CloseKeepsAll
PROPERTY ClosedIsCommitted
CHECK_DEADLOCK FALSE
