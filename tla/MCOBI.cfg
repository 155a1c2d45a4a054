SPECIFICATION FairSpec
CONSTANTS
  A = A
  B = B
  Symbols <- MCSymbols
  Moves <- MCMoves
  Books <- MCBooks
  Threshold = 60
  MinLead = 1
  TakeProfit = 2
  StopLoss = 2
  Fee = 0
  Cooldown = 2
  Stale = 0
  Timeout = 1
  MaxHold = 1
  Cap = 2
  Epoch = 2
  MaxTime = 4
INVARIANTS LiveIsYoung LostOnlyWhenSilent LiveAreSpaced
PROPERTIES OverdueEnds
CHECK_DEADLOCK FALSE
