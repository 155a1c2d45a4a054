SPECIFICATION FairSpec
CONSTANTS
  Coins = {btc}
  None = None
  Offsets <- SmallOffsets
  Quotes <- NarrowQuotes
  TakeProfit = 4
  HardStop = 2
  TrailAct = 2
  TrailDist = 1
  Fee = 0
  OrderTimeout = 1
  TimeStop = 1
  Cooldown = 1
  Pause = 2
  LossLimit = 2
  MaxTime = 3
  MaxOrders = 3
  MaxRestarts = 1
INVARIANTS
  ActiveIsIndexed
  CooldownRespected
  LossStreakPauses
  TrailingWins
PROPERTY OverdueEnds
CHECK_DEADLOCK FALSE
