SPECIFICATION Spec
CONSTANTS
  Unit = 3960
  TopLevels = 2
  Percent = 50
  SlipBps = 1000
  MinSize = 5
  MaxSize = 60
  ExitZ = 0
  StopMult = 2
  MaxHolding = 2
  Position = 20
  PairFee = 1
  IsLen = 4
  OosLen = 2
  NumFolds = 3
  StepBars = 1
  Fine = 2
  Coarse = 20
  Trifle = 200
  Tp = 15
  Sl = 10
  TrailAt = 8
  TrailBy = 5
  MaxHold = 2
  Cooldown = 1
  Warmup = 1
  PullbackBars = 2
  AskSides <- MCAskSides
  BidSides <- MCBidSides
  Targets = {0, 37, 100}
  QuoteLists <- MCQuoteLists
  Funding <- MCFunding
  PairBars <- MCPairBars
  EntryZ = 2
  Lengths = {0, 5, 6, 7, 8, 9, 10, 11, 12, 13}
  HeldBars <- MCHeldBars
  CoinBars <- MCCoinBars
  PnlLists <- MCPnlLists
  FoldLists <- MCFoldLists
  VolWindow = 2
  SpikePct = 150
  CrossPct = 120
  BodyBp = 15
  OiRows = 1
  DoiLimits = {100, 150}
  MinRows = 2
  MinSamples = 1
  CoinFiles <- MCCoinFiles
  Times = {2, 3, 4}
INVARIANTS
  SizedEntriesFill
  SpikeFoundAgain
  FundingPaidWhileHeld
  SimulatorsAgree
  FoldsSpanTheData
  VerdictsAgree
  DatasetIsCausal
  ContiguousExitsAreReal
  TradesAreSpaced
  DrawdownsReported
CHECK_DEADLOCK FALSE
