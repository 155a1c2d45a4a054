SPECIFICATION FairScanSpec
CONSTANTS
  ada = ada
  btc = btc
  Symbols = {ada, btc}
  SymbolOrder <- TwoSymbols
  PairStrategies = {"funding"}
  LegacyStrategies = {}
  ZscoreEnabled = FALSE
  DirEnabled = FALSE
  TimeStop = 1
  MaxHold = 1
  Exchanges = {binance, bybit}
  Trades = {t1}
  CooldownSec = 0
  LossCooldownSec = 0
  MaxOpenPerPair = 1
  HistoryLimit = 1
  MaxTime = 2
  None = None
PROPERTY FundingTimesOut
