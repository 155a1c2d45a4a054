SPECIFICATION FairScanSpec
CONSTANTS
  ada = ada
  btc = btc
  Symbols = {btc}
  SymbolOrder <- OneSymbol
  PairStrategies = {"arb", "funding"}
  LegacyStrategies = {}
  ZscoreEnabled = TRUE
  DirEnabled = FALSE
  TimeStop = 1
  MaxHold = 1
  Exchanges = {binance, bybit}
  Trades = {t1}
  CooldownSec = 0
  LossCooldownSec = 0
  MaxOpenPerPair = 1
  HistoryLimit = 1
  MaxTime = 1
  None = None
PROPERTY PositionsTimeOut
