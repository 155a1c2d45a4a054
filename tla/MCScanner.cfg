SPECIFICATION ScanSpec
CONSTANTS
  ada = ada
  btc = btc
  Symbols = {btc}
  SymbolOrder <- OneSymbol
  PairStrategies = {"arb", "scalp", "funding"}
  LegacyStrategies = {"arb", "scalp"}
  ZscoreEnabled = TRUE
  DirEnabled = TRUE
  TimeStop = 1
  MaxHold = 1
  Exchanges = {binance, bybit}
  Trades = {t1, t2}
  CooldownSec = 1
  LossCooldownSec = 2
  MaxOpenPerPair = 1
  HistoryLimit = 1
  MaxTime = 2
  None = None
SYMMETRY Symmetry
INVARIANTS StatsBalance JournalMatchesTable PairLimit EntriesSpaced
PROPERTIES EmulatorSpec ImplementsBook
