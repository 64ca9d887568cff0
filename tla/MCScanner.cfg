\* Five ticks over two days, three alerts, one restart, one disk failure.
SPECIFICATION Spec
CONSTANTS
  btc = btc
  Symbols <- MCSymbols
  DayLength = 3
  MaxTradesPerDay = 2
  MaxConsecutiveLosses = 2
  DailyStopLoss <- MCDailyStopLoss
  CooldownAfterAlert = 1
  MaxRiskPerTrade = 50
  Leverage = 10
  DefaultRR = 2
  TP2Multiplier = 3
  TP3Multiplier = 4
  ATRMultiplierSL = 15
  MinSLDistance = 30
  MaxSLDistance = 200
  MinPositionSize = 7
  InitialBalance = 40
  MinConfluence = 3
  CooldownPerSymbol = 2
  MaxConcurrentTrades = 2
  MaxHistory = 2
  FeeRate = 11
  MarketAt <- MCMarketAt
  Findings <- MCFindings
  BalanceAt <- MCBalanceAt
  MaxTime = 4
  MaxAlerts = 3
  MaxRestarts = 1
  MaxDiskFailures = 1
INVARIANTS
  GateKeepsLimits
  TradesPerDay
  HistorySurvives
PROPERTIES
  StopsLoseTargetsGain
  PlansWithinRules
