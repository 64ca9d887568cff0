\* Phase 1 as shipped: readings, days, halts, trades, positions and intents.
SPECIFICATION Spec
CONSTANTS
  btc = btc
  eth = eth
  Symbols = {btc, eth}
  Intents <- MCIntents
  Exposures <- MCExposures
  Equities <- MCEquities
  PnLs <- MCPnLs
  DayLength = 2
  SafetyTime = 1
  MaxTime = 4
  MaxTrades = 1
  Enabled = TRUE
  Mode = "phase1"
  InitialBalance = 1000
  DailySoft = 30
  DailyHard = 40
  DailyBreach = 50
  OverallSoft = 70
  OverallHard = 85
  OverallBreach = 100
  MaxRiskPerTrade = 30
  ProfitDistribution = 400
  StopLossDefault = 25
  MaxMarginExposure = 250
  MaxNotionalMultiple = 2
  StopLossDeadline = 1
INVARIANTS
  TypeOK
  HighWaterIsDayPeak
  HaltedIffUnclearedBreach
  ApprovedOnlyWithinLimits
  TradedTodayMatchesDays
  NoNeedlessSafetyTrade
  ReportedPositionsAreOverdue
