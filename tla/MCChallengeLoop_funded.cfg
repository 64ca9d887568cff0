\* A funded account: what the process tracks under repeated approvals, with a
\* restart.
SPECIFICATION LoopSpec
CONSTANTS
  btc = btc
  eth = eth
  Symbols = {btc, eth}
  Intents <- MCIntents
  Exposures <- NoExposures
  Equities <- MCEquities
  PnLs <- NoPnLs
  DayLength = 2
  SafetyTime = 1
  MaxTime = 4
  MaxTrades = 0
  NoReading = NoReading
  MaxRestarts = 1
  MaxSafetyTrades = 1
  Enabled = TRUE
  Mode = "funded"
  InitialBalance = 1000
  DailySoft = 30
  DailyHard = 40
  DailyBreach = 50
  OverallSoft = 70
  OverallHard = 85
  OverallBreach = 100
  MaxRiskPerTrade = 30
  ProfitDistribution = 400
  StopLossDefault = 25
  MaxMarginExposure = 250
  MaxNotionalMultiple = 2
  StopLossDeadline = 1
INVARIANTS
  FundedMarginCapped
PROPERTIES
  OverdueForGood
