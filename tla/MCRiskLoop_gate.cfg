\* The mode, the key that gates the router, and a restart.
SPECIFICATION LoopSpec
CONSTANTS
  SafeModeDrawdown = 70
  MaxDrawdown = 100
  DailySoftHalt = 30
  DailyHardHalt = 40
  MaxErrorRate = 200
  ErrorWindow = 2
  LegMismatchClose = 2
  DayLength = 2
  Equities <- MCEquities
  Books <- NoBooks
  MaxTime = 3
  MaxReadings = 2
  MaxFills = 0
  MarginCritical = 750
  MarginHalt = 850
  Margins <- MCMargins
  ExchangeBooks <- MCExchangeBooks
  NoKey = NoKey
  MaxRestarts = 1
PROPERTIES
  GateStaysClosed
  LoweredByMarginOnly
  BlockReachesGate
