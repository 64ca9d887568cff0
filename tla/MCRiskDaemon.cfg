\* Readings, fills, snapshots and operator commands over two days.
SPECIFICATION Spec
CONSTANTS
  SafeModeDrawdown = 70
  MaxDrawdown = 100
  DailySoftHalt = 30
  DailyHardHalt = 40
  MaxErrorRate = 200
  ErrorWindow = 1
  LegMismatchClose = 1
  DayLength = 2
  Equities <- MCEquities
  Books <- MCBooks
  MaxTime = 4
  MaxReadings = 2
  MaxFills = 2
INVARIANTS
  TypeOK
  PeaksAreReadings
  ModeIsGravestDemand
