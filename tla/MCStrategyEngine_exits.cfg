CONSTANTS
  btc = btc
  sol = sol
  PairList <- MCPairList
  Conditions <- MCConditions
  MinCorrelation = 70
  MinFundingDiff = 50
  MinFundingAnnual = 5
  FundingExitThreshold = 5
  FundingNegativeExitCycles = 2
  BasisEntryZScore = 20
  BasisExitZScore = 5
  MinSpreadEdge = 5
  RoundTripCost = 22
  BasisHoldingMax = 1
  MaxConcurrentPositions = 3
  MaxAllocationPct = 30
  TotalMaxAllocationPct = 60
  MinNotional = 20
  Cooldown = 1
  Equities = {100000}
  FillPrice = 26500
  HedgeRegimes = {"NEUTRAL"}
  Worlds = {{}}
  MaxLots = 1
  MaxInFlight = 2
  MaxEvents = 6
SPECIFICATION EngineSpec
CHECK_DEADLOCK FALSE
INVARIANTS ExitReversesEntry
