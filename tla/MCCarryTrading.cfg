\* The deployed pair, without and with an owner who confirms and releases.
SPECIFICATION Spec
CONSTANTS
  btc = btc
  eth = eth
  Symbols = {btc, eth}
  CarryPairs <- MCPairs
  SpreadPairs <- MCSpreadPairs
  InitialCapital = 1000
  FundingMaxPct = 60
  BasisMaxPct = 25
  CashReservePct = 12
  DrawdownScaling = TRUE
  Notionals <- MCNotionals
  Readings <- MCReadings
  Rates <- MCRates
  NoRate = NoRate
  MinAnnualYield = 5000
  ExitThresholdDiff = 5
  NegativeExitCycles = 2
  MaxAllocation = 60
  AllocationByDiff <- MCTiers
  MinNotional = 1
  CarryCooldown = 1
  LookbackPeriods = 3
  NegativeThreshold = 60
  ReducePosition = 25
  ExitAllOnPersistent = TRUE
  PersistentPeriods = 2
  Conditions <- MCConditions
  EntryStdDev = 2
  ExitStdDev = 0
  SpreadAllocation = 25
  SpreadEquity = 1000
  MaxHold = 1
  SpreadCooldown = 1
  Reads <- MCReads
  Equities = {1000}
  Drifts <- MCDrifts
  Modes = {"deployed", "attended"}
INVARIANTS
  WithinPeakShares
  SpreadExitReversesEntry
  ReservedCoversHeld
PROPERTIES
  LowCarryAsksExit
