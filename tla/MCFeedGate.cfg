\* One symbol: reconnections, drops, losses, a restart of either process.
SPECIFICATION GateSpec
CONSTANTS
  btc = btc
  Symbols = {btc}
  Tickers <- MCTickers
  Ticks <- MCTicks
  SettledRates <- MCSettledRates
  Backoffs <- MCBackoffs
  ChannelSize = 1
  Absent = Absent
  LastUpdate = 2
  MaxMessages = 3
  MaxFeedRestarts = 1
  MoveThreshold = 5
  Window = 1
  MaxSpread = 6
  Cooldown = 2
  StaleQuote = 1
  MaxDelay = 4
  MaxTime = 4
  MaxQuotes = 3
  ReadBatch = 2
  PublisherTTL = 1
  StateTTL = 2
  MaxRiskRestarts = 1
INVARIANTS
  QuotesShowTheMarket
  OpenExactlyWithCause
PROPERTIES
  DrivesBreaker
  SilenceShutsGate
