\* One call of Execute, with every combination of faults of the exchange.
SPECIFICATION FairSpec
CONSTANTS
  MaxRetriesPerLeg = 1
  HedgeDriftMax = 1
  MaxUnwindRetries = 1
  Lots = 2
  Parts = {1}
  ExpiresAt = 2
  Faults = {"partial", "lost", "late", "pollsFail"}
  MaxTime = 3
INVARIANTS
  HedgedOrAlarmed
  NeverReversed
  NeverOverfilled
PROPERTIES
  Terminates
CHECK_DEADLOCK FALSE
