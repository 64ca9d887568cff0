\* Orders filled in part: are the legs equal in the end?
SPECIFICATION Spec
CONSTANTS
  MaxRetriesPerLeg = 1
  HedgeDriftMax = 1
  MaxUnwindRetries = 1
  Lots = 2
  Parts = {1}
  ExpiresAt = 2
  Faults = {"partial"}
  MaxTime = 3
INVARIANTS
  NeutralAfterPartial
CHECK_DEADLOCK FALSE
