\* Two approvers, the router and the gates, one crash of each side.
SPECIFICATION FairSpec
CONSTANTS
  i1 = i1
  s1 = s1
  Intents = {i1}
  SafetyTrades = {s1}
  BatchSize = 2
  ApproverBatch = 2
  MaxCrashes = 1
  MaxRouterCrashes = 1
INVARIANTS
  NothingOvertaken
PROPERTIES
  ExecutesAtMostOnce
  GateReopeningSettles
