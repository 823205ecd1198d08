SPECIFICATION MCSpec
CONSTANTS
  p1 = p1
  p2 = p2
  d1 = d1
  d2 = d2
  d3 = d3
  Peers <- MCPeers
  Dialers <- MCDialers
  Ids <- MCIds
  StatesOf <- MCStatesOf
  None = None
  Attempts = 2
  Facts = {"f", "g"}
  PathEvidence = {"a", "b"}
  Callers = {11, 12}
  Sources = {1, 2}
  Places = {1, 2}
  Requests <- MCRequests
  Cases <- MCCases
  HalfSize <- MCHalfSize
  SourceBytes = 4
  TotalBytes = 4
INVARIANTS
  ConnectedIsUp
  EveryConnectionOwned
  ResolutionSound
  ResolutionUsable
  DeliveryHonest
  OneVersion
PROPERTY DialsEnd
CHECK_DEADLOCK FALSE
