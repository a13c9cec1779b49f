SPECIFICATION Spec
CONSTANTS
  NumPeers = 2
  Ip <- DistinctIps
  TotalPieces = 1
  Hashes = {1}
  NumConnections = 2
  MaxRetry = 2
  MaxWrites = 1
  Offers <- Seeds
INVARIANTS
  SlotsAreConnections
  DialBudget
  NoPeerForgotten
PROPERTY
  DeadForGood
