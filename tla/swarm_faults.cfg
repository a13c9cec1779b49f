SPECIFICATION Spec
CONSTANTS
  NumPeers = 3
  Ip <- DistinctIps
  TotalPieces = 2
  Hashes = {2}
  NumConnections = 2
  MaxRetry = 1
  MaxWrites = 1
  Offers <- Seeds
INVARIANTS
  TypeOK
  NoPieceLost
  CounterInStep
  SlotsFilled
  ConnectionsBounded
  DepletedMeansSpent
