SPECIFICATION Spec
CONSTANTS
  NumPeers = 1
  Ip <- DistinctIps
  TotalPieces = 1
  Hashes = {1}
  NumConnections = 1
  MaxRetry = 3
  MaxWrites = 0
  Offers <- Seeds
INVARIANT
  AttemptsAreDials
