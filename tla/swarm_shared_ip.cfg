SPECIFICATION Spec
CONSTANTS
  NumPeers = 2
  Ip <- SameIp
  TotalPieces = 1
  Hashes = {1}
  NumConnections = 2
  MaxRetry = 2
  MaxWrites = 0
  Offers <- Seeds
INVARIANT
  NoPeerForgotten
