SPECIFICATION QuietFairSpec
CONSTANTS
  NumPeers = 2
  Ip <- DistinctIps
  TotalPieces = 2
  Hashes = {1, 2}
  NumConnections = 2
  MaxRetry = 2
  MaxWrites = 1
  Offers <- Partials
INVARIANTS
  CompleteMeansAllOnDisk
  OneFetchPerPiece
PROPERTIES
  ImplementsPieceBoard
  DownloadEnds
