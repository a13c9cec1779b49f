SPECIFICATION AppFairSpec
CONSTANTS
  NumPeers = 2
  Ip <- DistinctIps
  TotalPieces = 2
  Hashes = {2}
  NumConnections = 2
  MaxRetry = 1
  MaxWrites = 0
  Offers <- Seeds
  MaxStarts = 2
INVARIANTS
  AppTypeOK
  SwarmOutlivesThread
  FailureIsShown
PROPERTIES
  ProgressNeverFalls
  CompletionIsShown
