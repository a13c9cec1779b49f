SPECIFICATION FairSpec
CONSTANTS
  TotalLength = 8
  PieceLength = 5
  MaxBlockLength = 2
  MaxBlockWindow = 2
  Hashes = {2}
  Bitfields <- SeedOnly
  Haves <- NoHaves
  MaxWrites = 3
  Env = {"others"}
PROPERTIES
  IdleWorkerFindsWork
