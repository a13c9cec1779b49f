SPECIFICATION FairSpec
CONSTANTS
  TotalLength = 8
  PieceLength = 5
  MaxBlockLength = 2
  MaxBlockWindow = 2
  Hashes = {2}
  Bitfields <- SeedOrPartial
  Haves <- AnyHave
  MaxWrites = 3
  Env = {"corrupts", "backlog", "others", "breaks"}
INVARIANTS
  EveryByteAskedFor
  PipelineFull
  BytesCountedOnce
PROPERTIES
  FetchNeverStalls
