SPECIFICATION Spec
CONSTANTS
  TotalLength = 8
  PieceLength = 5
  MaxBlockLength = 2
  MaxBlockWindow = 2
  Hashes = {1, 2}
  Bitfields <- SeedOrPartial
  Haves <- AnyHave
  MaxWrites = 3
  Env = {"chokes", "corrupts", "backlog", "breaks"}
INVARIANT
  TypeOK
PROPERTY
  ImplementsSwarm
