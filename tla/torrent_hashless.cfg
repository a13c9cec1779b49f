SPECIFICATION Spec
CONSTANTS
  Byte <- AnyByte
  ByteOrder <- Bytewise
  Torrents <- HashlessTorrents
  Fields = {"none"}
  HashSize = 2
INVARIANTS
  NoHashOutOfBounds
