SPECIFICATION Spec
CONSTANTS
  Byte <- AnyByte
  ByteOrder <- Bytewise
  Torrents <- UnsortedTorrents
  Fields = {"none"}
  HashSize = 2
INVARIANTS
  InfoSliceIsOfFile
