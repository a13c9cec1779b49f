SPECIFICATION Spec
CONSTANTS
  Byte <- AnyByte
  ByteOrder <- Bytewise
  Torrents <- SortedTorrents
  Fields <- AnyField
  HashSize = 2
INVARIANTS
  WholeFilesAreLoaded
  FilesAreContiguous
  TrackersAreKept
  InfoSliceIsOfFile
  EachPieceItsHash
