SPECIFICATION Spec
CONSTANTS
  Lengths <- ShortTail
  PieceLength = 4
  BufferSize = 0
INVARIANTS
  StoredPiecesInPlace
