SPECIFICATION Spec
CONSTANTS
  Lengths <- ThreePieces
  PieceLength = 4
  BufferSize = 0
INVARIANTS
  TypeOK
  StoredPiecesInPlace
  NoByteMisplaced
