SPECIFICATION Spec
CONSTANTS
  Lengths <- ThreePieces
  PieceLength = 4
  BufferSize = 2
INVARIANTS
  StoredPiecesInPlace
