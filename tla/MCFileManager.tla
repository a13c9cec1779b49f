--------------------------- MODULE MCFileManager ----------------------------
(* Values for the constants of FileManager.                                *)
EXTENDS FileManager

\* Twelve bytes: a piece of four spans three files, one of them empty, and a file
\* spans two pieces.
ThreePieces == <<2, 0, 1, 5, 4>>

\* Eleven bytes: the last piece is one byte short.
ShortTail == <<5, 6>>
=============================================================================
