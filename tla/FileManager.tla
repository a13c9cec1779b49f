---------------------------- MODULE FileManager -----------------------------
(***************************************************************************)
(* The disk: class FileManager (engine/src/file_manager.cpp) over the file *)
(* list TorrentFile lays out (engine/src/torrent.cpp), called by           *)
(* SwarmManager::submit_piece (engine/src/swarm.cpp).                      *)
(*                                                                         *)
(* A byte of the torrent is named by its position in it, so that what a    *)
(* file holds tells which byte of the torrent was written there.  The      *)
(* mutex of write_piece never has a second taker: all calls come from the  *)
(* thread that runs the io_context, and a call is one action.              *)
(***************************************************************************)
EXTENDS Integers, Sequences

CONSTANTS
  Lengths,      \* the lengths of the files, in the order of the torrent
  PieceLength,  \* torrent_.piece_length
  BufferSize    \* writes shorter than this wait in the stream for its close()

ASSUME FileAssumption ==
  Lengths \in Seq(Nat) /\ PieceLength \in Nat \ {0} /\ BufferSize \in Nat

File == DOMAIN Lengths

\* A byte of a file that no write_piece has written: it lies past the end of the
\* file, in a hole, or is left from an earlier run of the program.
Unwritten == -1

\* Where a file begins in the torrent: the running current_global_offset.
Offset[f \in 1 .. Len(Lengths) + 1] ==
  IF f = 1 THEN 0 ELSE Offset[f - 1] + Lengths[f - 1]

TotalLength == Offset[Len(Lengths) + 1]
TotalPieces == (TotalLength + PieceLength - 1) \div PieceLength
Piece       == 0 .. TotalPieces - 1

Least(a, b) == IF a <= b THEN a ELSE b

\* The size of the buffer that is submitted for a piece.
SizeOf(p) == Least(PieceLength, TotalLength - p * PieceLength)

VARIABLES
  disk,     \* what has been written to each byte of each file
  stored    \* the pieces a write_piece has returned for

vars == <<disk, stored>>

TypeOK ==
  /\ \A f \in File :
       disk[f] \in [0 .. Lengths[f] - 1 -> {Unwritten} \cup 0 .. TotalLength - 1]
  /\ stored \subseteq Piece

\* The constructor opens the files to append: it creates those that are missing and
\* leaves what the others hold.
Init ==
  /\ disk = [f \in File |-> [b \in 0 .. Lengths[f] - 1 |-> Unwritten]]
  /\ stored = {}

-----------------------------------------------------------------------------
\* submit_piece passes data.size() for write_piece's piece_length.
GlobalStart(p) == p * SizeOf(p)
GlobalEnd(p)   == GlobalStart(p) + SizeOf(p)

\* Mutant of Touched: the loop ends with the first file it writes.
TouchedFirst(p) ==
  {f \in File : /\ Offset[f] <= GlobalStart(p)
                /\ GlobalStart(p) < Offset[f + 1]}

\* The files the loop opens for piece p: those up to the break that overlap it.
Touched(p) ==
  {f \in File : /\ \A g \in 1 .. f : Offset[g] < GlobalEnd(p)
                /\ GlobalStart(p) < Offset[f + 1]
                /\ GlobalEnd(p) > Offset[f]}

\* Mutants of Written: every file gets the buffer from its beginning; the buffer is
\* indexed by the position in the torrent.
WrittenFromStart(p, f, upto) ==
  [b \in 0 .. Lengths[f] - 1 |->
     LET at == Offset[f] + b
     IN  IF GlobalStart(p) <= at /\ at < Least(GlobalEnd(p), upto)
         THEN p * PieceLength + Least(at - GlobalStart(p), b)
         ELSE disk[f][b]]

WrittenByPosition(p, f, upto) ==
  [b \in 0 .. Lengths[f] - 1 |->
     LET at == Offset[f] + b
     IN  IF GlobalStart(p) <= at /\ at < Least(GlobalEnd(p), upto)
         THEN p * PieceLength + at
         ELSE disk[f][b]]

\* The bytes at file f that writing the part of piece p up to global position
\* upto has set; data[k] is byte p * PieceLength + k of the torrent.
Written(p, f, upto) ==
  [b \in 0 .. Lengths[f] - 1 |->
     LET at == Offset[f] + b
     IN  IF GlobalStart(p) <= at /\ at < Least(GlobalEnd(p), upto)
         THEN p * PieceLength + (at - GlobalStart(p))
         ELSE disk[f][b]]

\* How many bytes of piece p go to file f.
Overlap(p, f) ==
  Least(GlobalEnd(p), Offset[f + 1])
    - (IF GlobalStart(p) > Offset[f] THEN GlobalStart(p) ELSE Offset[f])

\* fs.close() writes what the stream still buffers, and nobody asks whether it
\* could: the short writes to the files in `lost' have failed.
write_piece(p) ==
  /\ \E lost \in SUBSET {f \in Touched(p) : Overlap(p, f) < BufferSize} :
       disk' = [f \in File |-> IF f \in Touched(p) \ lost
                               THEN Written(p, f, GlobalEnd(p)) ELSE disk[f]]
  /\ stored' = stored \cup {p}

\* File g cannot be opened, or the write to it fails after some of its bytes: the
\* files before it are written, and the exception leaves the others alone.
WritePieceThrows(p) ==
  /\ \E g \in Touched(p) : \E upto \in {Offset[g]} \cup Offset[g] .. Offset[g + 1] - 1 :
       disk' = [f \in File |-> IF f \in Touched(p) /\ f <= g
                               THEN Written(p, f, upto) ELSE disk[f]]
  /\ UNCHANGED stored

\* Any piece may be submitted at any time, again too: a piece whose worker was
\* disconnected twice can be fetched twice (SwarmManager).
Next == \E p \in Piece : write_piece(p) \/ WritePieceThrows(p)

Spec == Init /\ [][Next]_vars

-----------------------------------------------------------------------------
(* Properties.                                                             *)

\* "Disk write complete" (file_manager.cpp:86): the bytes of a stored piece are
\* where they belong, in every file the piece spans, whatever else was written
\* or failed to be written before or since.
StoredPiecesInPlace ==
  \A p \in stored, f \in File : \A b \in 0 .. Lengths[f] - 1 :
    LET at == Offset[f] + b
    IN  at \div PieceLength = p => disk[f][b] = at

\* No byte of the torrent is ever written over another one's place.
NoByteMisplaced ==
  \A f \in File : \A b \in 0 .. Lengths[f] - 1 :
    disk[f][b] \in {Unwritten, Offset[f] + b}
=============================================================================
