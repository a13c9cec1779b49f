------------------------- MODULE FileManagerProofs --------------------------
(***************************************************************************)
(* What FileManager keeps for every list of files, every piece length and  *)
(* every size of the stream's buffer.                                      *)
(*                                                                         *)
(* write_piece computes where a piece begins from the length of the buffer *)
(* it is given, which is right for pieces of full length and for the first *)
(* one.  Aligned says that the torrent has no others; files_short_tail     *)
(* shows what becomes of one that has.  The close() that write_piece does  *)
(* not check may lose what the stream still holds; NothingBuffered says    *)
(* that it holds nothing; files_buffered shows what becomes of a piece     *)
(* that is partly buffered.                                                *)
(***************************************************************************)
EXTENDS FileManager, NaturalSets, TLAPS

\* No piece but the first is shorter than the others.
Aligned == TotalLength % PieceLength = 0 \/ TotalLength <= PieceLength

\* No piece has so few bytes in a file that they wait for the stream's close().
NothingBuffered ==
  \A p \in Piece : \A f \in Touched(p) : ~ (Overlap(p, f) < BufferSize)

-----------------------------------------------------------------------------
(* Lemmas on the layout of the files.                                      *)

N == Len(Lengths)

\* What Offset is said to be, up to n.
IsOffset(g, n) ==
  g = [f \in 1 .. n |-> IF f = 1 THEN 0 ELSE g[f - 1] + Lengths[f - 1]]

\* There is a function that satisfies the equation of Offset: what the recursive
\* definition names exists.
LEMMA OffsetExists ==
  ASSUME FileAssumption
  PROVE  \E g : IsOffset(g, N + 1)
<1> DEFINE S == {n \in Nat : \E g : IsOffset(g, n + 1)}
<1>1. 0 \in S
  <2> DEFINE g == [f \in 1 .. 1 |-> 0]
  <2>1. g = [f \in 1 .. 1 |-> IF f = 1 THEN 0 ELSE g[f - 1] + Lengths[f - 1]]
    OBVIOUS
  <2> HIDE DEF g
  <2>2. IsOffset(g, 1) /\ 0 + 1 = 1
    BY <2>1 DEF IsOffset
  <2> QED
    BY <2>2
<1>2. ASSUME NEW n \in Nat, n \in S
      PROVE  n + 1 \in S
  <2>1. PICK g : IsOffset(g, n + 1)
    BY <1>2
  <2> DEFINE h == [f \in 1 .. n + 2 |->
                     IF f = 1 THEN 0 ELSE g[f - 1] + Lengths[f - 1]]
  <2>2. ASSUME NEW f \in 1 .. n + 1
        PROVE  h[f] = g[f]
    <3>1. g[f] = IF f = 1 THEN 0 ELSE g[f - 1] + Lengths[f - 1]
      BY <2>1 DEF IsOffset
    <3> QED
      BY <3>1
  <2>3. h = [f \in 1 .. n + 2 |->
               IF f = 1 THEN 0 ELSE h[f - 1] + Lengths[f - 1]]
    <3>1. ASSUME NEW f \in 1 .. n + 2, f # 1
          PROVE  g[f - 1] = h[f - 1]
      <4>1. f - 1 \in 1 .. n + 1
        BY <3>1
      <4> HIDE DEF h
      <4> QED
        BY <2>2, <4>1
    <3> QED
      BY <3>1
  <2> HIDE DEF h
  <2>4. n + 1 + 1 = n + 2
    OBVIOUS
  <2>5. IsOffset(h, n + 1 + 1)
    BY <2>3, <2>4 DEF IsOffset
  <2> QED
    BY <2>5
<1>3. Nat \subseteq S
  <2> HIDE DEF S
  <2> QED
    BY <1>1, <1>2, SetInduction
<1>4. N \in Nat
  BY DEF FileAssumption, N
<1> QED
  BY <1>3, <1>4

\* A file begins where the one before it ends.
LEMMA OffsetSteps ==
  ASSUME FileAssumption
  PROVE  /\ Offset[1] = 0
         /\ \A f \in File : Offset[f + 1] = Offset[f] + Lengths[f]
<1>1. IsOffset(Offset, N + 1)
  BY OffsetExists DEF Offset, IsOffset, N
<1>2. N \in Nat /\ File = 1 .. N
  BY DEF FileAssumption, N, File
<1>3. \A f \in 1 .. N + 1 :
        Offset[f] = IF f = 1 THEN 0 ELSE Offset[f - 1] + Lengths[f - 1]
  <2> DEFINE g == Offset
  <2>1. IsOffset(g, N + 1)
    BY <1>1
  <2> HIDE DEF g
  <2>2. \A f \in 1 .. N + 1 : g[f] = IF f = 1 THEN 0 ELSE g[f - 1] + Lengths[f - 1]
    BY <2>1 DEF IsOffset
  <2> QED
    BY <2>2 DEF g
<1>4. Offset[1] = 0
  BY <1>2, <1>3
<1>5. ASSUME NEW f \in File
      PROVE  Offset[f + 1] = Offset[f] + Lengths[f]
  <2> DEFINE O == Offset
             k == f + 1
  <2>1. k \in 1 .. N + 1 /\ k # 1 /\ k - 1 = f
    BY <1>2
  <2>2. \A i \in 1 .. N + 1 : O[i] = IF i = 1 THEN 0 ELSE O[i - 1] + Lengths[i - 1]
    BY <1>3
  <2>3. O[k] = O[f] + Lengths[f]
    <3> HIDE DEF O, k
    <3> QED
      BY <2>1, <2>2
  <2> QED
    BY <2>3
<1> QED
  BY <1>4, <1>5

\* The beginnings of the files are in order, and none is past the end.
LEMMA OffsetsGrow ==
  ASSUME FileAssumption
  PROVE  /\ \A f \in 1 .. N + 1 : Offset[f] \in Nat
         /\ \A f, g \in 1 .. N + 1 : f <= g => Offset[f] <= Offset[g]
<1>1. /\ N \in Nat /\ File = 1 .. N
      /\ \A f \in File : Lengths[f] \in Nat
  BY DEF FileAssumption, N, File
<1> DEFINE O == Offset
<1>2. O[1] = 0 /\ \A f \in File : O[f + 1] = O[f] + Lengths[f]
  BY OffsetSteps
<1> HIDE DEF O
<1> DEFINE S == {n \in Nat : n <= N =>
                   /\ O[n + 1] \in Nat
                   /\ \A f \in 1 .. n + 1 : O[f] \in Nat /\ O[f] <= O[n + 1]}
<1>3. 0 \in S
  BY <1>2
<1>4. ASSUME NEW n \in Nat, n \in S
      PROVE  n + 1 \in S
  <2> SUFFICES ASSUME n + 1 <= N
               PROVE  /\ O[n + 2] \in Nat
                      /\ \A f \in 1 .. n + 2 : O[f] \in Nat /\ O[f] <= O[n + 2]
    OBVIOUS
  <2>1. n <= N /\ n + 1 \in File
    BY <1>1
  <2>2. O[n + 1 + 1] = O[n + 1] + Lengths[n + 1] /\ Lengths[n + 1] \in Nat
    BY <1>1, <1>2, <2>1
  <2>3. /\ O[n + 1] \in Nat
        /\ \A f \in 1 .. n + 1 : O[f] \in Nat /\ O[f] <= O[n + 1]
    BY <1>4, <2>1
  <2>4. n + 1 + 1 = n + 2
    OBVIOUS
  <2>5. O[n + 2] \in Nat /\ O[n + 1] <= O[n + 2]
    BY <2>2, <2>3, <2>4
  <2>6. ASSUME NEW f \in 1 .. n + 2
        PROVE  O[f] \in Nat /\ O[f] <= O[n + 2]
    BY <2>3, <2>5
  <2> QED
    BY <2>5, <2>6
<1>5. Nat \subseteq S
  <2> HIDE DEF S
  <2> QED
    BY <1>3, <1>4, SetInduction
<1>6. ASSUME NEW g \in 1 .. N + 1
      PROVE  \A f \in 1 .. g : O[f] \in Nat /\ O[f] <= O[g]
  <2> DEFINE n == g - 1
  <2>1. n \in Nat /\ n <= N /\ n + 1 = g
    BY <1>1
  <2>2. n \in S
    BY <1>5, <2>1
  <2> HIDE DEF n
  <2> QED
    BY <2>1, <2>2
<1>7. \A f \in 1 .. N + 1 : O[f] \in Nat
  BY <1>1, <1>6
<1>8. \A f, g \in 1 .. N + 1 : f <= g => O[f] <= O[g]
  BY <1>1, <1>6
<1> QED
  BY <1>7, <1>8 DEF O

-----------------------------------------------------------------------------
(* Lemmas on the pieces.                                                   *)

\* The torrent's length, and where its files lie in it.
LEMMA Layout ==
  ASSUME FileAssumption
  PROVE  /\ PieceLength \in Nat \ {0} /\ TotalLength \in Nat
         /\ \A f \in File :
              /\ f \in Nat /\ Lengths[f] \in Nat
              /\ Offset[f] \in Nat
              /\ Offset[f + 1] = Offset[f] + Lengths[f]
              /\ Offset[f + 1] <= TotalLength
              /\ \A g \in 1 .. f : Offset[g] \in Nat /\ Offset[g] <= Offset[f]
<1>1. /\ N \in Nat /\ File = 1 .. N /\ PieceLength \in Nat \ {0}
      /\ \A f \in File : Lengths[f] \in Nat
  BY DEF FileAssumption, N, File
<1> DEFINE O == Offset
<1>2. /\ \A f \in 1 .. N + 1 : O[f] \in Nat
      /\ \A f, g \in 1 .. N + 1 : f <= g => O[f] <= O[g]
  BY OffsetsGrow
<1>3. \A f \in File : O[f + 1] = O[f] + Lengths[f]
  BY OffsetSteps
<1>4. TotalLength = O[N + 1]
  BY DEF TotalLength, N
<1> HIDE DEF O
<1>5. TotalLength \in Nat
  BY <1>1, <1>2, <1>4
<1>6. ASSUME NEW f \in File
      PROVE  /\ f \in Nat /\ Lengths[f] \in Nat /\ O[f] \in Nat
             /\ O[f + 1] = O[f] + Lengths[f]
             /\ O[f + 1] <= TotalLength
             /\ \A g \in 1 .. f : O[g] \in Nat /\ O[g] <= O[f]
  <2>1. f \in 1 .. N + 1 /\ f + 1 \in 1 .. N + 1 /\ N + 1 \in 1 .. N + 1 /\ f + 1 <= N + 1
    BY <1>1
  <2>2. \A g \in 1 .. f : g \in 1 .. N + 1 /\ g <= f
    BY <1>1
  <2> QED
    BY <1>1, <1>2, <1>3, <1>4, <2>1, <2>2
<1> QED
  BY <1>1, <1>5, <1>6 DEF O

\* A piece begins before the torrent ends, and the buffer that is submitted for it
\* is neither empty nor longer than a piece.
LEMMA PieceFits ==
  ASSUME FileAssumption, NEW p \in Piece
  PROVE  /\ p \in Nat /\ p * PieceLength \in Nat
         /\ p * PieceLength < TotalLength
         /\ SizeOf(p) \in Nat \ {0} /\ SizeOf(p) <= PieceLength
         /\ p * PieceLength + SizeOf(p) <= TotalLength
         /\ SizeOf(p) = PieceLength \/ p * PieceLength + SizeOf(p) = TotalLength
<1>1. PieceLength \in Nat \ {0} /\ TotalLength \in Nat
  BY Layout
<1> DEFINE x == TotalLength + PieceLength - 1
           q == x \div PieceLength
<1>2. x \in Nat
  BY <1>1
<1>3. q \in Nat /\ x % PieceLength \in 0 .. PieceLength - 1
      /\ x = PieceLength * q + (x % PieceLength)
  <2> HIDE DEF x
  <2> QED
    BY <1>1, <1>2, Division
<1>4. p \in Nat /\ p + 1 <= q
  <2>1. p \in 0 .. q - 1
    BY DEF Piece, TotalPieces
  <2> HIDE DEF q
  <2> QED
    BY <1>3, <2>1
<1> HIDE DEF q
<1>5. /\ p * PieceLength \in Nat
      /\ (p + 1) * PieceLength <= q * PieceLength
  BY <1>1, <1>3, <1>4, TimesMonotone
<1>6. (p + 1) * PieceLength = p * PieceLength + PieceLength
  BY <1>1, <1>4
<1>7. q * PieceLength \in Nat /\ q * PieceLength = PieceLength * q
  BY <1>1, <1>3
<1>8. q * PieceLength <= x
  <2> DEFINE m == PieceLength * q
             k == x % PieceLength
  <2>1. x = m + k /\ k \in Nat /\ m \in Nat
    BY <1>1, <1>3, <1>7
  <2> HIDE DEF m, k, x
  <2>2. m <= x
    BY <1>2, <2>1
  <2> QED
    BY <1>7, <2>2 DEF m
<1>9. p * PieceLength < TotalLength
  <2> DEFINE a == p * PieceLength
             b == q * PieceLength
  <2>1. a \in Nat /\ b \in Nat /\ a + PieceLength <= b /\ b <= x
    BY <1>5, <1>6, <1>7, <1>8
  <2> HIDE DEF a, b
  <2>2. a < TotalLength
    BY <1>1, <2>1
  <2> QED
    BY <2>2 DEF a
<1> HIDE DEF x
<1> DEFINE s == p * PieceLength
<1>10. SizeOf(p) = IF PieceLength <= TotalLength - s THEN PieceLength
                                                     ELSE TotalLength - s
  BY DEF SizeOf, Least
<1>11. s \in Nat /\ s < TotalLength
  BY <1>5, <1>9
<1> HIDE DEF s
<1>12. /\ SizeOf(p) \in Nat \ {0} /\ SizeOf(p) <= PieceLength
       /\ s + SizeOf(p) <= TotalLength
       /\ SizeOf(p) = PieceLength \/ s + SizeOf(p) = TotalLength
  BY <1>1, <1>10, <1>11
<1> QED
  BY <1>4, <1>11, <1>12 DEF s

\* Where no piece but the first is short, write_piece knows where each one begins.
LEMMA AlignedStarts ==
  ASSUME FileAssumption, Aligned, NEW p \in Piece
  PROVE  GlobalStart(p) = p * PieceLength
<1>1. PieceLength \in Nat \ {0} /\ TotalLength \in Nat
  BY Layout
<1>2. /\ p \in Nat /\ p * PieceLength \in Nat
      /\ p * PieceLength < TotalLength
      /\ SizeOf(p) \in Nat \ {0} /\ SizeOf(p) <= PieceLength
      /\ SizeOf(p) = PieceLength \/ p * PieceLength + SizeOf(p) = TotalLength
  BY PieceFits
<1>3. CASE SizeOf(p) = PieceLength
  BY <1>3 DEF GlobalStart
<1>4. CASE TotalLength <= PieceLength
  <2>1. p = 0
    <3>1. ASSUME 1 <= p
          PROVE  FALSE
      <4>1. 1 * PieceLength <= p * PieceLength
        BY <1>1, <1>2, <3>1, TimesMonotone
      <4> QED
        BY <1>1, <1>2, <1>4, <4>1
    <3> QED
      BY <1>2, <3>1
  <2> QED
    BY <1>1, <1>2, <2>1 DEF GlobalStart
<1>5. CASE TotalLength % PieceLength = 0 /\ SizeOf(p) < PieceLength
  <2> DEFINE q == TotalLength \div PieceLength
  <2>1. q \in Nat /\ TotalLength = PieceLength * q
    <3> DEFINE m == PieceLength * q
               k == TotalLength % PieceLength
    <3>1. TotalLength = m + k /\ q \in Nat
      BY <1>1, Division
    <3>2. m \in Nat
      BY <1>1, <3>1
    <3>3. k = 0
      BY <1>5
    <3> HIDE DEF m, k
    <3>4. TotalLength = m
      BY <3>1, <3>2, <3>3
    <3> QED
      BY <3>1, <3>4 DEF m
  <2> HIDE DEF q
  <2>2. q * PieceLength = TotalLength
    BY <1>1, <2>1
  <2>3. p * PieceLength < q * PieceLength /\ q * PieceLength < p * PieceLength + PieceLength
    BY <1>1, <1>2, <1>5, <2>2
  <2>4. (p + 1) * PieceLength = p * PieceLength + PieceLength
    BY <1>1, <1>2
  <2>5. CASE q <= p
    <3>1. q * PieceLength <= p * PieceLength
      BY <1>1, <1>2, <2>1, <2>5, TimesMonotone
    <3> QED
      BY <1>1, <1>2, <2>2, <2>3, <3>1
  <2>6. CASE p + 1 <= q
    <3>1. (p + 1) * PieceLength <= q * PieceLength
      BY <1>1, <1>2, <2>1, <2>6, TimesMonotone
    <3> QED
      BY <1>1, <1>2, <2>2, <2>3, <2>4, <3>1
  <2> QED
    BY <1>2, <2>1, <2>5, <2>6
<1> QED
  BY <1>1, <1>2, <1>3, <1>4, <1>5 DEF Aligned

-----------------------------------------------------------------------------
(* Lemmas on the writes.                                                   *)

\* What writing a part of piece p does to a byte: it leaves it alone, or sets it to
\* a byte of the torrent; where the pieces are aligned, to the one that belongs there.
LEMMA WrittenByte ==
  ASSUME FileAssumption, NEW p \in Piece, NEW f \in File, NEW upto \in Nat,
         NEW b \in 0 .. Lengths[f] - 1
  PROVE  LET at == Offset[f] + b
             in == GlobalStart(p) <= at /\ at < Least(GlobalEnd(p), upto)
         IN  /\ ~ in => Written(p, f, upto)[b] = disk[f][b]
             /\ in => Written(p, f, upto)[b] \in 0 .. TotalLength - 1
             /\ in /\ Aligned => Written(p, f, upto)[b] = at
<1> DEFINE at == Offset[f] + b
           s  == GlobalStart(p)
           in == s <= at /\ at < Least(GlobalEnd(p), upto)
           base == p * PieceLength
<1>1. /\ Offset[f] \in Nat /\ Lengths[f] \in Nat
      /\ TotalLength \in Nat /\ PieceLength \in Nat \ {0}
      /\ base \in Nat /\ SizeOf(p) \in Nat /\ p \in Nat
      /\ base + SizeOf(p) <= TotalLength
  BY Layout, PieceFits
<1>2. at \in Nat /\ s \in Nat
  <2>1. at \in Nat
    <3> DEFINE o == Offset[f]
               l == Lengths[f]
    <3>1. o \in Nat /\ l \in Nat /\ b \in 0 .. l - 1
      BY <1>1
    <3> HIDE DEF o, l
    <3>2. o + b \in Nat
      BY <3>1
    <3> QED
      BY <3>2 DEF o
  <2> QED
    BY <1>1, <2>1, TimesMonotone DEF GlobalStart
<1>3. Written(p, f, upto)[b] = IF in THEN base + (at - s) ELSE disk[f][b]
  BY DEF Written
<1>4. in => s <= at /\ at < s + SizeOf(p)
  <2> DEFINE e == s + SizeOf(p)
  <2>1. e = GlobalEnd(p) /\ e \in Nat
    <3>1. e = GlobalEnd(p)
      BY DEF GlobalEnd
    <3> DEFINE size == SizeOf(p)
    <3>2. s \in Nat /\ size \in Nat
      BY <1>1, <1>2
    <3> HIDE DEF s, size
    <3>3. s + size \in Nat
      BY <3>2
    <3> QED
      BY <3>1, <3>3 DEF size
  <2> HIDE DEF e, at, s
  <2>2. in => s <= at /\ at < e
    BY <1>2, <2>1 DEF Least
  <2> QED
    BY <2>2 DEF e
<1>5. Aligned => s = base
  BY AlignedStarts
<1> HIDE DEF at, s, base
<1>6. in => base + (at - s) \in 0 .. TotalLength - 1
  BY <1>1, <1>2, <1>4
<1>7. in /\ Aligned => base + (at - s) = at
  BY <1>1, <1>2, <1>5
<1>8. /\ ~ in => Written(p, f, upto)[b] = disk[f][b]
      /\ in => Written(p, f, upto)[b] \in 0 .. TotalLength - 1
      /\ in /\ Aligned => Written(p, f, upto)[b] = at
  BY <1>3, <1>6, <1>7
<1> QED
  BY <1>8 DEF at, s

\* A call of write_piece, whether it returns or throws, writes each file up to some
\* position of the torrent, or not at all.
LEMMA StepWrites ==
  ASSUME FileAssumption, [Next]_vars, NEW f \in File
  PROVE  \/ disk'[f] = disk[f]
         \/ \E p \in Piece, upto \in Nat : disk'[f] = Written(p, f, upto)
<1>1. CASE \E p \in Piece : write_piece(p)
  <2>1. PICK p \in Piece : write_piece(p)
    BY <1>1
  <2>2. disk'[f] = disk[f] \/ disk'[f] = Written(p, f, GlobalEnd(p))
    BY <2>1 DEF write_piece
  <2>3. GlobalEnd(p) \in Nat
    <3>1. p \in Nat /\ SizeOf(p) \in Nat
      BY PieceFits
    <3>2. p * SizeOf(p) \in Nat
      BY <3>1, TimesMonotone
    <3> QED
      BY <3>1, <3>2 DEF GlobalEnd, GlobalStart
  <2> QED
    BY <2>2, <2>3
<1>2. CASE \E p \in Piece : WritePieceThrows(p)
  <2>1. PICK p \in Piece : WritePieceThrows(p)
    BY <1>2
  <2>2. PICK g \in Touched(p) :
          \E upto \in {Offset[g]} \cup Offset[g] .. Offset[g + 1] - 1 :
            disk' = [i \in File |-> IF i \in Touched(p) /\ i <= g
                                    THEN Written(p, i, upto) ELSE disk[i]]
    BY <2>1 DEF WritePieceThrows
  <2>3. PICK upto \in {Offset[g]} \cup Offset[g] .. Offset[g + 1] - 1 :
          disk' = [i \in File |-> IF i \in Touched(p) /\ i <= g
                                  THEN Written(p, i, upto) ELSE disk[i]]
    BY <2>2
  <2>4. upto \in Nat
    <3>1. g \in File
      BY DEF Touched
    <3> DEFINE o == Offset[g]
               l == Lengths[g]
               e == Offset[g + 1]
    <3>2. o \in Nat /\ l \in Nat /\ e = o + l
      BY <3>1, Layout
    <3>3. upto \in {o} \cup o .. e - 1
      BY <2>3
    <3> HIDE DEF o, l, e
    <3> QED
      BY <3>2, <3>3
  <2>5. disk'[f] = disk[f] \/ disk'[f] = Written(p, f, upto)
    BY <2>3
  <2> QED
    BY <2>4, <2>5
<1>3. CASE UNCHANGED vars
  BY <1>3 DEF vars
<1> QED
  BY <1>1, <1>2, <1>3 DEF Next

-----------------------------------------------------------------------------
\* Every byte of every file stays unwritten or holds some byte of the torrent: no
\* write reads past the buffer it is given.
THEOREM FilesTyped == Spec => []TypeOK
<1> DEFINE Byte == {Unwritten} \cup 0 .. TotalLength - 1
<1>1. Init => TypeOK
  BY DEF Init, TypeOK
<1>2. ASSUME TypeOK, [Next]_vars
      PROVE  TypeOK'
  <2>1. ASSUME NEW f \in File
        PROVE  disk'[f] \in [0 .. Lengths[f] - 1 -> Byte]
    <3>1. disk[f] \in [0 .. Lengths[f] - 1 -> Byte]
      BY <1>2 DEF TypeOK
    <3>2. ASSUME NEW p \in Piece, NEW upto \in Nat
          PROVE  Written(p, f, upto) \in [0 .. Lengths[f] - 1 -> Byte]
      <4>1. ASSUME NEW b \in 0 .. Lengths[f] - 1
            PROVE  Written(p, f, upto)[b] \in Byte
        BY <3>1, FileAssumption, WrittenByte
      <4>2. /\ DOMAIN Written(p, f, upto) = 0 .. Lengths[f] - 1
            /\ Written(p, f, upto) = [b \in 0 .. Lengths[f] - 1 |-> Written(p, f, upto)[b]]
        BY DEF Written
      <4> QED
        BY <4>1, <4>2
    <3> QED
      BY <1>2, <3>1, <3>2, FileAssumption, StepWrites
  <2>2. stored' \subseteq Piece
    BY <1>2 DEF TypeOK, Next, write_piece, WritePieceThrows, vars
  <2> QED
    BY <2>1, <2>2 DEF TypeOK
<1> QED
  BY <1>1, <1>2, PTL DEF Spec

\* No byte of the torrent is written over another one's place, if no piece but the
\* first is short: however often a piece is written, and wherever a write fails.
THEOREM BytesInPlace == Aligned /\ Spec => []NoByteMisplaced
<1> SUFFICES ASSUME Aligned
             PROVE  Spec => []NoByteMisplaced
  OBVIOUS
<1>1. Init => NoByteMisplaced
  BY DEF Init, NoByteMisplaced
<1>2. ASSUME NoByteMisplaced, [Next]_vars
      PROVE  NoByteMisplaced'
  <2> SUFFICES ASSUME NEW f \in File, NEW b \in 0 .. Lengths[f] - 1
               PROVE  disk'[f][b] \in {Unwritten, Offset[f] + b}
    BY DEF NoByteMisplaced
  <2>1. disk[f][b] \in {Unwritten, Offset[f] + b}
    BY <1>2 DEF NoByteMisplaced
  <2>2. ASSUME NEW p \in Piece, NEW upto \in Nat
        PROVE  Written(p, f, upto)[b] \in {Unwritten, Offset[f] + b}
    BY <2>1, FileAssumption, WrittenByte
  <2> QED
    BY <1>2, <2>1, <2>2, FileAssumption, StepWrites
<1> QED
  BY <1>1, <1>2, PTL DEF Spec

-----------------------------------------------------------------------------
(* Stored pieces.                                                          *)

\* The position in the torrent of a byte of a file is below the torrent's length,
\* and a byte of piece p lies within the buffer submitted for p.
LEMMA PositionOf ==
  ASSUME FileAssumption, NEW f \in File, NEW b \in 0 .. Lengths[f] - 1
  PROVE  /\ Offset[f] + b \in Nat
         /\ Offset[f] <= Offset[f] + b /\ Offset[f] + b < Offset[f + 1]
         /\ Offset[f + 1] \in Nat
         /\ \A p \in Piece : (Offset[f] + b) \div PieceLength = p =>
              /\ p * PieceLength <= Offset[f] + b
              /\ Offset[f] + b < p * PieceLength + SizeOf(p)
<1> DEFINE o == Offset[f]
           l == Lengths[f]
           e == Offset[f + 1]
           at == o + b
<1>1. o \in Nat /\ l \in Nat /\ e = o + l /\ e <= TotalLength /\ b \in 0 .. l - 1
  BY Layout
<1> HIDE DEF o, l, e
<1>2. at \in Nat /\ o <= at /\ at < e /\ e \in Nat /\ at < TotalLength
  BY <1>1, Layout
<1>3. ASSUME NEW p \in Piece, at \div PieceLength = p
      PROVE  p * PieceLength <= at /\ at < p * PieceLength + SizeOf(p)
  <2>1. /\ PieceLength \in Nat \ {0} /\ TotalLength \in Nat
        /\ p \in Nat /\ p * PieceLength \in Nat
        /\ SizeOf(p) \in Nat
        /\ SizeOf(p) = PieceLength \/ p * PieceLength + SizeOf(p) = TotalLength
    BY Layout, PieceFits
  <2> DEFINE m == PieceLength * p
             k == at % PieceLength
  <2>2. at = m + k /\ k \in 0 .. PieceLength - 1
    <3> HIDE DEF at
    <3> QED
      BY <1>2, <1>3, <2>1, Division
  <2>3. m = p * PieceLength
    BY <2>1
  <2> HIDE DEF m, k, at
  <2> QED
    BY <1>2, <2>1, <2>2, <2>3
<1> QED
  BY <1>2, <1>3 DEF o, e

\* write_piece opens every file that has a byte of the piece: the loop does not
\* break before it.
LEMMA TouchesAll ==
  ASSUME FileAssumption, Aligned, NEW p \in Piece,
         NEW f \in File, NEW b \in 0 .. Lengths[f] - 1,
         (Offset[f] + b) \div PieceLength = p
  PROVE  /\ f \in Touched(p)
         /\ GlobalStart(p) <= Offset[f] + b /\ Offset[f] + b < GlobalEnd(p)
         /\ GlobalEnd(p) \in Nat
<1> DEFINE o == Offset[f]
           e == Offset[f + 1]
           at == o + b
           s == GlobalStart(p)
           t == GlobalEnd(p)
<1>1. /\ at \in Nat /\ o <= at /\ at < e /\ e \in Nat /\ o \in Nat
      /\ \A g \in 1 .. f : Offset[g] \in Nat /\ Offset[g] <= o
  BY PositionOf, Layout
<1>2. s \in Nat /\ t \in Nat /\ s <= at /\ at < t
  <2>1. s = p * PieceLength
    BY AlignedStarts
  <2>2. t = s + SizeOf(p)
    BY DEF GlobalEnd
  <2>3. p * PieceLength \in Nat /\ SizeOf(p) \in Nat
    BY PieceFits
  <2>4. p * PieceLength <= at /\ at < p * PieceLength + SizeOf(p)
    BY PositionOf
  <2> HIDE DEF s, t, at
  <2> QED
    BY <2>1, <2>2, <2>3, <2>4
<1> HIDE DEF o, e, at, s, t
<1>3. \A g \in 1 .. f : Offset[g] < t
  BY <1>1, <1>2
<1>4. s < e /\ t > o
  BY <1>1, <1>2
<1>5. f \in Touched(p)
  BY <1>3, <1>4 DEF Touched, o, e, s, t
<1> QED
  BY <1>2, <1>5 DEF o, at, s, t

\* A stream without a buffer holds nothing back.
LEMMA UnbufferedHoldsNothing ==
  ASSUME FileAssumption, BufferSize = 0
  PROVE  NothingBuffered
<1> SUFFICES ASSUME NEW p \in Piece, NEW f \in Touched(p)
             PROVE  ~ (Overlap(p, f) < BufferSize)
  BY DEF NothingBuffered
<1> DEFINE o == Offset[f]
           l == Lengths[f]
           e == Offset[f + 1]
           s == GlobalStart(p)
           t == GlobalEnd(p)
<1>1. f \in File /\ s < e /\ t > o
  BY DEF Touched
<1>2. o \in Nat /\ l \in Nat /\ e = o + l
  BY <1>1, Layout
<1>3. s \in Nat /\ t \in Nat /\ s <= t
  <2>1. p \in Nat /\ SizeOf(p) \in Nat
    BY PieceFits
  <2>2. s = p * SizeOf(p) /\ t = s + SizeOf(p)
    BY DEF GlobalStart, GlobalEnd
  <2>3. p * SizeOf(p) \in Nat
    BY <2>1, TimesMonotone
  <2> HIDE DEF s, t
  <2> QED
    BY <2>1, <2>2, <2>3
<1>4. Overlap(p, f) = (IF t <= e THEN t ELSE e) - (IF s > o THEN s ELSE o)
  BY DEF Overlap, Least
<1> HIDE DEF o, l, e, s, t
<1> QED
  BY <1>1, <1>2, <1>3, <1>4

\* "Disk write complete" (file_manager.cpp:86): the bytes of a piece that write_piece
\* has returned for are where they belong and stay there, in every file the piece
\* spans, if no piece but the first is short and nothing waits for the close().
THEOREM StoredIsInPlace ==
  Aligned /\ NothingBuffered /\ Spec => []StoredPiecesInPlace
<1> SUFFICES ASSUME Aligned, NothingBuffered
             PROVE  Spec => []StoredPiecesInPlace
  OBVIOUS
<1>1. Init => StoredPiecesInPlace
  BY DEF Init, StoredPiecesInPlace
<1>2. ASSUME StoredPiecesInPlace, stored \subseteq Piece, [Next]_vars
      PROVE  StoredPiecesInPlace'
  <2> SUFFICES ASSUME NEW p \in stored', NEW f \in File, NEW b \in 0 .. Lengths[f] - 1,
                      (Offset[f] + b) \div PieceLength = p
               PROVE  disk'[f][b] = Offset[f] + b
    BY DEF StoredPiecesInPlace
  <2>1. CASE p \in stored
    <3>1. disk[f][b] = Offset[f] + b
      BY <1>2, <2>1 DEF StoredPiecesInPlace
    <3>2. ASSUME NEW q \in Piece, NEW upto \in Nat
          PROVE  Written(q, f, upto)[b] = Offset[f] + b
      BY <3>1, FileAssumption, WrittenByte
    <3> QED
      BY <1>2, <3>1, <3>2, FileAssumption, StepWrites
  <2>2. CASE p \notin stored
    <3>1. p \in Piece /\ write_piece(p)
      BY <1>2, <2>2 DEF Next, write_piece, WritePieceThrows, vars
    <3>2. /\ f \in Touched(p)
          /\ GlobalStart(p) <= Offset[f] + b /\ Offset[f] + b < GlobalEnd(p)
          /\ GlobalEnd(p) \in Nat
      BY <3>1, FileAssumption, TouchesAll
    <3>3. \A g \in Touched(p) : ~ (Overlap(p, g) < BufferSize)
      BY <3>1 DEF NothingBuffered
    <3>4. disk'[f] = Written(p, f, GlobalEnd(p))
      BY <3>1, <3>2, <3>3 DEF write_piece
    <3>5. Offset[f] + b < Least(GlobalEnd(p), GlobalEnd(p))
      BY <3>2 DEF Least
    <3>6. Written(p, f, GlobalEnd(p))[b] = Offset[f] + b
      BY <3>1, <3>2, <3>5, FileAssumption, WrittenByte
    <3> QED
      BY <3>4, <3>6
  <2> QED
    BY <2>1, <2>2
<1>3. TypeOK => stored \subseteq Piece
  BY DEF TypeOK
<1> QED
  BY <1>1, <1>2, <1>3, FilesTyped, PTL DEF Spec

\* So it is whenever the stream has no buffer.
THEOREM UnbufferedIsInPlace ==
  Aligned /\ BufferSize = 0 /\ Spec => []StoredPiecesInPlace
BY StoredIsInPlace, UnbufferedHoldsNothing, FileAssumption
=============================================================================
