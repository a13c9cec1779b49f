------------------------- MODULE TorrentFileProofs --------------------------
(***************************************************************************)
(* What the constructor of TorrentFile takes in, for every torrent: any    *)
(* trackers, tiers, files, paths and hashes, whole, cut off or without a   *)
(* field.                                                                  *)
(*                                                                         *)
(* Most of this is the parser.  Encodes(s, node) says that s is read as    *)
(* node wherever it is in a buffer, and that the parser throws where the   *)
(* buffer ends in it; it is shown of numbers, strings, lists and           *)
(* dictionaries in turn, and so of the file that Bytes writes.  The        *)
(* recursive functions (figures, the parsers, FlattenSeq, GlobalOffset)    *)
(* are each shown to exist, by induction, and used by their steps.         *)
(***************************************************************************)
EXTENDS TorrentFile, NaturalSets, SequenceTheorems, TLAPS

-----------------------------------------------------------------------------
(* Numbers.                                                                *)

Text == Seq(Byte)

\* Bytes that stand for figures, and at least one.
Numeral(s) == s \in Text /\ Len(s) > 0 /\ \A k \in 1 .. Len(s) : isdigit(s[k])

Figured(c) == CHOOSE n \in 0 .. 9 : c = Figure[n + 1]

\* The ten figures are bytes, each stands for its number, and none of them is a byte of
\* the format.
LEMMA FigureFacts ==
  /\ \A n \in 0 .. 9 : Figure[n + 1] \in Byte /\ isdigit(Figure[n + 1])
  /\ \A n \in 0 .. 9 : Figured(Figure[n + 1]) = n
  /\ \A c : isdigit(c) => Figured(c) \in 0 .. 9
  /\ \A c : isdigit(c) => c \notin {"-", "+", ":", "e", "i", "l", "d"}
<1>1. \A m, n \in 0 .. 9 : Figure[m + 1] = Figure[n + 1] => m = n
  BY DEF Figure
<1>2. \A n \in 0 .. 9 : Figure[n + 1] \in Byte
                        /\ Figure[n + 1] \notin {"-", "+", ":", "e", "i", "l", "d"}
  BY ByteAssumption DEF Figure
<1>3. ASSUME NEW c, isdigit(c)
      PROVE  Figured(c) \in 0 .. 9 /\ c \notin {"-", "+", ":", "e", "i", "l", "d"}
  <2>1. PICK n \in 0 .. 9 : c = Figure[n + 1]
    BY <1>3 DEF isdigit
  <2> QED
    BY <2>1, <1>2 DEF Figured
<1>4. ASSUME NEW n \in 0 .. 9
      PROVE  Figured(Figure[n + 1]) = n
  <2> DEFINE c == Figure[n + 1]
  <2>1. \E m \in 0 .. 9 : c = Figure[m + 1]
    OBVIOUS
  <2>2. PICK m \in 0 .. 9 : Figured(c) = m /\ c = Figure[m + 1]
    BY <2>1 DEF Figured
  <2> QED
    BY <2>2, <1>1
<1> QED
  BY <1>2, <1>3, <1>4 DEF isdigit

\* What the function of Value is said to be.
IsValue(v, d) ==
  v = [i \in 0 .. Len(d) |-> IF i = 0 THEN 0 ELSE 10 * v[i - 1] + Figured(d[i])]

\* v[i] is the value of the first i figures.
ValueUpto(v, d, n) ==
  v[0] = 0 /\ \A i \in 1 .. n : v[i] = 10 * v[i - 1] + Figured(d[i])

\* The recursive function of Value exists.
LEMMA ValueExists ==
  ASSUME NEW d \in Text
  PROVE  \E v : IsValue(v, d)
<1> DEFINE S == {n \in Nat : \E v : v = [i \in 0 .. n |->
                    IF i = 0 THEN 0 ELSE 10 * v[i - 1] + Figured(d[i])]}
<1>1. 0 \in S
  <2> DEFINE v == [i \in 0 .. 0 |-> 0]
  <2>1. v = [i \in 0 .. 0 |-> IF i = 0 THEN 0 ELSE 10 * v[i - 1] + Figured(d[i])]
    OBVIOUS
  <2> HIDE DEF v
  <2> QED
    BY <2>1
<1>2. ASSUME NEW n \in Nat, n \in S
      PROVE  n + 1 \in S
  <2>1. PICK v : v = [i \in 0 .. n |->
                        IF i = 0 THEN 0 ELSE 10 * v[i - 1] + Figured(d[i])]
    BY <1>2
  <2> DEFINE w == [i \in 0 .. n + 1 |->
                     IF i = 0 THEN 0 ELSE 10 * v[i - 1] + Figured(d[i])]
  <2>2. \A i \in 0 .. n : w[i] = v[i]
    <3>1. \A i \in 0 .. n : v[i] = IF i = 0 THEN 0 ELSE 10 * v[i - 1] + Figured(d[i])
      BY <2>1
    <3> QED
      BY <3>1
  <2>3. w = [i \in 0 .. n + 1 |-> IF i = 0 THEN 0 ELSE 10 * w[i - 1] + Figured(d[i])]
    <3>1. ASSUME NEW i \in 0 .. n + 1, i # 0
          PROVE  w[i - 1] = v[i - 1]
      <4>1. i - 1 \in 0 .. n
        BY <3>1
      <4> HIDE DEF w
      <4> QED
        BY <4>1, <2>2
    <3> QED
      BY <3>1
  <2> HIDE DEF w
  <2> QED
    BY <2>3
<1>3. Nat \subseteq S
  <2> HIDE DEF S
  <2> QED
    BY <1>1, <1>2, SetInduction
<1> QED
  BY <1>3, LenProperties DEF IsValue, Text

\* Value is reached figure by figure.
LEMMA ValueSteps ==
  ASSUME NEW d \in Text
  PROVE  \E v : ValueUpto(v, d, Len(d)) /\ Value(d) = v[Len(d)]
<1> DEFINE V == CHOOSE v : IsValue(v, d)
<1>1. IsValue(V, d)
  BY ValueExists
<1>2. Value(d) = V[Len(d)]
  BY Zenon DEF Value, IsValue, Figured
<1> HIDE DEF V
<1>3. \A i \in 0 .. Len(d) : V[i] = IF i = 0 THEN 0 ELSE 10 * V[i - 1] + Figured(d[i])
  BY <1>1, Zenon DEF IsValue
<1>4. Len(d) \in Nat
  BY DEF Text
<1>5. ValueUpto(V, d, Len(d))
  BY <1>3, <1>4 DEF ValueUpto
<1> QED
  BY <1>2, <1>5

\* The values of what begins alike are alike.
LEMMA ValueUnique ==
  ASSUME NEW n \in Nat, NEW v, NEW w, NEW d, NEW c,
         ValueUpto(v, d, n), ValueUpto(w, c, n),
         \A i \in 1 .. n : d[i] = c[i] /\ Figured(d[i]) \in 0 .. 9
  PROVE  v[n] = w[n] /\ v[n] \in Nat
<1> DEFINE S == {k \in Nat : k <= n => v[k] = w[k] /\ v[k] \in Nat}
<1>1. 0 \in S
  BY DEF ValueUpto
<1>2. ASSUME NEW k \in Nat, k \in S
      PROVE  k + 1 \in S
  <2>1. SUFFICES ASSUME k + 1 <= n
                 PROVE  v[k + 1] = w[k + 1] /\ v[k + 1] \in Nat
    OBVIOUS
  <2>2. k + 1 \in 1 .. n /\ (k + 1) - 1 = k /\ v[k] = w[k] /\ v[k] \in Nat
    BY <2>1, <1>2
  <2>3. v[k + 1] = 10 * v[k] + Figured(d[k + 1])
    BY <2>2 DEF ValueUpto
  <2>4. w[k + 1] = 10 * w[k] + Figured(c[k + 1])
    BY <2>2 DEF ValueUpto
  <2>5. d[k + 1] = c[k + 1] /\ Figured(d[k + 1]) \in 0 .. 9
    BY <2>2
  <2> QED
    BY <2>2, <2>3, <2>4, <2>5
<1>3. Nat \subseteq S
  <2> HIDE DEF S
  <2> QED
    BY <1>1, <1>2, SetInduction
<1> QED
  BY <1>3

\* Figures have a natural value.
LEMMA ValueOfNumeral ==
  ASSUME NEW d \in Text, \A k \in 1 .. Len(d) : isdigit(d[k])
  PROVE  Value(d) \in Nat
<1>1. PICK v : ValueUpto(v, d, Len(d)) /\ Value(d) = v[Len(d)]
  BY ValueSteps
<1>2. Len(d) \in Nat
  BY DEF Text
<1>3. \A i \in 1 .. Len(d) : Figured(d[i]) \in 0 .. 9
  BY FigureFacts
<1> QED
  BY <1>1, <1>2, <1>3, ValueUnique

\* One figure more.
LEMMA ValueOfAppend ==
  ASSUME NEW d \in Text, \A k \in 1 .. Len(d) : isdigit(d[k]), NEW n \in 0 .. 9
  PROVE  Value(Append(d, Figure[n + 1])) = 10 * Value(d) + n
<1> DEFINE c == Append(d, Figure[n + 1])
<1>1. /\ c \in Text /\ Len(d) \in Nat /\ Len(c) = Len(d) + 1
      /\ \A i \in 1 .. Len(d) : c[i] = d[i]
      /\ c[Len(d) + 1] = Figure[n + 1]
  BY FigureFacts, AppendProperties DEF Text
<1> HIDE DEF c
<1>2. PICK v : ValueUpto(v, d, Len(d)) /\ Value(d) = v[Len(d)]
  BY ValueSteps
<1>3. PICK w : ValueUpto(w, c, Len(c)) /\ Value(c) = w[Len(c)]
  BY <1>1, ValueSteps
<1>4. \A i \in 1 .. Len(d) : Figured(d[i]) \in 0 .. 9
  BY FigureFacts
<1>5. ValueUpto(w, c, Len(d))
  BY <1>1, <1>3 DEF ValueUpto
<1>6. v[Len(d)] = w[Len(d)]
  BY <1>1, <1>2, <1>4, <1>5, ValueUnique
<1>7. w[Len(c)] = 10 * w[Len(c) - 1] + Figured(c[Len(c)])
  BY <1>1, <1>3 DEF ValueUpto
<1>8. Len(c) - 1 = Len(d) /\ Figured(c[Len(c)]) = n
  BY <1>1, FigureFacts
<1> QED
  BY <1>2, <1>3, <1>6, <1>7, <1>8 DEF c

\* What the function of Decimal is said to be.
IsDecimal(f, n) ==
  f = [m \in 0 .. n |-> IF m < 10 THEN <<Figure[m + 1]>>
                        ELSE Append(f[m \div 10], Figure[(m % 10) + 1])]

\* The recursive function of Decimal exists.
LEMMA DecimalExists ==
  ASSUME NEW n \in Nat
  PROVE  \E f : IsDecimal(f, n)
<1> DEFINE Step(f, m) == IF m < 10 THEN <<Figure[m + 1]>>
                         ELSE Append(f[m \div 10], Figure[(m % 10) + 1])
           S == {k \in Nat : \E f : f = [m \in 0 .. k |-> Step(f, m)]}
<1>1. 0 \in S
  <2> DEFINE f == [m \in 0 .. 0 |-> <<Figure[1]>>]
  <2>1. f = [m \in 0 .. 0 |-> Step(f, m)]
    <3>1. \A m \in 0 .. 0 : m < 10 /\ m + 1 = 1
      OBVIOUS
    <3> QED
      BY <3>1
  <2> HIDE DEF f
  <2> QED
    BY <2>1
<1>2. ASSUME NEW k \in Nat, k \in S
      PROVE  k + 1 \in S
  <2>1. PICK f : f = [m \in 0 .. k |-> Step(f, m)]
    BY <1>2
  <2> DEFINE g == [m \in 0 .. k + 1 |-> Step(f, m)]
  <2>2. \A m \in 0 .. k : g[m] = f[m]
    <3>1. \A m \in 0 .. k : f[m] = Step(f, m)
      BY <2>1
    <3> HIDE DEF Step
    <3> QED
      BY <3>1
  <2>3. ASSUME NEW m \in 0 .. k + 1
        PROVE  Step(g, m) = Step(f, m)
    <3>1. CASE m < 10
      BY <3>1
    <3>2. CASE m >= 10
      <4>1. m \div 10 \in 0 .. k
        BY <3>2
      <4>2. g[m \div 10] = f[m \div 10]
        BY <4>1, <2>2
      <4> HIDE DEF g
      <4> QED
        BY <4>2
    <3> QED
      BY <3>1, <3>2
  <2>4. g = [m \in 0 .. k + 1 |-> Step(g, m)]
    BY <2>3
  <2> HIDE DEF g, Step
  <2> QED
    BY <2>4
<1>3. Nat \subseteq S
  <2> HIDE DEF S
  <2> QED
    BY <1>1, <1>2, SetInduction
<1> QED
  BY <1>3 DEF IsDecimal

\* The figures of a number are a numeral, and its value is the number.
LEMMA DecimalFacts ==
  ASSUME NEW n \in Nat
  PROVE  Numeral(Decimal(n)) /\ Value(Decimal(n)) = n
<1> DEFINE F == CHOOSE f : IsDecimal(f, n)
<1>1. IsDecimal(F, n)
  BY DecimalExists
<1>2. Decimal(n) = F[n]
  BY Zenon DEF Decimal, IsDecimal
<1> HIDE DEF F
<1>3. \A m \in 0 .. n : F[m] = IF m < 10 THEN <<Figure[m + 1]>>
                               ELSE Append(F[m \div 10], Figure[(m % 10) + 1])
  BY <1>1, Zenon DEF IsDecimal
<1>0. /\ \A m \in 0 .. n : m < 10 => F[m] = <<Figure[m + 1]>>
      /\ \A m \in 0 .. n : ~ (m < 10) =>
           F[m] = Append(F[m \div 10], Figure[(m % 10) + 1])
  BY <1>3, Zenon
<1> DEFINE Right(m) == Numeral(F[m]) /\ Value(F[m]) = m
           S == {k \in Nat : \A m \in 0 .. n : m <= k => Right(m)}
<1>4. ASSUME NEW m \in 0 .. 9
      PROVE  Numeral(<<Figure[m + 1]>>) /\ Value(<<Figure[m + 1]>>) = m
  <2> DEFINE d == << >>
             c == Figure[m + 1]
  <2>1. d \in Text /\ Len(d) = 0 /\ c \in Byte /\ isdigit(c)
    BY FigureFacts DEF Text
  <2>2. Append(d, c) = <<c>>
    OBVIOUS
  <2>3. Value(<<c>>) = 10 * Value(d) + m
    <3>1. \A k \in 1 .. Len(d) : isdigit(d[k])
      BY <2>1
    <3>2. Value(Append(d, Figure[m + 1])) = 10 * Value(d) + m
      <4> HIDE DEF d
      <4> QED
        BY <2>1, <3>1, ValueOfAppend
    <3> QED
      BY <2>2, <3>2
  <2>4. Value(d) = 0
    BY <2>1, ValueSteps DEF ValueUpto
  <2>5. <<c>> \in Text /\ Len(<<c>>) = 1 /\ <<c>>[1] = c
    BY <2>1 DEF Text
  <2> QED
    BY <2>1, <2>3, <2>4, <2>5 DEF Numeral
<1>5. 0 \in S
  <2>1. \A m \in 0 .. n : m <= 0 => m = 0 /\ 0 < 10 /\ 0 \in 0 .. 9
    OBVIOUS
  <2>2. F[0] = <<Figure[0 + 1]>>
    <3>1. 0 \in 0 .. n /\ 0 < 10
      OBVIOUS
    <3> QED
      BY <3>1, <1>0, Zenon
  <2> QED
    BY <1>4, <2>1, <2>2
<1>6. ASSUME NEW k \in Nat, k \in S
      PROVE  k + 1 \in S
  <2>1. SUFFICES ASSUME k + 1 \in 0 .. n
                 PROVE  Right(k + 1)
    <3>1. \A m \in 0 .. n : m <= k + 1 => m <= k \/ m = k + 1
      OBVIOUS
    <3> HIDE DEF Right
    <3> QED
      BY <1>6, <3>1
  <2> DEFINE m == k + 1
  <2>2. CASE m < 10
    <3>1. m \in 0 .. 9 /\ F[m] = <<Figure[m + 1]>>
      <4>1. m \in 0 .. 9 /\ m \in 0 .. n
        BY <2>1, <2>2
      <4> QED
        BY <4>1, <2>2, <1>0, Zenon
    <3> QED
      BY <3>1, <1>4
  <2>3. CASE m >= 10
    <3> DEFINE q == m \div 10
               r == m % 10
    <3>1. q \in 0 .. n /\ q <= k /\ r \in 0 .. 9 /\ m = 10 * q + r
      BY <2>1, <2>3
    <3>2. F[m] = Append(F[q], Figure[r + 1])
      <4>1. ~ (m < 10) /\ m \in 0 .. n
        BY <2>1, <2>3
      <4> QED
        BY <4>1, <1>0, Zenon
    <3> HIDE DEF q, r, m
    <3>3. Right(q)
      BY <3>1, <1>6
    <3>4. Figure[r + 1] \in Byte /\ isdigit(Figure[r + 1])
      BY <3>1, FigureFacts
    <3>5. Numeral(F[q]) /\ Value(F[q]) = q /\ F[q] \in Seq(Byte) /\ Len(F[q]) \in Nat
      BY <3>3 DEF Numeral, Text
    <3>6. Value(F[m]) = 10 * q + r
      <4>1. F[q] \in Text /\ \A j \in 1 .. Len(F[q]) : isdigit(F[q][j])
        BY <3>5 DEF Numeral
      <4> QED
        BY <3>1, <3>2, <3>5, <4>1, ValueOfAppend
    <3>7. /\ F[m] \in Seq(Byte) /\ Len(F[m]) = Len(F[q]) + 1
          /\ \A j \in 1 .. Len(F[q]) : F[m][j] = F[q][j]
          /\ F[m][Len(F[q]) + 1] = Figure[r + 1]
      BY <3>2, <3>4, <3>5, AppendProperties
    <3>8. Numeral(F[m])
      <4>1. ASSUME NEW j \in 1 .. Len(F[m])
            PROVE  isdigit(F[m][j])
        <5>1. j \in 1 .. Len(F[q]) \/ j = Len(F[q]) + 1
          BY <3>5, <3>7
        <5> QED
          BY <5>1, <3>4, <3>5, <3>7 DEF Numeral
      <4>2. Len(F[m]) > 0
        BY <3>5, <3>7
      <4> QED
        BY <3>7, <4>1, <4>2 DEF Numeral, Text
    <3> QED
      BY <3>1, <3>6, <3>8 DEF m
  <2> QED
    BY <2>1, <2>2, <2>3
<1>7. Nat \subseteq S
  <2> HIDE DEF S
  <2> QED
    BY <1>5, <1>6, SetInduction
<1> QED
  BY <1>2, <1>7

\* Of a numeral, stoll takes every byte.
LEMMA StollOfNumeral ==
  ASSUME NEW s, Numeral(s)
  PROVE  Figures(s) = s /\ stoll(s) = Value(s) /\ ~ StollThrows(s)
<1>1. s \in Text /\ Len(s) \in Nat /\ s # << >> /\ isdigit(s[1])
  BY DEF Numeral, Text
<1>2. Sign(s) = ""
  BY <1>1, FigureFacts DEF Sign
<1>3. {i \in 1 .. Len(s) : ~ isdigit(s[i])} = {}
  BY DEF Numeral
<1>4. SelectInSeq(s, LAMBDA c : ~ isdigit(c)) = 0
  BY <1>3 DEF SelectInSeq
<1>5. Figures(s) = s
  BY <1>2, <1>4 DEF Figures
<1> QED
  BY <1>1, <1>2, <1>5 DEF stoll, StollThrows

\* Of bytes that begin with a figure, stoll takes some, and the number is no less
\* than 0.
LEMMA StollIsNatural ==
  ASSUME NEW s \in Text, s # << >>, isdigit(s[1])
  PROVE  stoll(s) \in Nat /\ ~ StollThrows(s)
<1>1. Len(s) \in Nat /\ Len(s) > 0 /\ \A i \in 1 .. Len(s) : s[i] \in Byte
  BY DEF Text
<1>2. Sign(s) = ""
  BY FigureFacts DEF Sign
<1> DEFINE I == {i \in 1 .. Len(s) : ~ isdigit(s[i])}
           other == IF I # {} THEN Min(I) ELSE 0
<1>3. Figures(s) = IF other = 0 THEN s ELSE SubSeq(s, 1, other - 1)
  BY <1>2 DEF Figures, SelectInSeq
<1>4. CASE I = {}
  <2>1. \A k \in 1 .. Len(s) : isdigit(s[k])
    BY <1>4
  <2>2. Figures(s) = s
    BY <1>3, <1>4
  <2> QED
    BY <1>2, <2>1, <2>2, ValueOfNumeral DEF stoll, StollThrows
<1>5. CASE I # {}
  <2>1. I \subseteq Nat
    BY <1>1
  <2>2. Min(I) \in I /\ \A i \in I : Min(I) <= i
    BY <1>5, <2>1, LeastNatural DEF Min
  <2>3. other = Min(I) /\ other \in 2 .. Len(s)
    BY <1>5, <2>2, <1>1
  <2>4. ASSUME NEW k \in 1 .. other - 1
        PROVE  isdigit(s[k])
    BY <2>2, <2>3
  <2> HIDE DEF I, other
  <2>5. Figures(s) = SubSeq(s, 1, other - 1)
    BY <1>3, <2>3
  <2> DEFINE d == SubSeq(s, 1, other - 1)
  <2>6. /\ d \in Seq(Byte) /\ Len(d) = other - 1
        /\ \A k \in 1 .. other - 1 : d[k] = s[k]
    <3>1. \A k \in 1 .. other - 1 : s[k] \in Byte
      BY <1>1, <2>3
    <3>2. 1 \in Int /\ other - 1 \in Int /\ 1 <= other - 1 /\ other - 1 - 1 + 1 = other - 1
      BY <2>3
    <3>3. \A k \in 1 .. other - 1 : 1 + k - 1 = k
      OBVIOUS
    <3> QED
      BY <3>1, <3>2, <3>3, SubSeqProperties
  <2> HIDE DEF d
  <2>7. d \in Text /\ (\A k \in 1 .. Len(d) : isdigit(d[k])) /\ d # << >>
    BY <2>3, <2>4, <2>6 DEF Text
  <2> QED
    BY <1>2, <2>5, <2>7, ValueOfNumeral DEF stoll, StollThrows, d
<1> QED
  BY <1>4, <1>5

-----------------------------------------------------------------------------
(* What is read from a place in a buffer on.                               *)

Places(buffer) == 1 .. Len(buffer) + 1

\* s is in the buffer from i on.
At(buffer, i, s) ==
  /\ i + Len(s) <= Len(buffer) + 1
  /\ \A k \in 1 .. Len(s) : buffer[i + k - 1] = s[k]

\* The buffer has a part of s from i on, and ends before s does.
Cut(buffer, i, s) ==
  /\ Len(buffer) + 1 < i + Len(s)
  /\ \A k \in 1 .. Len(buffer) + 1 - i : buffer[i + k - 1] = s[k]

\* Where two texts follow each other, the second is where the first ends.
LEMMA AtConcat ==
  ASSUME NEW buffer \in Text, NEW i \in Places(buffer), NEW s \in Text, NEW t \in Text,
         At(buffer, i, s \o t)
  PROVE  /\ At(buffer, i, s) /\ At(buffer, i + Len(s), t)
         /\ i + Len(s) \in Places(buffer)
         /\ i + Len(s \o t) = i + Len(s) + Len(t)
<1>1. /\ Len(s) \in Nat /\ Len(t) \in Nat /\ Len(buffer) \in Nat
      /\ Len(s \o t) = Len(s) + Len(t)
      /\ \A k \in 1 .. Len(s) + Len(t) :
           (s \o t)[k] = IF k <= Len(s) THEN s[k] ELSE t[k - Len(s)]
  BY ConcatProperties DEF Text
<1>2. i \in Nat /\ i + Len(s) + Len(t) <= Len(buffer) + 1
  BY <1>1 DEF At, Places
<1>3. \A k \in 1 .. Len(s) + Len(t) : buffer[i + k - 1] = (s \o t)[k]
  BY <1>1 DEF At
<1>4. At(buffer, i, s)
  BY <1>1, <1>2, <1>3 DEF At
<1>5. ASSUME NEW k \in 1 .. Len(t)
      PROVE  buffer[i + Len(s) + k - 1] = t[k]
  <2> DEFINE j == k + Len(s)
  <2>1. /\ j \in 1 .. Len(s) + Len(t) /\ ~ (j <= Len(s)) /\ j - Len(s) = k
        /\ i + j - 1 = i + Len(s) + k - 1
    BY <1>1, <1>2
  <2>2. buffer[i + j - 1] = t[j - Len(s)]
    <3> HIDE DEF j
    <3> QED
      BY <1>1, <1>3, <2>1
  <2> QED
    BY <2>1, <2>2
<1>6. At(buffer, i + Len(s), t)
  BY <1>1, <1>2, <1>5 DEF At
<1> QED
  BY <1>1, <1>2, <1>4, <1>6 DEF Places

\* The buffer ends in the first text or in the second.
LEMMA CutConcat ==
  ASSUME NEW buffer \in Text, NEW i \in Places(buffer), NEW s \in Text, NEW t \in Text,
         Cut(buffer, i, s \o t)
  PROVE  \/ Cut(buffer, i, s)
         \/ /\ At(buffer, i, s) /\ Cut(buffer, i + Len(s), t)
            /\ i + Len(s) \in Places(buffer)
<1>1. /\ Len(s) \in Nat /\ Len(t) \in Nat /\ Len(buffer) \in Nat
      /\ Len(s \o t) = Len(s) + Len(t)
      /\ \A k \in 1 .. Len(s) + Len(t) :
           (s \o t)[k] = IF k <= Len(s) THEN s[k] ELSE t[k - Len(s)]
  BY ConcatProperties DEF Text
<1>2. i \in Nat /\ i <= Len(buffer) + 1 /\ Len(buffer) + 1 < i + Len(s) + Len(t)
  BY <1>1 DEF Cut, Places
<1>3. \A k \in 1 .. Len(buffer) + 1 - i : buffer[i + k - 1] = (s \o t)[k]
  BY <1>1 DEF Cut
<1>4. CASE Len(buffer) + 1 < i + Len(s)
  BY <1>1, <1>2, <1>3, <1>4 DEF Cut
<1>5. CASE ~ (Len(buffer) + 1 < i + Len(s))
  <2>1. At(buffer, i, s)
    <3>1. \A k \in 1 .. Len(s) : k \in 1 .. Len(buffer) + 1 - i
                                  /\ k \in 1 .. Len(s) + Len(t) /\ k <= Len(s)
      BY <1>1, <1>2, <1>5
    <3>2. \A k \in 1 .. Len(s) : buffer[i + k - 1] = s[k]
      BY <1>1, <1>3, <3>1
    <3> QED
      BY <1>1, <1>2, <1>5, <3>2 DEF At
  <2>2. ASSUME NEW k \in 1 .. Len(buffer) + 1 - (i + Len(s))
        PROVE  buffer[i + Len(s) + k - 1] = t[k]
    <3> DEFINE j == k + Len(s)
    <3>1. /\ j \in 1 .. Len(s) + Len(t) /\ ~ (j <= Len(s)) /\ j - Len(s) = k
          /\ i + j - 1 = i + Len(s) + k - 1 /\ j \in 1 .. Len(buffer) + 1 - i
      BY <1>1, <1>2
    <3>2. buffer[i + j - 1] = t[j - Len(s)]
      <4> HIDE DEF j
      <4> QED
        BY <1>1, <1>3, <3>1
    <3> QED
      BY <3>1, <3>2
  <2>3. Cut(buffer, i + Len(s), t) /\ i + Len(s) \in Places(buffer)
    BY <1>1, <1>2, <1>5, <2>2 DEF Cut, Places
  <2> QED
    BY <2>1, <2>3
<1> QED
  BY <1>4, <1>5

\* One byte.
LEMMA AtByte ==
  ASSUME NEW buffer \in Text, NEW i \in Places(buffer), NEW c
  PROVE  /\ At(buffer, i, <<c>>) => i <= Len(buffer) /\ buffer[i] = c
         /\ Cut(buffer, i, <<c>>) => i = Len(buffer) + 1
<1>1. Len(<<c>>) = 1 /\ <<c>>[1] = c /\ Len(buffer) \in Nat /\ i \in Nat
  BY DEF Text, Places
<1> DEFINE s == <<c>>
<1> HIDE DEF s
<1>2. At(buffer, i, s) => i <= Len(buffer) /\ buffer[i] = c
  <2>1. At(buffer, i, s) => buffer[i + 1 - 1] = s[1]
    BY <1>1 DEF At, s
  <2>2. i + 1 - 1 = i
    BY <1>1
  <2> QED
    BY <1>1, <2>1, <2>2 DEF At, s
<1>3. Cut(buffer, i, s) => i = Len(buffer) + 1
  BY <1>1 DEF Cut, s, Places
<1> QED
  BY <1>2, <1>3 DEF s

-----------------------------------------------------------------------------
(* Strings and integers.                                                   *)

\* find returns the first place that has the byte, or 0.
LEMMA FindFacts ==
  ASSUME NEW buffer \in Text, NEW c, NEW i \in Nat
  PROVE  \/ /\ find(buffer, c, i) = 0
            /\ \A j \in i .. Len(buffer) : buffer[j] # c
         \/ /\ find(buffer, c, i) \in i .. Len(buffer)
            /\ buffer[find(buffer, c, i)] = c
            /\ \A j \in i .. find(buffer, c, i) - 1 : buffer[j] # c
<1> DEFINE I == {j \in i .. Len(buffer) : buffer[j] = c}
<1>1. find(buffer, c, i) = IF I # {} THEN Min(I) ELSE 0
  BY DEF find, SelectInSubSeq
<1>2. Len(buffer) \in Nat
  BY DEF Text
<1>3. CASE I = {}
  BY <1>1, <1>3
<1>4. CASE I # {}
  <2>1. I \subseteq Nat
    BY <1>2
  <2>2. Min(I) \in I /\ \A j \in I : Min(I) <= j
    BY <1>4, <2>1, LeastNatural DEF Min
  <2> DEFINE m == Min(I)
  <2>3. m \in i .. Len(buffer) /\ buffer[m] = c
    BY <2>2
  <2>4. \A j \in i .. m - 1 : buffer[j] # c
    BY <2>2, <2>3, <1>2
  <2> HIDE DEF I
  <2> QED
    BY <1>1, <1>4, <2>3, <2>4
<1> QED
  BY <1>3, <1>4

\* The byte behind a numeral is found at its end; nothing is found where the buffer
\* ends before.
LEMMA FindBehindNumeral ==
  ASSUME NEW buffer \in Text, NEW i \in Places(buffer), NEW s, Numeral(s),
         NEW c \in {":", "e"}
  PROVE  /\ At(buffer, i, s) /\ At(buffer, i + Len(s), <<c>>) =>
              find(buffer, c, i) = i + Len(s) /\ SubSeq(buffer, i, i + Len(s) - 1) = s
         /\ Cut(buffer, i, s) => find(buffer, c, i) = 0
         /\ At(buffer, i, s) /\ Cut(buffer, i + Len(s), <<c>>) => find(buffer, c, i) = 0
<1>1. /\ s \in Seq(Byte) /\ Len(s) \in Nat /\ Len(buffer) \in Nat /\ i \in Nat
      /\ \A k \in 1 .. Len(s) : s[k] # c
  BY FigureFacts DEF Numeral, Text, Places
<1>2. ASSUME At(buffer, i, s)
      PROVE  \A j \in i .. i + Len(s) - 1 : buffer[j] # c
  <2> SUFFICES ASSUME NEW j \in i .. i + Len(s) - 1
               PROVE  buffer[j] # c
    OBVIOUS
  <2> DEFINE k == j - i + 1
  <2>1. k \in 1 .. Len(s) /\ i + k - 1 = j
    BY <1>1
  <2>2. buffer[i + k - 1] = s[k]
    BY <1>2, <2>1 DEF At
  <2> QED
    BY <1>1, <2>1, <2>2
<1>3. ASSUME At(buffer, i, s), At(buffer, i + Len(s), <<c>>)
      PROVE  find(buffer, c, i) = i + Len(s) /\ SubSeq(buffer, i, i + Len(s) - 1) = s
  <2>1. i + Len(s) \in Places(buffer)
    BY <1>1, <1>3 DEF At, Places
  <2>2. i + Len(s) <= Len(buffer) /\ buffer[i + Len(s)] = c
    BY <1>3, <2>1, AtByte
  <2>3. find(buffer, c, i) = i + Len(s)
    <3> DEFINE f == find(buffer, c, i)
    <3>1. f # 0
      <4>1. i + Len(s) \in i .. Len(buffer)
        BY <1>1, <2>2
      <4> QED
        BY <1>1, <2>2, <4>1, FindFacts DEF Places
    <3>2. /\ f \in i .. Len(buffer) /\ buffer[f] = c
          /\ \A j \in i .. f - 1 : buffer[j] # c
      BY <1>1, <3>1, FindFacts
    <3>3. ~ (f < i + Len(s))
      BY <1>1, <1>2, <1>3, <3>2
    <3>4. ~ (f > i + Len(s))
      BY <1>1, <2>2, <3>2
    <3> QED
      BY <1>1, <3>2, <3>3, <3>4
  <2>4. SubSeq(buffer, i, i + Len(s) - 1) = s
    <3> DEFINE n == i + Len(s) - 1
               d == SubSeq(buffer, i, n)
    <3>1. \A j \in i .. n : buffer[j] \in Byte
      <4>1. \A j \in i .. n : j \in 1 .. Len(buffer)
        BY <1>1, <2>2 DEF Places
      <4> QED
        BY <4>1, ElementOfSeq DEF Text
    <3>2. n \in Int /\ i \in Int /\ i <= n /\ n - i + 1 = Len(s)
      BY <1>1 DEF Numeral
    <3>3. d \in Seq(Byte) /\ Len(d) = n - i + 1 /\ \A k \in 1 .. n - i + 1 : d[k] = buffer[i + k - 1]
      <4> HIDE DEF n
      <4> QED
        BY <3>1, <3>2, SubSeqProperties
    <3>4. \A k \in 1 .. Len(d) : d[k] = s[k]
      BY <1>3, <3>2, <3>3 DEF At
    <3>5. Len(d) = Len(s)
      BY <3>2, <3>3
    <3> HIDE DEF d, n
    <3>6. d = s
      BY <1>1, <3>3, <3>4, <3>5, SeqEqual
    <3> QED
      BY <3>6 DEF d, n
  <2> QED
    BY <2>3, <2>4
<1>4. ASSUME Cut(buffer, i, s)
      PROVE  find(buffer, c, i) = 0
  <2>1. ASSUME NEW j \in i .. Len(buffer)
        PROVE  buffer[j] # c
    <3> DEFINE k == j - i + 1
    <3>1. k \in 1 .. Len(s) /\ k \in 1 .. Len(buffer) + 1 - i /\ i + k - 1 = j
      BY <1>1, <1>4 DEF Cut
    <3>2. buffer[i + k - 1] = s[k]
      BY <1>4, <3>1 DEF Cut
    <3> QED
      BY <1>1, <3>1, <3>2
  <2> QED
    BY <1>1, <2>1, FindFacts
<1>5. ASSUME At(buffer, i, s), Cut(buffer, i + Len(s), <<c>>)
      PROVE  find(buffer, c, i) = 0
  <2>1. i + Len(s) = Len(buffer) + 1
    <3>1. i + Len(s) \in Places(buffer)
      BY <1>1, <1>5 DEF At, Places
    <3> QED
      BY <1>5, <3>1, AtByte
  <2>2. \A j \in i .. Len(buffer) : buffer[j] # c
    BY <1>1, <1>2, <1>5, <2>1
  <2> QED
    BY <1>1, <2>2, FindFacts
<1> QED
  BY <1>3, <1>4, <1>5

-----------------------------------------------------------------------------
(* Strings and integers.                                                   *)

\* What is in the buffer is what SubSeq takes out of it.
LEMMA AtIsSubSeq ==
  ASSUME NEW buffer \in Text, NEW i \in Places(buffer), NEW s \in Text, At(buffer, i, s)
  PROVE  SubSeq(buffer, i, i + Len(s) - 1) = s
<1> DEFINE n == i + Len(s) - 1
           d == SubSeq(buffer, i, n)
<1>1. s \in Seq(Byte) /\ Len(s) \in Nat /\ Len(buffer) \in Nat /\ i \in Nat /\ i > 0
  BY DEF Text, Places
<1>2. n \in Int /\ i \in Int /\ n - i + 1 = Len(s) /\ n <= Len(buffer)
  BY <1>1 DEF At
<1>3. \A j \in i .. n : buffer[j] \in Byte
  <2>1. \A j \in i .. n : j \in 1 .. Len(buffer)
    BY <1>1, <1>2
  <2> QED
    BY <2>1, ElementOfSeq DEF Text
<1>4. /\ d \in Seq(Byte) /\ Len(d) = IF i <= n THEN n - i + 1 ELSE 0
      /\ \A k \in 1 .. n - i + 1 : d[k] = buffer[i + k - 1]
  <2> HIDE DEF n
  <2> QED
    BY <1>2, <1>3, SubSeqProperties
<1>5. Len(d) = Len(s)
  <2> HIDE DEF d
  <2> QED
    BY <1>1, <1>4
<1>6. \A k \in 1 .. Len(d) : d[k] = s[k]
  <2> HIDE DEF d
  <2> QED
    BY <1>1, <1>2, <1>4, <1>5 DEF At
<1> HIDE DEF d
<1>7. d = s
  BY <1>1, <1>4, <1>5, <1>6, SeqEqual
<1> QED
  BY <1>7 DEF d

\* One byte is a text.
LEMMA OneByte ==
  ASSUME NEW c \in Byte
  PROVE  <<c>> \in Text /\ Len(<<c>>) = 1
BY DEF Text

\* What a string is written as: its parts.
LEMMA StringParts ==
  ASSUME NEW s \in Text
  PROVE  /\ Numeral(Decimal(Len(s))) /\ stoll(Decimal(Len(s))) = Len(s)
         /\ Decimal(Len(s)) \in Text /\ <<":">> \in Text
         /\ Decimal(Len(s)) \o <<":">> \in Text
         /\ String(s) = (Decimal(Len(s)) \o <<":">>) \o s
         /\ String(s) \in Text
<1>1. Len(s) \in Nat
  BY DEF Text
<1>2. Numeral(Decimal(Len(s))) /\ Value(Decimal(Len(s))) = Len(s)
  BY <1>1, DecimalFacts
<1>3. ":" \in Byte
  BY ByteAssumption
<1>4. Decimal(Len(s)) \in Text /\ <<":">> \in Text
  BY <1>2, <1>3, OneByte DEF Numeral
<1>5. Decimal(Len(s)) \o <<":">> \in Text
  BY <1>4, ConcatProperties DEF Text
<1>6. String(s) = (Decimal(Len(s)) \o <<":">>) \o s
  BY DEF String
<1>7. String(s) \in Text
  BY <1>5, <1>6, ConcatProperties DEF Text
<1> QED
  BY <1>2, <1>4, <1>5, <1>6, <1>7, StollOfNumeral

\* parse_string reads back a string, and throws where the buffer ends in it.
LEMMA ParseString ==
  ASSUME NEW buffer \in Text, NEW i \in Places(buffer), NEW s \in Text
  PROVE  /\ At(buffer, i, String(s)) =>
              parse_string(buffer, i) = Parsed(<<"string", s>>, i + Len(String(s)))
         /\ Cut(buffer, i, String(s)) => parse_string(buffer, i) = Throws
<1> DEFINE N == Decimal(Len(s))
           colon == i + Len(N)
<1>1. /\ Numeral(N) /\ stoll(N) = Len(s) /\ N \in Text /\ <<":">> \in Text
      /\ N \o <<":">> \in Text
      /\ String(s) = (N \o <<":">>) \o s
      /\ Len(N \o <<":">>) = Len(N) + 1
  <2>1. N \in Text /\ <<":">> \in Text /\ Len(<<":">>) = 1
    BY StringParts
  <2>2. Len(N \o <<":">>) = Len(N) + 1
    BY <2>1, ConcatProperties DEF Text
  <2> QED
    BY <2>2, StringParts
<1> HIDE DEF N
<1>2. Len(s) \in Nat /\ Len(N) \in Nat /\ Len(buffer) \in Nat /\ i \in Nat /\ i > 0
  BY <1>1 DEF Text, Places
<1>3. ASSUME At(buffer, i, N \o <<":">>)
      PROVE  /\ find(buffer, ":", i) = colon /\ SubSeq(buffer, i, colon - 1) = N
             /\ i + Len(N \o <<":">>) = colon + 1 /\ colon # 0
  <2>1. At(buffer, i, N) /\ At(buffer, colon, <<":">>)
    BY <1>1, <1>3, AtConcat
  <2> QED
    BY <1>1, <1>2, <2>1, FindBehindNumeral
<1>4. ASSUME At(buffer, i, String(s))
      PROVE  parse_string(buffer, i) = Parsed(<<"string", s>>, i + Len(String(s)))
  <2>1. /\ At(buffer, i, N \o <<":">>) /\ At(buffer, i + Len(N \o <<":">>), s)
        /\ i + Len(N \o <<":">>) \in Places(buffer)
        /\ i + Len(String(s)) = i + Len(N \o <<":">>) + Len(s)
    <3> DEFINE M == N \o <<":">>
    <3>1. M \in Text /\ At(buffer, i, M \o s)
      BY <1>1, <1>4
    <3> HIDE DEF M
    <3>2. /\ At(buffer, i, M) /\ At(buffer, i + Len(M), s)
          /\ i + Len(M) \in Places(buffer)
          /\ i + Len(M \o s) = i + Len(M) + Len(s)
      BY <3>1, AtConcat
    <3> QED
      BY <1>1, <3>2 DEF M
  <2>2. /\ find(buffer, ":", i) = colon /\ SubSeq(buffer, i, colon - 1) = N
        /\ i + Len(N \o <<":">>) = colon + 1 /\ colon # 0
    BY <2>1, <1>3
  <2>3. SubSeq(buffer, colon + 1, colon + 1 + Len(s) - 1) = s
    BY <2>1, <2>2, AtIsSubSeq
  <2>4. colon + 1 + Len(s) - 1 = colon + Len(s) /\ colon + Len(s) + 1 = i + Len(String(s))
    BY <1>2, <2>1, <2>2
  <2>5. ~ (colon + Len(s) > Len(buffer))
    BY <1>2, <2>1, <2>2 DEF At
  <2> HIDE DEF colon
  <2> QED
    BY <1>1, <2>2, <2>3, <2>4, <2>5 DEF parse_string
<1>5. ASSUME Cut(buffer, i, String(s))
      PROVE  parse_string(buffer, i) = Throws
  <2>1. CASE Cut(buffer, i, N \o <<":">>)
    <3>1. find(buffer, ":", i) = 0
      <4>1. \/ Cut(buffer, i, N)
            \/ At(buffer, i, N) /\ Cut(buffer, i + Len(N), <<":">>)
        BY <1>1, <2>1, CutConcat
      <4> QED
        BY <1>1, <4>1, FindBehindNumeral
    <3> QED
      BY <3>1 DEF parse_string
  <2>2. CASE At(buffer, i, N \o <<":">>) /\ Cut(buffer, i + Len(N \o <<":">>), s)
    <3>1. /\ find(buffer, ":", i) = colon /\ SubSeq(buffer, i, colon - 1) = N
          /\ i + Len(N \o <<":">>) = colon + 1 /\ colon # 0
      BY <2>2, <1>3
    <3>2. colon + Len(s) > Len(buffer)
      BY <1>2, <2>2, <3>1 DEF Cut
    <3> HIDE DEF colon
    <3> QED
      BY <1>1, <3>1, <3>2 DEF parse_string
  <2> QED
    BY <1>1, <1>5, <2>1, <2>2, CutConcat
<1> QED
  BY <1>4, <1>5

\* parse_integer reads back an integer, and throws where the buffer ends in it.
LEMMA ParseInteger ==
  ASSUME NEW buffer \in Text, NEW i \in Places(buffer), NEW n \in Nat
  PROVE  /\ Integer(n) \in Text
         /\ At(buffer, i, Integer(n)) =>
              parse_integer(buffer, i) = Parsed(<<"int", n>>, i + Len(Integer(n)))
         /\ Cut(buffer, i, Integer(n)) => parse_integer(buffer, i) = Throws
<1> DEFINE N == Decimal(n)
<1>1. Numeral(N) /\ stoll(N) = n /\ ~ StollThrows(N)
  BY DecimalFacts, StollOfNumeral
<1> HIDE DEF N
<1>2. /\ N \in Text /\ <<"i">> \in Text /\ <<"e">> \in Text
      /\ Len(<<"i">>) = 1 /\ Len(<<"e">>) = 1
  BY <1>1, ByteAssumption, OneByte DEF Numeral
<1>3. /\ <<"i">> \o N \in Text /\ Len(<<"i">> \o N) = 1 + Len(N)
      /\ Integer(n) = (<<"i">> \o N) \o <<"e">> /\ Integer(n) \in Text
  BY <1>2, ConcatProperties DEF Integer, Text, N
<1>4. Len(N) \in Nat /\ Len(buffer) \in Nat /\ i \in Nat
  BY <1>2 DEF Text, Places
<1>5. ASSUME At(buffer, i, Integer(n))
      PROVE  parse_integer(buffer, i) = Parsed(<<"int", n>>, i + Len(Integer(n)))
  <2>1. /\ At(buffer, i, <<"i">> \o N) /\ At(buffer, i + Len(<<"i">> \o N), <<"e">>)
        /\ i + Len(Integer(n)) = i + Len(<<"i">> \o N) + 1
    <3> DEFINE M == <<"i">> \o N
               t == <<"e">>
    <3>1. M \in Text /\ t \in Text /\ At(buffer, i, M \o t)
      BY <1>2, <1>3, <1>5
    <3>2. Integer(n) = M \o t /\ Len(t) = 1
      BY <1>2, <1>3
    <3> HIDE DEF M, t
    <3>3. /\ At(buffer, i, M) /\ At(buffer, i + Len(M), t)
          /\ i + Len(M \o t) = i + Len(M) + Len(t)
      BY <3>1, AtConcat
    <3> QED
      BY <3>2, <3>3 DEF M, t
  <2>2. At(buffer, i + 1, N) /\ i + 1 \in Places(buffer)
    <3> DEFINE t == <<"i">>
    <3>1. t \in Text /\ Len(t) = 1 /\ At(buffer, i, t \o N)
      BY <1>2, <2>1
    <3>2. N \in Text
      BY <1>2
    <3> HIDE DEF t
    <3>3. At(buffer, i + Len(t), N) /\ i + Len(t) \in Places(buffer)
      BY <3>1, <3>2, AtConcat
    <3> QED
      BY <3>1, <3>3
  <2>3. i + 1 + Len(N) = i + Len(<<"i">> \o N) /\ i + 1 + Len(N) # 0
    BY <1>3, <1>4
  <2>4. /\ find(buffer, "e", i + 1) = i + 1 + Len(N)
        /\ SubSeq(buffer, i + 1, i + 1 + Len(N) - 1) = N
    BY <1>1, <2>1, <2>2, <2>3, FindBehindNumeral
  <2>5. i + Len(Integer(n)) = i + 1 + Len(N) + 1
    BY <2>1, <2>3
  <2> DEFINE end == i + 1 + Len(N)
  <2>6. /\ find(buffer, "e", i + 1) = end /\ SubSeq(buffer, i + 1, end - 1) = N
        /\ end # 0 /\ i + Len(Integer(n)) = end + 1
    <3>1. find(buffer, "e", i + 1) = end
      BY <2>4
    <3>2. SubSeq(buffer, i + 1, end - 1) = N
      <4>1. end - 1 = i + 1 + Len(N) - 1
        BY <1>4
      <4> HIDE DEF end
      <4> QED
        BY <2>4, <4>1
    <3>3. end # 0
      BY <2>3
    <3>4. i + Len(Integer(n)) = end + 1
      BY <2>5
    <3> QED
      BY <3>1, <3>2, <3>3, <3>4
  <2> HIDE DEF end
  <2> QED
    BY <1>1, <2>6 DEF parse_integer
<1>6. ASSUME Cut(buffer, i, Integer(n))
      PROVE  parse_integer(buffer, i) = Throws
  <2>1. find(buffer, "e", i + 1) = 0
    <3>1. CASE Cut(buffer, i, <<"i">> \o N)
      <4>1. CASE Cut(buffer, i, <<"i">>)
        <5>1. i = Len(buffer) + 1
          BY <4>1, AtByte
        <5>2. i + 1 .. Len(buffer) = {}
          BY <1>4, <5>1
        <5>3. i + 1 \in Nat /\ i + 1 > Len(buffer)
          BY <1>4, <5>1
        <5> QED
          BY <1>4, <5>2, <5>3, FindFacts
      <4>2. CASE i + 1 \in Places(buffer) /\ Cut(buffer, i + 1, N)
        BY <1>1, <4>2, FindBehindNumeral
      <4> QED
        BY <1>2, <3>1, <4>1, <4>2, CutConcat
    <3>2. CASE At(buffer, i, <<"i">> \o N) /\ Cut(buffer, i + Len(<<"i">> \o N), <<"e">>)
      <4>1. At(buffer, i + 1, N) /\ i + 1 \in Places(buffer)
        <5> DEFINE t == <<"i">>
        <5>1. t \in Text /\ Len(t) = 1 /\ At(buffer, i, t \o N)
          BY <1>2, <3>2
        <5>2. N \in Text
          BY <1>2
        <5> HIDE DEF t
        <5>3. At(buffer, i + Len(t), N) /\ i + Len(t) \in Places(buffer)
          BY <5>1, <5>2, AtConcat
        <5> QED
          BY <5>1, <5>3
      <4>2. i + 1 + Len(N) = i + Len(<<"i">> \o N)
        BY <1>3, <1>4
      <4> QED
        BY <1>1, <3>2, <4>1, <4>2, FindBehindNumeral
    <3> QED
      BY <1>2, <1>3, <1>6, <3>1, <3>2, CutConcat
  <2> QED
    BY <2>1 DEF parse_integer
<1> QED
  BY <1>3, <1>5, <1>6

-----------------------------------------------------------------------------
(* The parsers as one function.                                            *)

Sites(buffer) == {"node", "list", "dict"} \X Places(buffer)

\* What the parser at[1] returns from at[2] on, where p is what it calls.
Calls(p, buffer, at) ==
  IF at[1] = "node" THEN parse_node(p, buffer, at[2])
  ELSE IF at[1] = "list" THEN parse_list(p, buffer, at[2])
  ELSE parse_dict(p, buffer, at[2])

IsParser(p, buffer) == p = [at \in Sites(buffer) |-> Calls(p, buffer, at)]

\* A result is behind the place it was read from, or there is none.
Ends(r, buffer, i) == r.index = 0 \/ r.index \in i + 1 .. Len(buffer) + 1

\* A parser calls parsers of a lower rank only.
RankOf(buffer, at) ==
  2 * (Len(buffer) + 1 - at[2]) + (IF at[1] = "node" THEN 0 ELSE 1)

\* What stands for an exception is told from every result.
LEMMA ThrowsIsNone == Throws.index = 0 /\ Threw(Throws)
BY DEF Throws, Parsed, Threw

\* The two fields of a result.
LEMMA ParsedFields ==
  ASSUME NEW n, NEW i
  PROVE  Parsed(n, i).node = n /\ Parsed(n, i).index = i
BY DEF Parsed

\* parse_string goes on, and stays in the buffer.
LEMMA StringEnds ==
  ASSUME NEW buffer \in Text, NEW i \in 1 .. Len(buffer), isdigit(buffer[i])
  PROVE  Ends(parse_string(buffer, i), buffer, i)
<1> DEFINE colon == find(buffer, ":", i)
           s == SubSeq(buffer, i, colon - 1)
<1>1. Len(buffer) \in Nat /\ i \in Nat /\ i > 0
  BY DEF Text
<1>2. CASE colon = 0
  BY <1>2, ThrowsIsNone DEF parse_string, Ends
<1>3. CASE colon # 0
  <2>1. colon \in i .. Len(buffer) /\ buffer[colon] = ":"
    BY <1>1, <1>3, FindFacts
  <2> HIDE DEF colon
  <2>2. colon \in i + 1 .. Len(buffer)
    <3>1. colon # i
      BY <2>1, FigureFacts
    <3> QED
      BY <1>1, <2>1, <3>1
  <2>3. s \in Text /\ s # << >> /\ s[1] = buffer[i]
    <3> DEFINE n == colon - 1
    <3>1. \A j \in i .. n : buffer[j] \in Byte
      <4>1. \A j \in i .. n : j \in 1 .. Len(buffer)
        BY <1>1, <2>2
      <4> QED
        BY <4>1, ElementOfSeq DEF Text
    <3>2. n \in Int /\ i \in Int /\ i <= n /\ 1 \in 1 .. n - i + 1 /\ i + 1 - 1 = i
      BY <1>1, <2>2
    <3> HIDE DEF n
    <3>3. /\ SubSeq(buffer, i, n) \in Seq(Byte) /\ Len(SubSeq(buffer, i, n)) = n - i + 1
          /\ SubSeq(buffer, i, n)[1] = buffer[i]
      BY <3>1, <3>2, SubSeqProperties
    <3>4. n - i + 1 > 0
      BY <3>2
    <3>5. SubSeq(buffer, i, n) # << >>
      BY <3>3, <3>4
    <3> QED
      BY <3>3, <3>5 DEF n, Text
  <2> HIDE DEF s
  <2>4. stoll(s) \in Nat
    BY <2>3, StollIsNatural
  <2>5. CASE colon + stoll(s) > Len(buffer)
    BY <1>3, <2>5, ThrowsIsNone DEF parse_string, Ends, colon, s
  <2>6. CASE ~ (colon + stoll(s) > Len(buffer))
    <3>1. parse_string(buffer, i).index = colon + stoll(s) + 1
      BY <1>3, <2>6, ParsedFields DEF parse_string, colon, s
    <3> QED
      BY <1>1, <2>2, <2>4, <2>6, <3>1 DEF Ends
  <2> QED
    BY <2>5, <2>6
<1> QED
  BY <1>2, <1>3

\* parse_integer goes on, and stays in the buffer.
LEMMA IntegerEnds ==
  ASSUME NEW buffer \in Text, NEW i \in 1 .. Len(buffer)
  PROVE  Ends(parse_integer(buffer, i), buffer, i)
<1> DEFINE end == find(buffer, "e", i + 1)
<1>1. Len(buffer) \in Nat /\ i \in Nat /\ i > 0
  BY DEF Text
<1>2. \/ parse_integer(buffer, i) = Throws
      \/ end # 0 /\ parse_integer(buffer, i).index = end + 1
  BY ParsedFields DEF parse_integer
<1>3. end = 0 \/ end \in i + 1 .. Len(buffer)
  BY <1>1, FindFacts
<1> HIDE DEF end
<1> QED
  BY <1>1, <1>2, <1>3, ThrowsIsNone DEF Ends

\* What a parser returns depends on what parsers of a lower rank return, and ends
\* where it should if they do.
LEMMA CallsDepend ==
  ASSUME NEW buffer \in Text, NEW at \in Sites(buffer), NEW p, NEW q,
         \A b \in Sites(buffer) : RankOf(buffer, b) < RankOf(buffer, at) =>
           p[b] = q[b] /\ Ends(p[b], buffer, b[2])
  PROVE  Calls(p, buffer, at) = Calls(q, buffer, at)
         /\ Ends(Calls(p, buffer, at), buffer, at[2])
<1> DEFINE i == at[2]
<1>1. /\ Len(buffer) \in Nat /\ i \in 1 .. Len(buffer) + 1
      /\ at[1] \in {"node", "list", "dict"} /\ at = <<at[1], i>>
  BY DEF Text, Sites, Places
<1> HIDE DEF i
\* The calls that are made.
<1>2. ASSUME NEW j \in i + 1 .. Len(buffer) + 1, NEW k \in {"node", "list", "dict"}
      PROVE  p[<<k, j>>] = q[<<k, j>>] /\ Ends(p[<<k, j>>], buffer, j)
  <2>1. <<k, j>> \in Sites(buffer) /\ <<k, j>>[1] = k /\ <<k, j>>[2] = j
    BY <1>1 DEF Sites, Places
  <2>2. RankOf(buffer, <<k, j>>) < RankOf(buffer, at)
    BY <1>1, <2>1 DEF RankOf, i
  <2> QED
    BY <2>1, <2>2
<1>3. ASSUME at[1] = "list"
      PROVE  p[<<"node", i>>] = q[<<"node", i>>] /\ Ends(p[<<"node", i>>], buffer, i)
  <2>1. /\ <<"node", i>> \in Sites(buffer)
        /\ <<"node", i>>[1] = "node" /\ <<"node", i>>[2] = i
    BY <1>1 DEF Sites, Places
  <2>2. RankOf(buffer, <<"node", i>>) < RankOf(buffer, at)
    BY <1>1, <1>3, <2>1 DEF RankOf, i
  <2> QED
    BY <2>1, <2>2
<1>4. CASE i > Len(buffer)
  <2>1. \A f : parse_node(f, buffer, i) = Throws /\ parse_list(f, buffer, i) = Throws
               /\ parse_dict(f, buffer, i) = Throws
    BY <1>4 DEF parse_node, parse_list, parse_dict
  <2> QED
    BY <2>1, ThrowsIsNone DEF Calls, Ends, i
<1>5. CASE i <= Len(buffer)
  <2>1. ~ (i > Len(buffer)) /\ i \in 1 .. Len(buffer) /\ i + 1 \in i + 1 .. Len(buffer) + 1
    BY <1>1, <1>5
  <2>2. ASSUME NEW r, Ends(r, buffer, i), ~ Threw(r)
        PROVE  r.index \in i + 1 .. Len(buffer) + 1
    BY <2>2 DEF Ends, Threw
  <2>3. ASSUME NEW j \in i + 1 .. Len(buffer) + 1, NEW r, Ends(r, buffer, j)
        PROVE  Ends(r, buffer, i)
    BY <1>1, <2>3 DEF Ends
  <2>4. CASE at[1] = "node"
    <3>1. /\ p[<<"list", i + 1>>] = q[<<"list", i + 1>>]
          /\ p[<<"dict", i + 1>>] = q[<<"dict", i + 1>>]
          /\ Ends(p[<<"list", i + 1>>], buffer, i) /\ Ends(p[<<"dict", i + 1>>], buffer, i)
      BY <1>2, <2>1, <2>3
    <3>2. parse_node(p, buffer, i) = parse_node(q, buffer, i)
      BY <3>1 DEF parse_node
    <3>3. Ends(parse_node(p, buffer, i), buffer, i)
      <4>1. Ends(Throws, buffer, i)
        BY ThrowsIsNone DEF Ends
      <4> QED
        BY <2>1, <3>1, <4>1, StringEnds, IntegerEnds DEF parse_node
    <3> QED
      BY <2>4, <3>2, <3>3 DEF Calls, i
  <2>5. CASE at[1] = "list"
    <3> DEFINE element == p[<<"node", i>>]
               others == p[<<"list", element.index>>]
    <3>1. element = q[<<"node", i>>] /\ Ends(element, buffer, i)
      BY <1>3, <2>5
    <3>2. ~ Threw(element) => /\ others = q[<<"list", element.index>>]
                              /\ Ends(others, buffer, i)
      <4> SUFFICES ASSUME ~ Threw(element)
                   PROVE  others = q[<<"list", element.index>>] /\ Ends(others, buffer, i)
        OBVIOUS
      <4>1. element.index \in i + 1 .. Len(buffer) + 1
        BY <2>2, <3>1
      <4> QED
        BY <1>2, <2>3, <4>1
    <3> HIDE DEF others
    <3>3. parse_list(p, buffer, i) = parse_list(q, buffer, i)
      BY <3>1, <3>2, ThrowsIsNone DEF parse_list, others
    <3>4. Ends(parse_list(p, buffer, i), buffer, i)
      <4>1. CASE buffer[i] = "e"
        <5>1. parse_list(p, buffer, i).index = i + 1
          BY <2>1, <4>1, ParsedFields DEF parse_list
        <5> QED
          BY <2>1, <5>1 DEF Ends
      <4>2. CASE buffer[i] # "e"
        <5>1. \/ parse_list(p, buffer, i) = Throws
              \/ ~ Threw(element) /\ parse_list(p, buffer, i).index = others.index
          BY <2>1, <4>2, ParsedFields, ThrowsIsNone DEF parse_list, others
        <5> QED
          BY <3>2, <5>1, ThrowsIsNone DEF Ends
      <4> QED
        BY <4>1, <4>2
    <3> QED
      BY <2>5, <3>3, <3>4 DEF Calls, i
  <2>6. CASE at[1] = "dict"
    <3> DEFINE key == parse_string(buffer, i)
               value == p[<<"node", key.index>>]
               others == p[<<"dict", value.index>>]
    <3>1. isdigit(buffer[i]) => Ends(key, buffer, i)
      BY <2>1, StringEnds
    <3>2. ASSUME isdigit(buffer[i]), ~ Threw(key)
          PROVE  /\ key.index \in i + 1 .. Len(buffer) + 1
                 /\ value = q[<<"node", key.index>>] /\ Ends(value, buffer, i)
      <4>1. key.index \in i + 1 .. Len(buffer) + 1
        BY <2>2, <3>1, <3>2
      <4> QED
        BY <1>2, <2>3, <4>1
    <3>3. ASSUME isdigit(buffer[i]), ~ Threw(key), ~ Threw(value)
          PROVE  /\ others = q[<<"dict", value.index>>] /\ Ends(others, buffer, i)
      <4>1. value.index \in i + 1 .. Len(buffer) + 1
        BY <2>2, <3>2, <3>3
      <4> QED
        BY <1>2, <2>3, <4>1
    <3>4. CASE buffer[i] = "e"
      <4>1. /\ parse_dict(p, buffer, i) = parse_dict(q, buffer, i)
            /\ parse_dict(p, buffer, i).index = i + 1
        BY <2>1, <3>4, ParsedFields DEF parse_dict
      <4> QED
        BY <2>1, <2>6, <4>1 DEF Ends, Calls, i
    <3>5. CASE buffer[i] # "e" /\ ~ isdigit(buffer[i])
      <4>1. \A f : parse_dict(f, buffer, i) = Throws
        BY <2>1, <3>5 DEF parse_dict
      <4> QED
        BY <2>6, <4>1, ThrowsIsNone DEF Ends, Calls, i
    <3>6. CASE buffer[i] # "e" /\ isdigit(buffer[i])
      <4> HIDE DEF key, value, others
      <4>1. parse_dict(p, buffer, i) = parse_dict(q, buffer, i)
        BY <3>2, <3>3, <3>6, ThrowsIsNone DEF parse_dict, key, value, others
      <4>2. \/ parse_dict(p, buffer, i) = Throws
            \/ /\ ~ Threw(key) /\ ~ Threw(value)
               /\ parse_dict(p, buffer, i).index = others.index
        BY <2>1, <3>6, ParsedFields, ThrowsIsNone DEF parse_dict, key, value, others
      <4>3. Ends(parse_dict(p, buffer, i), buffer, i)
        BY <3>3, <3>6, <4>2, ThrowsIsNone DEF Ends
      <4> QED
        BY <2>6, <4>1, <4>3 DEF Calls, i
    <3> QED
      BY <3>4, <3>5, <3>6
  <2> QED
    BY <1>1, <2>4, <2>5, <2>6
<1> QED
  BY <1>1, <1>4, <1>5

\* The parsers' common recursive function exists: every call is of a lower rank.
LEMMA ParserExists ==
  ASSUME NEW buffer \in Text
  PROVE  \E p : IsParser(p, buffer)
<1> DEFINE Low(n) == {at \in Sites(buffer) : RankOf(buffer, at) < n}
           Good(p, n) == /\ p = [at \in Low(n) |-> Calls(p, buffer, at)]
                         /\ \A at \in Low(n) : Ends(p[at], buffer, at[2])
           S == {n \in Nat : \E p : Good(p, n)}
<1>1. Len(buffer) \in Nat
  BY DEF Text
<1>2. \A at \in Sites(buffer) : RankOf(buffer, at) \in 0 .. 2 * Len(buffer) + 1
  BY <1>1 DEF RankOf, Sites, Places
<1>3. 0 \in S
  <2>1. Low(0) = {}
    BY <1>2
  <2> DEFINE p == [at \in Low(0) |-> 0]
  <2>2. p = [at \in Low(0) |-> Calls(p, buffer, at)]
    BY <2>1
  <2> HIDE DEF p
  <2>3. Good(p, 0)
    BY <2>1, <2>2
  <2> QED
    BY <2>3
<1>4. ASSUME NEW n \in Nat, n \in S
      PROVE  n + 1 \in S
  <2>1. PICK p : Good(p, n)
    BY <1>4
  <2> DEFINE q == [at \in Low(n + 1) |-> Calls(p, buffer, at)]
  <2>2. Low(n) \subseteq Low(n + 1)
    BY <1>2
  <2>3. \A at \in Low(n) : p[at] = Calls(p, buffer, at) /\ Ends(p[at], buffer, at[2])
    <3>1. p = [at \in Low(n) |-> Calls(p, buffer, at)]
      BY <2>1
    <3> HIDE DEF Low
    <3>2. \A at \in Low(n) : p[at] = Calls(p, buffer, at)
      BY <3>1, Zenon
    <3> QED
      BY <2>1, <3>2
  <2>4. \A at \in Low(n) : q[at] = p[at]
    <3> HIDE DEF Low
    <3> QED
      BY <2>2, <2>3, Zenon
  <2>5. ASSUME NEW at \in Low(n + 1)
        PROVE  /\ Calls(p, buffer, at) = Calls(q, buffer, at)
               /\ Ends(Calls(p, buffer, at), buffer, at[2])
    <3>1. at \in Sites(buffer)
      OBVIOUS
    <3>2. ASSUME NEW b \in Sites(buffer), RankOf(buffer, b) < RankOf(buffer, at)
          PROVE  p[b] = q[b] /\ Ends(p[b], buffer, b[2])
      <4>1. b \in Low(n)
        BY <1>2, <3>2
      <4> HIDE DEF Low, q
      <4> QED
        BY <2>3, <2>4, <4>1
    <3> HIDE DEF Low, q
    <3> QED
      BY <3>1, <3>2, CallsDepend
  <2>6. q = [at \in Low(n + 1) |-> Calls(q, buffer, at)]
    <3> HIDE DEF Low
    <3> QED
      BY <2>5, Zenon
  <2>7. \A at \in Low(n + 1) : Ends(q[at], buffer, at[2])
    <3> HIDE DEF Low
    <3>1. \A at \in Low(n + 1) : q[at] = Calls(p, buffer, at)
      OBVIOUS
    <3> QED
      BY <2>5, <3>1, Zenon
  <2> HIDE DEF q
  <2>8. Good(q, n + 1)
    BY <2>6, <2>7
  <2> HIDE DEF Good
  <2> QED
    BY <2>8
<1>5. Nat \subseteq S
  <2> HIDE DEF S
  <2> QED
    BY <1>3, <1>4, SetInduction
<1>6. 2 * Len(buffer) + 2 \in S
  <2> HIDE DEF S
  <2>1. 2 * Len(buffer) + 2 \in Nat
    BY <1>1
  <2> QED
    BY <1>5, <2>1
<1>7. Low(2 * Len(buffer) + 2) = Sites(buffer)
  BY <1>1, <1>2
<1>8. PICK p : p = [at \in Low(2 * Len(buffer) + 2) |-> Calls(p, buffer, at)]
  BY <1>6
<1> HIDE DEF Low
<1> QED
  BY <1>7, <1>8 DEF IsParser

Parser(buffer) == CHOOSE p : IsParser(p, buffer)

\* What the parsers return, by what they call.
LEMMA ParserCalls ==
  ASSUME NEW buffer \in Text, NEW i \in Places(buffer)
  PROVE  /\ parse_bencode(buffer, i) = Parser(buffer)[<<"node", i>>]
         /\ Parser(buffer)[<<"node", i>>] = parse_node(Parser(buffer), buffer, i)
         /\ Parser(buffer)[<<"list", i>>] = parse_list(Parser(buffer), buffer, i)
         /\ Parser(buffer)[<<"dict", i>>] = parse_dict(Parser(buffer), buffer, i)
<1> DEFINE p == Parser(buffer)
<1>1. parse_bencode(buffer, i) = p[<<"node", i>>]
  BY Zenon DEF parse_bencode, Parser, IsParser, Calls, Sites, Places
<1>2. IsParser(p, buffer)
  BY ParserExists DEF Parser
<1> HIDE DEF p
<1>3. \A at \in Sites(buffer) : p[at] = Calls(p, buffer, at)
  BY <1>2, Zenon DEF IsParser
<1>4. ASSUME NEW k \in {"node", "list", "dict"}
      PROVE  <<k, i>> \in Sites(buffer) /\ <<k, i>>[1] = k /\ <<k, i>>[2] = i
  BY DEF Sites
<1> QED
  BY <1>1, <1>3, <1>4 DEF Calls, p

-----------------------------------------------------------------------------
(* What is written, and what it is read as.                                *)

\* s is read as the node, wherever it is in a buffer; where the buffer ends within
\* s, the parser throws.
Encodes(s, node) ==
  /\ s \in Text /\ s # << >> /\ s[1] # "e"
  /\ \A buffer \in Text : \A i \in Places(buffer) :
       /\ At(buffer, i, s) =>
            Parser(buffer)[<<"node", i>>] = Parsed(node, i + Len(s))
       /\ Cut(buffer, i, s) => Parser(buffer)[<<"node", i>>] = Throws

\* The same of the elements that the loop of a list or a dictionary has left.
Remains(kind, s, value) ==
  /\ s \in Text /\ s # << >>
  /\ \A buffer \in Text : \A i \in Places(buffer) :
       /\ At(buffer, i, s) =>
            Parser(buffer)[<<kind, i>>] = Parsed(<<kind, value>>, i + Len(s))
       /\ Cut(buffer, i, s) => Parser(buffer)[<<kind, i>>] = Throws

-----------------------------------------------------------------------------
(* Lists and dictionaries.                                                 *)

\* A concatenation begins as its first part does.
LEMMA FirstOfConcat ==
  ASSUME NEW s \in Text, NEW t \in Text, s # << >>
  PROVE  /\ s \o t \in Text /\ s \o t # << >> /\ (s \o t)[1] = s[1]
         /\ Len(s \o t) = Len(s) + Len(t) /\ Len(s) \in Nat /\ Len(t) \in Nat
<1>1. /\ s \o t \in Seq(Byte) /\ Len(s) \in Nat /\ Len(s) > 0 /\ Len(t) \in Nat
      /\ Len(s \o t) = Len(s) + Len(t)
  BY ConcatProperties DEF Text
<1>2. 1 \in 1 .. Len(s) + Len(t) /\ 1 <= Len(s)
  BY <1>1
<1>3. (s \o t)[1] = s[1]
  BY <1>2, ConcatProperties DEF Text
<1> QED
  BY <1>1, <1>3 DEF Text

\* The first byte of what is at a place, as far as the buffer goes.
LEMMA FirstByte ==
  ASSUME NEW buffer \in Text, NEW i \in Places(buffer), NEW s \in Text, s # << >>
  PROVE  /\ At(buffer, i, s) => i <= Len(buffer) /\ buffer[i] = s[1]
         /\ Cut(buffer, i, s) => i = Len(buffer) + 1 \/ (i <= Len(buffer) /\ buffer[i] = s[1])
<1>1. Len(s) \in Nat /\ Len(s) > 0 /\ Len(buffer) \in Nat /\ i \in Nat /\ i + 1 - 1 = i
      /\ i <= Len(buffer) + 1
  BY DEF Text, Places
<1>2. ASSUME At(buffer, i, s)
      PROVE  i <= Len(buffer) /\ buffer[i] = s[1]
  <2>1. 1 \in 1 .. Len(s)
    BY <1>1
  <2>2. buffer[i + 1 - 1] = s[1]
    BY <1>2, <2>1 DEF At
  <2> QED
    BY <1>1, <1>2, <2>2 DEF At
<1>3. ASSUME Cut(buffer, i, s), i # Len(buffer) + 1
      PROVE  i <= Len(buffer) /\ buffer[i] = s[1]
  <2>1. 1 \in 1 .. Len(buffer) + 1 - i
    BY <1>1, <1>3
  <2>2. buffer[i + 1 - 1] = s[1]
    BY <1>3, <2>1 DEF Cut
  <2> QED
    BY <1>1, <1>3, <2>2
<1> QED
  BY <1>2, <1>3

\* Behind the end of the buffer every parser throws.
LEMMA NothingBehind ==
  ASSUME NEW buffer \in Text, NEW kind \in {"node", "list", "dict"}
  PROVE  Parser(buffer)[<<kind, Len(buffer) + 1>>] = Throws
<1>1. Len(buffer) \in Nat
  BY DEF Text
<1>2. Len(buffer) + 1 \in Places(buffer) /\ Len(buffer) + 1 > Len(buffer)
  BY <1>1 DEF Places
<1> QED
  BY <1>2, ParserCalls DEF parse_node, parse_list, parse_dict

\* A string begins with a figure.
LEMMA StringFirst ==
  ASSUME NEW s \in Text
  PROVE  String(s) # << >> /\ isdigit(String(s)[1])
<1> DEFINE D == Decimal(Len(s))
           N == D \o <<":">>
<1>1. /\ D \in Seq(Byte) /\ <<":">> \in Seq(Byte) /\ Len(D) > 0 /\ isdigit(D[1])
      /\ N \in Seq(Byte) /\ String(s) = N \o s /\ s \in Seq(Byte)
  <2>1. Numeral(D)
    BY StringParts
  <2>2. Len(D) > 0 /\ isdigit(D[1])
    BY <2>1 DEF Numeral, Text
  <2> QED
    BY <2>2, StringParts DEF Text
<1> HIDE DEF D
<1>2. D \in Text /\ D # << >> /\ <<":">> \in Text
  BY <1>1 DEF Text
<1>3. N \in Text /\ N # << >> /\ N[1] = D[1]
  BY <1>2, FirstOfConcat
<1> HIDE DEF N
<1>4. N \o s # << >> /\ (N \o s)[1] = N[1]
  BY <1>3, FirstOfConcat
<1> QED
  BY <1>1, <1>3, <1>4

\* A string is read as a node.
LEMMA StringEncodes ==
  ASSUME NEW s \in Text
  PROVE  Encodes(String(s), <<"string", s>>)
<1>1. String(s) \in Text /\ String(s) # << >> /\ isdigit(String(s)[1])
  BY StringParts, StringFirst
<1>2. String(s)[1] # "e"
  BY <1>1, FigureFacts
<1>3. ASSUME NEW buffer \in Text, NEW i \in Places(buffer)
      PROVE  /\ At(buffer, i, String(s)) =>
                  Parser(buffer)[<<"node", i>>] = Parsed(<<"string", s>>, i + Len(String(s)))
             /\ Cut(buffer, i, String(s)) => Parser(buffer)[<<"node", i>>] = Throws
  <2>1. ASSUME i <= Len(buffer), buffer[i] = String(s)[1]
        PROVE  Parser(buffer)[<<"node", i>>] = parse_string(buffer, i)
    <3>1. ~ (i > Len(buffer)) /\ isdigit(buffer[i])
      BY <1>1, <2>1 DEF Text, Places
    <3> QED
      BY <3>1, ParserCalls DEF parse_node
  <2> QED
    BY <1>1, <2>1, FirstByte, NothingBehind, ParseString
<1> QED
  BY <1>1, <1>2, <1>3 DEF Encodes

\* An integer is read as a node.
LEMMA IntegerEncodes ==
  ASSUME NEW n \in Nat
  PROVE  Encodes(Integer(n), <<"int", n>>)
<1>1. Integer(n) \in Text /\ Integer(n) # << >> /\ Integer(n)[1] = "i"
  <2> DEFINE D == Decimal(n)
             N == <<"i">> \o D
  <2>1. /\ <<"i">> \in Text /\ D \in Text /\ <<"e">> \in Text
        /\ <<"i">> # << >> /\ <<"i">>[1] = "i" /\ Integer(n) = N \o <<"e">>
    <3>1. Numeral(D)
      BY DecimalFacts
    <3> HIDE DEF D
    <3>2. D \in Text
      BY <3>1 DEF Numeral
    <3> QED
      BY <3>2, ByteAssumption, OneByte DEF Integer, D
  <2> HIDE DEF D
  <2>2. N \in Text /\ N # << >> /\ N[1] = "i"
    <3> DEFINE t == <<"i">>
    <3>1. t \in Text /\ t # << >> /\ t[1] = "i"
      BY <2>1
    <3> HIDE DEF t
    <3>2. t \o D \in Text /\ t \o D # << >> /\ (t \o D)[1] = "i"
      BY <2>1, <3>1, FirstOfConcat
    <3> QED
      BY <3>2 DEF t
  <2> HIDE DEF N
  <2> QED
    BY <2>1, <2>2, FirstOfConcat
<1>2. ~ isdigit("i")
  BY FigureFacts
<1>3. ASSUME NEW buffer \in Text, NEW i \in Places(buffer)
      PROVE  /\ At(buffer, i, Integer(n)) =>
                  Parser(buffer)[<<"node", i>>] = Parsed(<<"int", n>>, i + Len(Integer(n)))
             /\ Cut(buffer, i, Integer(n)) => Parser(buffer)[<<"node", i>>] = Throws
  <2>1. ASSUME i <= Len(buffer), buffer[i] = "i"
        PROVE  Parser(buffer)[<<"node", i>>] = parse_integer(buffer, i)
    <3>1. ~ (i > Len(buffer))
      BY <2>1 DEF Text, Places
    <3> QED
      BY <1>2, <2>1, <3>1, ParserCalls DEF parse_node
  <2> QED
    BY <1>1, <2>1, FirstByte, NothingBehind, ParseInteger
<1> QED
  BY <1>1, <1>3 DEF Encodes

\* A list and a dictionary, from what is behind their first byte.
LEMMA CollectionEncodes ==
  ASSUME NEW kind \in {"list", "dict"}, NEW s, NEW v, Remains(kind, s, v),
         NEW c, c = IF kind = "list" THEN "l" ELSE "d"
  PROVE  Encodes(<<c>> \o s, <<kind, v>>)
<1> DEFINE t == <<c>>
<1>1. /\ t \in Text /\ Len(t) = 1 /\ t[1] = c /\ s \in Text
      /\ c \in Byte /\ c # "e" /\ ~ isdigit(c) /\ c # "i"
  BY ByteAssumption, OneByte, FigureFacts DEF Remains
<1>2. t \o s \in Text /\ t \o s # << >> /\ (t \o s)[1] = c
  <2>1. t # << >>
    OBVIOUS
  <2> HIDE DEF t
  <2> QED
    BY <1>1, <2>1, FirstOfConcat
<1>3. ASSUME NEW buffer \in Text, NEW i \in Places(buffer)
      PROVE  /\ At(buffer, i, t \o s) =>
                  Parser(buffer)[<<"node", i>>] = Parsed(<<kind, v>>, i + Len(t \o s))
             /\ Cut(buffer, i, t \o s) => Parser(buffer)[<<"node", i>>] = Throws
  <2>1. ASSUME i <= Len(buffer), buffer[i] = c
        PROVE  Parser(buffer)[<<"node", i>>] = Parser(buffer)[<<kind, i + 1>>]
    <3>1. ~ (i > Len(buffer))
      BY <2>1 DEF Text, Places
    <3>2. Parser(buffer)[<<"node", i>>] = parse_node(Parser(buffer), buffer, i)
      BY ParserCalls
    <3> QED
      BY <1>1, <2>1, <3>1, <3>2 DEF parse_node
  <2>2. ASSUME At(buffer, i, t \o s)
        PROVE  Parser(buffer)[<<"node", i>>] = Parsed(<<kind, v>>, i + Len(t \o s))
    <3>1. /\ At(buffer, i + 1, s) /\ i + 1 \in Places(buffer)
          /\ i + Len(t \o s) = i + 1 + Len(s)
      <4> HIDE DEF t
      <4>1. /\ At(buffer, i + Len(t), s) /\ i + Len(t) \in Places(buffer)
            /\ i + Len(t \o s) = i + Len(t) + Len(s)
        BY <1>1, <2>2, AtConcat
      <4> QED
        BY <1>1, <4>1
    <3>2. Parser(buffer)[<<"node", i>>] = Parser(buffer)[<<kind, i + 1>>]
      BY <1>2, <2>1, <2>2, FirstByte
    <3>3. Parser(buffer)[<<kind, i + 1>>] = Parsed(<<kind, v>>, i + 1 + Len(s))
      BY <3>1 DEF Remains
    <3> HIDE DEF t
    <3> QED
      BY <3>1, <3>2, <3>3
  <2>3. ASSUME Cut(buffer, i, t \o s)
        PROVE  Parser(buffer)[<<"node", i>>] = Throws
    <3>1. CASE i = Len(buffer) + 1
      BY <3>1, NothingBehind
    <3>2. CASE i # Len(buffer) + 1
      <4>1. i <= Len(buffer) /\ buffer[i] = c
        BY <1>2, <2>3, <3>2, FirstByte
      <4>2. ~ Cut(buffer, i, t)
        BY <3>2, AtByte
      <4>3. Cut(buffer, i + 1, s) /\ i + 1 \in Places(buffer)
        <5> HIDE DEF t
        <5> QED
          BY <1>1, <2>3, <4>2, CutConcat
      <4>4. Parser(buffer)[<<kind, i + 1>>] = Throws
        BY <4>3 DEF Remains
      <4> QED
        BY <2>1, <4>1, <4>4
    <3> QED
      BY <3>1, <3>2
  <2> QED
    BY <2>2, <2>3
<1> QED
  BY <1>1, <1>2, <1>3 DEF Encodes

\* The end of a list or a dictionary.
LEMMA EndRemains ==
  Remains("list", <<"e">>, << >>) /\ Remains("dict", <<"e">>, EmptyDict)
<1>1. <<"e">> \in Text /\ Len(<<"e">>) = 1 /\ <<"e">> # << >>
  BY ByteAssumption, OneByte
<1>2. ASSUME NEW buffer \in Text, NEW i \in Places(buffer), At(buffer, i, <<"e">>)
      PROVE  /\ Parser(buffer)[<<"list", i>>] = Parsed(<<"list", << >> >>, i + Len(<<"e">>))
             /\ Parser(buffer)[<<"dict", i>>] = Parsed(<<"dict", EmptyDict>>, i + Len(<<"e">>))
  <2>1. i <= Len(buffer) /\ buffer[i] = "e"
    BY <1>2, AtByte
  <2>2. ~ (i > Len(buffer))
    BY <2>1 DEF Text, Places
  <2> QED
    BY <1>1, <2>1, <2>2, ParserCalls DEF parse_list, parse_dict
<1>3. ASSUME NEW buffer \in Text, NEW i \in Places(buffer), Cut(buffer, i, <<"e">>)
      PROVE  Parser(buffer)[<<"list", i>>] = Throws /\ Parser(buffer)[<<"dict", i>>] = Throws
  BY <1>3, AtByte, NothingBehind
<1> QED
  BY <1>1, <1>2, <1>3 DEF Remains

\* One element more in front of a list.
LEMMA ListItem ==
  ASSUME NEW s, NEW n, Encodes(s, n), NEW t, NEW ns, Remains("list", t, ns)
  PROVE  Remains("list", s \o t, <<n>> \o ns)
<1>1. s \in Text /\ s # << >> /\ s[1] # "e" /\ t \in Text
  BY DEF Encodes, Remains
<1>2. s \o t \in Text /\ s \o t # << >> /\ (s \o t)[1] = s[1]
  BY <1>1, FirstOfConcat
<1>3. ASSUME NEW buffer \in Text, NEW i \in Places(buffer)
      PROVE  /\ At(buffer, i, s \o t) => Parser(buffer)[<<"list", i>>] =
                  Parsed(<<"list", <<n>> \o ns>>, i + Len(s \o t))
             /\ Cut(buffer, i, s \o t) => Parser(buffer)[<<"list", i>>] = Throws
  <2> DEFINE p == Parser(buffer)
             j == i + Len(s)
  <2>0. p[<<"list", i>>] = parse_list(p, buffer, i)
    BY ParserCalls
  <2>1. ASSUME i <= Len(buffer), buffer[i] = s[1]
        PROVE  ~ (i > Len(buffer)) /\ buffer[i] # "e"
    BY <1>1, <2>1 DEF Text, Places
  <2>2. ASSUME At(buffer, i, s \o t)
        PROVE  p[<<"list", i>>] = Parsed(<<"list", <<n>> \o ns>>, i + Len(s \o t))
    <3>1. /\ At(buffer, i, s) /\ At(buffer, j, t) /\ j \in Places(buffer)
          /\ i + Len(s \o t) = j + Len(t)
      BY <1>1, <2>2, AtConcat
    <3> HIDE DEF j
    <3>2. p[<<"node", i>>] = Parsed(n, j)
      BY <3>1 DEF Encodes, j
    <3>3. p[<<"list", j>>] = Parsed(<<"list", ns>>, j + Len(t))
      BY <3>1 DEF Remains
    <3>4. ~ (i > Len(buffer)) /\ buffer[i] # "e"
      BY <1>1, <1>2, <2>1, <2>2, FirstByte
    <3>5. j # 0 /\ j + Len(t) # 0
      BY <1>1, <3>1 DEF Places, Text
    <3>6. /\ p[<<"node", i>>].index = j /\ ~ Threw(p[<<"node", i>>])
          /\ p[<<"node", i>>].node = n
      BY <3>2, <3>5, ParsedFields DEF Threw
    <3>7. /\ p[<<"list", j>>].index = j + Len(t) /\ ~ Threw(p[<<"list", j>>])
          /\ p[<<"list", j>>].node[2] = ns
      BY <3>3, <3>5, ParsedFields DEF Threw
    <3> HIDE DEF p
    <3> QED
      BY <2>0, <3>1, <3>4, <3>6, <3>7 DEF parse_list
  <2>3. ASSUME Cut(buffer, i, s \o t)
        PROVE  p[<<"list", i>>] = Throws
    <3>1. CASE i = Len(buffer) + 1
      BY <3>1, NothingBehind
    <3>2. CASE i # Len(buffer) + 1
      <4>1. ~ (i > Len(buffer)) /\ buffer[i] # "e"
        BY <1>1, <1>2, <2>1, <2>3, <3>2, FirstByte
      <4>2. CASE Cut(buffer, i, s)
        <5>1. p[<<"node", i>>] = Throws
          BY <4>2 DEF Encodes
        <5> HIDE DEF p
        <5> QED
          BY <2>0, <4>1, <5>1, ThrowsIsNone DEF parse_list
      <4>3. CASE At(buffer, i, s) /\ Cut(buffer, j, t) /\ j \in Places(buffer)
        <5>1. p[<<"node", i>>] = Parsed(n, j)
          BY <4>3 DEF Encodes
        <5>2. p[<<"list", j>>] = Throws
          BY <4>3 DEF Remains
        <5>3. p[<<"node", i>>].index = j
          BY <5>1, ParsedFields
        <5> HIDE DEF p, j
        <5> QED
          BY <2>0, <4>1, <5>2, <5>3, ThrowsIsNone DEF parse_list
      <4> QED
        BY <1>1, <2>3, <4>2, <4>3, CutConcat
    <3> QED
      BY <3>1, <3>2
  <2> QED
    BY <2>2, <2>3
<1> QED
  BY <1>2, <1>3 DEF Remains

\* One entry more in front of a dictionary.
LEMMA DictItem ==
  ASSUME NEW k \in Text, NEW s, NEW n, Encodes(s, n), NEW t, NEW d, Remains("dict", t, d)
  PROVE  Remains("dict", (String(k) \o s) \o t, WithEntry(d, k, n))
<1> DEFINE K == String(k)
           M == K \o s
           e == WithEntry(d, k, n)
<1>1. /\ s \in Text /\ t \in Text /\ K \in Text /\ K # << >> /\ isdigit(K[1])
  BY StringParts, StringFirst DEF Encodes, Remains
<1> HIDE DEF K
<1>2. M \in Text /\ M # << >> /\ M[1] = K[1]
  BY <1>1, FirstOfConcat
<1> HIDE DEF M
<1>3. M \o t \in Text /\ M \o t # << >> /\ (M \o t)[1] = K[1] /\ K[1] # "e"
  BY <1>1, <1>2, FirstOfConcat, FigureFacts
<1> HIDE DEF e
<1>4. ASSUME NEW buffer \in Text, NEW i \in Places(buffer)
      PROVE  /\ At(buffer, i, M \o t) => Parser(buffer)[<<"dict", i>>] =
                  Parsed(<<"dict", e>>, i + Len(M \o t))
             /\ Cut(buffer, i, M \o t) => Parser(buffer)[<<"dict", i>>] = Throws
  <2> DEFINE p == Parser(buffer)
             j == i + Len(K)
             l == i + Len(M)
             key == parse_string(buffer, i)
  <2>0. p[<<"dict", i>>] = parse_dict(p, buffer, i)
    BY ParserCalls
  <2>1. ASSUME i <= Len(buffer), buffer[i] = K[1]
        PROVE  ~ (i > Len(buffer)) /\ buffer[i] # "e" /\ isdigit(buffer[i])
    BY <1>1, <1>3, <2>1 DEF Text, Places
  <2>2. ASSUME At(buffer, i, K)
        PROVE  key.index = j /\ key.node[2] = k
    <3>1. key = Parsed(<<"string", k>>, j)
      BY <2>2, ParseString DEF K
    <3> HIDE DEF key, j
    <3> QED
      BY <3>1, ParsedFields
  <2>3. ASSUME At(buffer, i, M)
        PROVE  /\ At(buffer, i, K) /\ j # 0 /\ l # 0
               /\ p[<<"node", j>>].index = l /\ p[<<"node", j>>].node = n
    <3>1. /\ At(buffer, i, K) /\ At(buffer, j, s) /\ j \in Places(buffer)
          /\ i + Len(K \o s) = j + Len(s)
      BY <1>1, <2>3, AtConcat DEF M
    <3>2. p[<<"node", j>>] = Parsed(n, j + Len(s))
      BY <3>1 DEF Encodes
    <3>3. j # 0 /\ l = j + Len(s) /\ l # 0
      BY <1>1, <3>1 DEF Places, Text, M
    <3> HIDE DEF p, j, l
    <3> QED
      BY <3>1, <3>2, <3>3, ParsedFields
  <2>4. ASSUME At(buffer, i, M \o t)
        PROVE  p[<<"dict", i>>] = Parsed(<<"dict", e>>, i + Len(M \o t))
    <3>1. /\ At(buffer, i, M) /\ At(buffer, l, t) /\ l \in Places(buffer)
          /\ i + Len(M \o t) = l + Len(t)
      BY <1>1, <1>2, <2>4, AtConcat
    <3>2. /\ key.index = j /\ key.node[2] = k /\ j # 0 /\ l # 0
          /\ p[<<"node", j>>].index = l /\ p[<<"node", j>>].node = n
      BY <2>2, <2>3, <3>1
    <3>3. p[<<"dict", l>>] = Parsed(<<"dict", d>>, l + Len(t))
      BY <3>1 DEF Remains
    <3>4. l + Len(t) # 0
      BY <1>1, <3>1 DEF Places, Text
    <3>5. p[<<"dict", l>>].index = l + Len(t) /\ p[<<"dict", l>>].node[2] = d
      BY <3>3, ParsedFields
    <3>6. ~ (i > Len(buffer)) /\ buffer[i] # "e" /\ isdigit(buffer[i])
      BY <1>3, <2>1, <2>4, FirstByte
    <3> HIDE DEF p, key, j, l
    <3>7. ~ Threw(key) /\ ~ Threw(p[<<"node", j>>]) /\ ~ Threw(p[<<"dict", l>>])
      BY <3>2, <3>4, <3>5 DEF Threw
    <3>8. parse_dict(p, buffer, i) = Parsed(<<"dict", WithEntry(d, k, n)>>, l + Len(t))
      BY <3>2, <3>5, <3>6, <3>7 DEF parse_dict, key
    <3> QED
      BY <2>0, <3>1, <3>8 DEF e
  <2>5. ASSUME Cut(buffer, i, M \o t)
        PROVE  p[<<"dict", i>>] = Throws
    <3>1. CASE i = Len(buffer) + 1
      BY <3>1, NothingBehind
    <3>2. CASE i # Len(buffer) + 1
      <4>1. ~ (i > Len(buffer)) /\ buffer[i] # "e" /\ isdigit(buffer[i])
        BY <1>3, <2>1, <2>5, <3>2, FirstByte
      <4>2. CASE Cut(buffer, i, K)
        <5>1. key = Throws
          BY <4>2, ParseString DEF K
        <5> HIDE DEF p
        <5> QED
          BY <2>0, <4>1, <5>1, ThrowsIsNone DEF parse_dict
      <4>3. CASE At(buffer, i, K) /\ Cut(buffer, j, s) /\ j \in Places(buffer)
        <5>1. key.index = j
          BY <2>2, <4>3
        <5>2. p[<<"node", j>>] = Throws
          BY <4>3 DEF Encodes
        <5> HIDE DEF p, j, key
        <5> QED
          BY <2>0, <4>1, <5>1, <5>2, ThrowsIsNone DEF parse_dict, key
      <4>4. CASE At(buffer, i, M) /\ Cut(buffer, l, t) /\ l \in Places(buffer)
        <5>1. /\ key.index = j /\ p[<<"node", j>>].index = l
          BY <2>2, <2>3, <4>4
        <5>2. p[<<"dict", l>>] = Throws
          BY <4>4 DEF Remains
        <5> HIDE DEF p, j, key, l
        <5> QED
          BY <2>0, <4>1, <5>1, <5>2, ThrowsIsNone DEF parse_dict, key
      <4>5. CASE Cut(buffer, i, M)
        BY <1>1, <4>2, <4>3, <4>5, CutConcat DEF M
      <4> QED
        BY <1>1, <1>2, <2>5, <4>4, <4>5, CutConcat
    <3> QED
      BY <3>1, <3>2
  <2> QED
    BY <2>4, <2>5
<1>5. Remains("dict", M \o t, e)
  BY <1>3, <1>4 DEF Remains
<1> QED
  BY <1>5 DEF M, K, e

\* An entry that may be left out.
LEMMA DictEntry ==
  ASSUME NEW k \in Byte, NEW without, NEW s, NEW n, Encodes(s, n),
         NEW t, NEW d, Remains("dict", t, d)
  PROVE  Remains("dict", Entry(without, k, s) \o t,
                 IF k = without THEN d ELSE WithEntry(d, <<k>>, n))
         /\ Entry(without, k, s) \in Text
<1>1. t \in Text /\ s \in Text
  BY DEF Remains, Encodes
<1>2. CASE k = without
  <2>1. Entry(without, k, s) = << >>
    BY <1>2 DEF Entry
  <2>2. << >> \o t = t
    BY <1>1, ConcatEmptySeq DEF Text
  <2> QED
    BY <1>2, <2>1, <2>2 DEF Text
<1>3. CASE k # without
  <2>1. Entry(without, k, s) = String(<<k>>) \o s
    BY <1>3 DEF Entry
  <2>2. <<k>> \in Text
    BY OneByte
  <2>3. Remains("dict", (String(<<k>>) \o s) \o t, WithEntry(d, <<k>>, n))
    BY <2>2, DictItem
  <2>4. String(<<k>>) \o s \in Text
    BY <1>1, <2>2, StringParts, ConcatProperties DEF Text
  <2> QED
    BY <1>3, <2>1, <2>3, <2>4
<1> QED
  BY <1>2, <1>3

-----------------------------------------------------------------------------
(* Sequences of sequences.                                                 *)

\* f[i] is the concatenation of the first i of the sequences.
Flattens(f, l) ==
  f[0] = << >> /\ \A i \in 1 .. Len(l) : f[i] = f[i - 1] \o l[i]

\* The recursive function of FlattenSeq exists.
LEMMA FlattenExists ==
  ASSUME NEW l, Len(l) \in Nat, NEW n \in Nat
  PROVE  \E f : f = [i \in 1 .. n |-> IF i = 1 THEN l[i] ELSE f[i - 1] \o l[i]]
<1> DEFINE S == {k \in Nat : \E f :
                   f = [i \in 1 .. k |-> IF i = 1 THEN l[i] ELSE f[i - 1] \o l[i]]}
<1>1. 0 \in S
  <2> DEFINE f == [i \in 1 .. 0 |-> << >>]
  <2>1. f = [i \in 1 .. 0 |-> IF i = 1 THEN l[i] ELSE f[i - 1] \o l[i]]
    OBVIOUS
  <2> HIDE DEF f
  <2> QED
    BY <2>1
<1>2. ASSUME NEW k \in Nat, k \in S
      PROVE  k + 1 \in S
  <2>1. PICK f : f = [i \in 1 .. k |-> IF i = 1 THEN l[i] ELSE f[i - 1] \o l[i]]
    BY <1>2
  <2> DEFINE g == [i \in 1 .. k + 1 |-> IF i = 1 THEN l[i] ELSE f[i - 1] \o l[i]]
  <2>2. \A i \in 1 .. k : g[i] = f[i]
    <3>1. \A i \in 1 .. k : f[i] = IF i = 1 THEN l[i] ELSE f[i - 1] \o l[i]
      BY <2>1, Zenon
    <3>2. \A i \in 1 .. k : i \in 1 .. k + 1
      OBVIOUS
    <3>3. \A i \in 1 .. k + 1 : g[i] = IF i = 1 THEN l[i] ELSE f[i - 1] \o l[i]
      BY Zenon
    <3> HIDE DEF g
    <3> QED
      BY <3>1, <3>2, <3>3, Zenon
  <2>3. g = [i \in 1 .. k + 1 |-> IF i = 1 THEN l[i] ELSE g[i - 1] \o l[i]]
    <3>1. ASSUME NEW i \in 1 .. k + 1, i # 1
          PROVE  g[i - 1] = f[i - 1]
      <4>1. i - 1 \in 1 .. k
        BY <3>1
      <4> HIDE DEF g
      <4> QED
        BY <4>1, <2>2
    <3> QED
      BY <3>1
  <2> HIDE DEF g
  <2>4. k + 1 \in Nat
    OBVIOUS
  <2> QED
    BY <2>3, <2>4, Zenon
<1>3. Nat \subseteq S
  <2> HIDE DEF S
  <2> QED
    BY <1>1, <1>2, SetInduction
<1> QED
  BY <1>3

\* FlattenSeq is reached one sequence after the other.
LEMMA FlattenFacts ==
  ASSUME NEW S, NEW l \in Seq(Seq(S))
  PROVE  \E f : /\ Flattens(f, l) /\ FlattenSeq(l) = f[Len(l)]
                /\ \A i \in 0 .. Len(l) : f[i] \in Seq(S)
<1> DEFINE F == CHOOSE f : f = [i \in 1 .. Len(l) |->
                                  IF i = 1 THEN l[i] ELSE f[i - 1] \o l[i]]
           g == [i \in 0 .. Len(l) |-> IF i = 0 THEN << >> ELSE F[i]]
<1>1. Len(l) \in Nat /\ \A i \in 1 .. Len(l) : l[i] \in Seq(S)
  OBVIOUS
<1>2. F = [i \in 1 .. Len(l) |-> IF i = 1 THEN l[i] ELSE F[i - 1] \o l[i]]
  BY <1>1, FlattenExists
<1>3. FlattenSeq(l) = IF Len(l) = 0 THEN l ELSE F[Len(l)]
  BY Zenon DEF FlattenSeq
<1> HIDE DEF F
<1>4. \A i \in 1 .. Len(l) : F[i] = IF i = 1 THEN l[i] ELSE F[i - 1] \o l[i]
  BY <1>2, Zenon
<1>5. g[0] = << >> /\ \A i \in 1 .. Len(l) : g[i] = F[i]
  BY <1>1
<1> HIDE DEF g
<1>6. \A i \in 1 .. Len(l) : g[i] = g[i - 1] \o l[i]
  <2> SUFFICES ASSUME NEW i \in 1 .. Len(l)
               PROVE  g[i] = g[i - 1] \o l[i]
    OBVIOUS
  <2>1. CASE i = 1
    <3>1. g[1] = l[1] /\ g[1 - 1] = << >> /\ l[1] \in Seq(S)
      BY <1>1, <1>4, <1>5, <2>1
    <3>2. << >> \o l[1] = l[1]
      BY <3>1, ConcatEmptySeq
    <3> QED
      BY <2>1, <3>1, <3>2
  <2>2. CASE i # 1
    <3>1. i - 1 \in 1 .. Len(l)
      BY <1>1, <2>2
    <3>2. F[i] = F[i - 1] \o l[i]
      BY <1>4, <2>2
    <3> QED
      BY <1>5, <3>1, <3>2
  <2> QED
    BY <2>1, <2>2
<1>7. FlattenSeq(l) = g[Len(l)]
  <2>1. CASE Len(l) = 0
    <3>1. l = << >> /\ FlattenSeq(l) = l
      BY <1>3, <2>1
    <3>2. g[Len(l)] = << >>
      BY <1>5, <2>1
    <3> QED
      BY <3>1, <3>2
  <2>2. CASE Len(l) # 0
    <3>1. Len(l) \in 1 .. Len(l)
      BY <1>1, <2>2
    <3>2. g[Len(l)] = F[Len(l)]
      BY <1>5, <3>1
    <3>3. FlattenSeq(l) = F[Len(l)]
      BY <1>3, <2>2, Zenon
    <3> QED
      BY <3>2, <3>3
  <2> QED
    BY <2>1, <2>2
<1>8. \A i \in 0 .. Len(l) : g[i] \in Seq(S)
  <2> DEFINE T == {k \in Nat : k <= Len(l) => g[k] \in Seq(S)}
  <2>1. 0 \in T
    BY <1>5, EmptySeq
  <2>2. ASSUME NEW k \in Nat, k \in T
        PROVE  k + 1 \in T
    <3>1. SUFFICES ASSUME k + 1 <= Len(l)
                   PROVE  g[k + 1] \in Seq(S)
      OBVIOUS
    <3>2. k + 1 \in 1 .. Len(l) /\ (k + 1) - 1 = k /\ g[k] \in Seq(S)
      BY <1>1, <2>2, <3>1
    <3>3. g[k + 1] = g[(k + 1) - 1] \o l[k + 1]
      BY <1>6, <3>2, Zenon
    <3>4. l[k + 1] \in Seq(S)
      BY <1>1, <3>2
    <3>5. g[k + 1] = g[k] \o l[k + 1]
      BY <3>2, <3>3, Zenon
    <3> QED
      BY <3>2, <3>4, <3>5, ConcatProperties
  <2>3. Nat \subseteq T
    <3> HIDE DEF T
    <3> QED
      BY <2>1, <2>2, SetInduction
  <2> QED
    BY <1>1, <2>3
<1> QED
  BY <1>5, <1>6, <1>7, <1>8 DEF Flattens

\* A list is read as the nodes of its elements.
LEMMA ListEncodes ==
  ASSUME NEW N, NEW l \in Seq(Text), NEW ns \in Seq(N), Len(l) = Len(ns),
         \A i \in 1 .. Len(l) : Encodes(l[i], ns[i])
  PROVE  Encodes(List(l), <<"list", ns>>)
<1>1. PICK f : /\ Flattens(f, l) /\ FlattenSeq(l) = f[Len(l)]
               /\ \A i \in 0 .. Len(l) : f[i] \in Seq(Byte)
  BY FlattenFacts DEF Text
<1>2. Len(l) \in Nat /\ Len(ns) \in Nat
  OBVIOUS
<1>3. \A a, b, c \in Seq(Byte) : (a \o b) \o c = a \o (b \o c)
  BY ConcatAssociative, SMTT(30)
<1>4. \A a, b, c \in Seq(N) : (a \o b) \o c = a \o (b \o c)
  BY ConcatAssociative, SMTT(30)
<1> DEFINE Begun(k) == \A t : \A ms \in Seq(N) : Remains("list", t, ms) =>
                         Remains("list", f[k] \o t, SubSeq(ns, 1, k) \o ms)
           S == {k \in Nat : k <= Len(l) => Begun(k)}
<1>5. 0 \in S
  <2>1. f[0] = << >> /\ SubSeq(ns, 1, 0) = << >>
    BY <1>1, SubSeqEmpty DEF Flattens
  <2>2. ASSUME NEW t, NEW ms \in Seq(N), Remains("list", t, ms)
        PROVE  Remains("list", f[0] \o t, SubSeq(ns, 1, 0) \o ms)
    <3>1. t \in Seq(Byte)
      BY <2>2 DEF Remains, Text
    <3>2. << >> \o t = t /\ << >> \o ms = ms
      BY <3>1, ConcatEmptySeq
    <3> QED
      BY <2>1, <2>2, <3>2
  <2>3. Begun(0)
    BY <2>2
  <2> QED
    BY <2>3
<1>6. ASSUME NEW k \in Nat, k \in S
      PROVE  k + 1 \in S
  <2>1. SUFFICES ASSUME k + 1 <= Len(l)
                 PROVE  Begun(k + 1)
    OBVIOUS
  <2>2. /\ k + 1 \in 1 .. Len(l) /\ (k + 1) - 1 = k /\ k \in 0 .. Len(l) /\ k <= Len(l)
        /\ 1 \in 1 .. Len(ns) /\ k + 1 \in 1 .. Len(ns) /\ k + 1 \in 1 .. Len(ns)
    BY <1>2, <2>1
  <2>3. f[k + 1] = f[k] \o l[k + 1]
    <3>1. f[k + 1] = f[(k + 1) - 1] \o l[k + 1]
      BY <1>1, <2>2, Zenon DEF Flattens
    <3> QED
      BY <2>2, <3>1, Zenon
  <2>4. /\ f[k] \in Seq(Byte) /\ l[k + 1] \in Seq(Byte) /\ ns[k + 1] \in N
        /\ Encodes(l[k + 1], ns[k + 1])
    BY <1>1, <2>2, ElementOfSeq DEF Text
  <2>5. SubSeq(ns, 1, k + 1) = SubSeq(ns, 1, k) \o <<ns[k + 1]>>
    <3>1. SubSeq(ns, 1, k + 1) = SubSeq(ns, 1, (k + 1) - 1) \o <<ns[k + 1]>>
      BY <2>2, SubSeqRecursiveSecond
    <3> QED
      BY <2>2, <3>1, Zenon
  <2>6. ASSUME NEW t, NEW ms \in Seq(N), Remains("list", t, ms)
        PROVE  Remains("list", f[k + 1] \o t, SubSeq(ns, 1, k + 1) \o ms)
    <3> DEFINE u == l[k + 1] \o t
               x == <<ns[k + 1]>> \o ms
    <3>1. t \in Seq(Byte)
      BY <2>6 DEF Remains, Text
    <3>2. Remains("list", u, x)
      BY <2>4, <2>6, ListItem
    <3>3. <<ns[k + 1]>> \in Seq(N)
      BY <2>4
    <3>4. x \in Seq(N)
      BY <3>3, ConcatProperties
    <3>5. SubSeq(ns, 1, k) \in Seq(N)
      <4>1. \A i \in 1 .. k : ns[i] \in N
        BY <1>2, <2>2, ElementOfSeq
      <4> QED
        BY <4>1, SubSeqProperties
    <3>6. f[k + 1] \o t = f[k] \o u
      <4>1. (f[k] \o l[k + 1]) \o t = f[k] \o (l[k + 1] \o t)
        BY <1>3, <2>4, <3>1, Zenon
      <4> QED
        BY <2>3, <4>1, Zenon
    <3>7. SubSeq(ns, 1, k + 1) \o ms = SubSeq(ns, 1, k) \o x
      <4>1. (SubSeq(ns, 1, k) \o <<ns[k + 1]>>) \o ms = SubSeq(ns, 1, k) \o (<<ns[k + 1]>> \o ms)
        BY <1>4, <2>6, <3>3, <3>5, Zenon
      <4> QED
        BY <2>5, <4>1, Zenon
    <3>8. Begun(k)
      BY <1>6, <2>2
    <3> HIDE DEF u, x
    <3>9. Remains("list", f[k] \o u, SubSeq(ns, 1, k) \o x)
      BY <3>2, <3>4, <3>8
    <3> QED
      BY <3>6, <3>7, <3>9
  <2> QED
    BY <2>6
<1>7. Nat \subseteq S
  <2> HIDE DEF S
  <2> QED
    BY <1>5, <1>6, SetInduction
<1>8. Begun(Len(l))
  BY <1>2, <1>7
<1> DEFINE e == <<"e">>
<1>9. Remains("list", e, << >>) /\ << >> \in Seq(N)
  BY EndRemains, EmptySeq
<1> HIDE DEF e, S
<1>10. Remains("list", f[Len(l)] \o e, SubSeq(ns, 1, Len(l)) \o << >>)
  BY <1>8, <1>9
<1>11. SubSeq(ns, 1, Len(l)) \o << >> = ns
  BY SubSeqFull, ConcatEmptySeq
<1>12. Remains("list", FlattenSeq(l) \o e, ns)
  BY <1>1, <1>10, <1>11
<1>13. Encodes(<<"l">> \o (FlattenSeq(l) \o e), <<"list", ns>>)
  BY <1>12, CollectionEncodes
<1>14. List(l) = <<"l">> \o (FlattenSeq(l) \o e)
  <2>1. /\ <<"l">> \in Seq(Byte) /\ e \in Seq(Byte) /\ FlattenSeq(l) \in Seq(Byte)
    BY <1>1, <1>2, ByteAssumption DEF e
  <2> QED
    BY <2>1, ConcatAssociative DEF List, e
<1> QED
  BY <1>13, <1>14

-----------------------------------------------------------------------------
(* The entries of a dictionary.                                            *)

\* The dictionary d with one entry more, unless the entry is the one left out.
With(without, d, k, node) == IF k = without THEN d ELSE WithEntry(d, <<k>>, node)

\* What the entry k of the dictionary d is, where the file does not lack it.
Holds(without, d, k, node) ==
  /\ <<k>> \in DOMAIN d <=> k # without
  /\ k # without => d[<<k>>] = node

\* What an entry adds, and what it leaves as it was.
LEMMA WithFacts ==
  ASSUME NEW without, NEW d, NEW k, NEW node
  PROVE  /\ <<k>> \notin DOMAIN d => Holds(without, With(without, d, k, node), k, node)
         /\ \A other : other # k =>
              (<<other>> \in DOMAIN With(without, d, k, node) <=> <<other>> \in DOMAIN d)
         /\ \A other, value : other # k /\ Holds(without, d, other, value) =>
              Holds(without, With(without, d, k, node), other, value)
<1> DEFINE g == With(without, d, k, node)
<1>1. \A other : other # k => <<other>> # <<k>>
  OBVIOUS
<1>2. CASE k = without
  <2>1. g = d
    BY <1>2 DEF With
  <2> HIDE DEF g
  <2>2. <<k>> \notin DOMAIN d => Holds(without, g, k, node)
    BY <1>2, <2>1 DEF Holds
  <2> QED
    BY <2>1, <2>2 DEF g
<1>3. CASE k # without
  <2>1. /\ DOMAIN g = DOMAIN d \cup {<<k>>}
        /\ \A x \in DOMAIN g : g[x] = IF x \in DOMAIN d THEN d[x] ELSE node
    BY <1>3 DEF With, WithEntry
  <2> HIDE DEF g
  <2>2. <<k>> \notin DOMAIN d => Holds(without, g, k, node)
    BY <1>3, <2>1 DEF Holds
  <2>3. \A other : other # k => (<<other>> \in DOMAIN g <=> <<other>> \in DOMAIN d)
    BY <1>1, <2>1
  <2>4. ASSUME NEW other, NEW value, other # k, Holds(without, d, other, value)
        PROVE  Holds(without, g, other, value)
    BY <1>1, <2>1, <2>4 DEF Holds
  <2> QED
    BY <2>2, <2>3, <2>4 DEF g
<1> QED
  BY <1>2, <1>3

\* DictEntry in terms of With.
LEMMA EntryRemains ==
  ASSUME NEW k \in Byte, NEW without, NEW s, NEW n, Encodes(s, n),
         NEW t, NEW d, Remains("dict", t, d)
  PROVE  Remains("dict", Entry(without, k, s) \o t, With(without, d, k, n))
         /\ Entry(without, k, s) \in Text
BY DictEntry DEF With

\* The elements of a path and of a tier.
LEMMA StringsEncode ==
  ASSUME NEW l \in Seq(Text)
  PROVE  Encodes(List([i \in DOMAIN l |-> String(l[i])]),
                 <<"list", [i \in DOMAIN l |-> <<"string", l[i]>>]>>)
<1> DEFINE s == [i \in DOMAIN l |-> String(l[i])]
           n == [i \in DOMAIN l |-> <<"string", l[i]>>]
           N == {n[i] : i \in DOMAIN l}
<1>1. DOMAIN l = 1 .. Len(l) /\ Len(l) \in Nat /\ \A i \in DOMAIN l : l[i] \in Text
  OBVIOUS
<1>2. s \in Seq(Text) /\ Len(s) = Len(l)
  <2>1. \A i \in DOMAIN l : String(l[i]) \in Text
    BY <1>1, StringParts
  <2> QED
    BY <1>1, <2>1
<1>3. n \in Seq(N) /\ Len(n) = Len(l)
  BY <1>1
<1>4. \A i \in 1 .. Len(s) : Encodes(s[i], n[i])
  <2>1. \A i \in DOMAIN l : s[i] = String(l[i]) /\ n[i] = <<"string", l[i]>>
    OBVIOUS
  <2> HIDE DEF s, n
  <2> QED
    BY <1>1, <1>2, <2>1, StringEncodes
<1> HIDE DEF s, n, N
<1>5. Encodes(List(s), <<"list", n>>)
  BY <1>2, <1>3, <1>4, ListEncodes
<1> QED
  BY <1>5 DEF s, n

\* Concatenation by a name of its own, so that the provers regroup without looking
\* at the sequences.
Join(a, b) == a \o b

\* Join keeps to texts and is associative.
LEMMA JoinFacts ==
  /\ \A a, b \in Text : Join(a, b) \in Text
  /\ \A a, b, c \in Text : Join(Join(a, b), c) = Join(a, Join(b, c))
<1>1. \A a, b \in Text : Join(a, b) \in Text
  BY ConcatProperties DEF Text, Join
<1>2. \A a, b, c \in Text : Join(Join(a, b), c) = Join(a, Join(b, c))
  BY ConcatAssociative DEF Text, Join
<1> QED
  BY <1>1, <1>2

\* The pieces of FileBytes, then those of Bytes and of InfoBytes, as the parser comes
\* by them.
LEMMA Regroup4 ==
  ASSUME NEW a \in Text, NEW b \in Text, NEW c \in Text, NEW d \in Text
  PROVE  Join(Join(Join(a, b), c), d) = Join(a, Join(b, Join(c, d)))
<1>1. Join(a, b) \in Text /\ Join(c, d) \in Text
  BY JoinFacts
<1>2. Join(Join(Join(a, b), c), d) = Join(Join(a, b), Join(c, d))
  BY <1>1, JoinFacts
<1> QED
  BY <1>1, <1>2, JoinFacts

\* The same of more of them.
LEMMA Regroup5 ==
  ASSUME NEW a \in Text, NEW b \in Text, NEW c \in Text, NEW d \in Text, NEW e \in Text
  PROVE  Join(Join(Join(Join(a, b), c), d), e) = Join(a, Join(b, Join(c, Join(d, e))))
<1>1. Join(a, b) \in Text /\ Join(c, Join(d, e)) \in Text
  BY JoinFacts
<1>2. Join(Join(Join(Join(a, b), c), d), e) = Join(Join(a, b), Join(c, Join(d, e)))
  BY <1>1, Regroup4
<1> QED
  BY <1>1, <1>2, JoinFacts

\* The same of more of them.
LEMMA Regroup6 ==
  ASSUME NEW a \in Text, NEW b \in Text, NEW c \in Text, NEW d \in Text,
         NEW e \in Text, NEW f \in Text
  PROVE  Join(Join(a, Join(b, Join(Join(c, d), e))), f) =
           Join(a, Join(b, Join(c, Join(d, Join(e, f)))))
<1> DEFINE o == Join(Join(c, d), e)
<1>1. o \in Text /\ Join(b, o) \in Text
  BY JoinFacts
<1>2. Join(o, f) = Join(c, Join(d, Join(e, f)))
  BY Regroup4
<1> HIDE DEF o
<1>3. Join(Join(a, Join(b, o)), f) = Join(a, Join(b, Join(o, f)))
  BY <1>1, JoinFacts
<1> QED
  BY <1>2, <1>3 DEF o

\* The same of more of them.
LEMMA Regroup6Swapped ==
  ASSUME NEW a \in Text, NEW b \in Text, NEW c \in Text, NEW d \in Text,
         NEW e \in Text, NEW f \in Text
  PROVE  Join(Join(a, Join(Join(Join(c, d), e), b)), f) =
           Join(a, Join(c, Join(d, Join(e, Join(b, f)))))
<1> DEFINE o == Join(Join(c, d), e)
<1>1. o \in Text /\ Join(b, f) \in Text
  BY JoinFacts
<1>2. Join(o, Join(b, f)) = Join(c, Join(d, Join(e, Join(b, f))))
  BY <1>1, Regroup4
<1> HIDE DEF o
<1>3. Join(Join(a, Join(o, b)), f) = Join(a, Join(o, Join(b, f)))
  BY <1>1, JoinFacts
<1> QED
  BY <1>2, <1>3 DEF o

\* The bytes around a dictionary.
LEMMA Letters == <<"d">> \in Text /\ <<"e">> \in Text
BY ByteAssumption, OneByte

-----------------------------------------------------------------------------
(* The nodes of a torrent.                                                 *)

\* A file of a torrent that is a folder, and the list of them.
PathNode(path) == <<"list", [i \in DOMAIN path |-> <<"string", <<path[i]>>>>]>>

FileDict(f) ==
  With("", With("", EmptyDict, "path", PathNode(f.path)), "length", <<"int", f.length>>)

FileNodes(files) == [i \in DOMAIN files |-> <<"dict", FileDict(files[i])>>]

\* A file of a torrent, as TorrentAssumption has it.
File == [path : Seq(Byte), length : Nat]

\* The path of a file is read as a list of strings.
LEMMA PathEncodes ==
  ASSUME NEW path \in Seq(Byte)
  PROVE  Encodes(List([i \in DOMAIN path |-> String(<<path[i]>>)]), PathNode(path))
<1> DEFINE l == [i \in DOMAIN path |-> <<path[i]>>]
<1>1. DOMAIN path = 1 .. Len(path) /\ \A i \in DOMAIN path : <<path[i]>> \in Text
  BY OneByte
<1>2. l \in Seq(Text) /\ DOMAIN l = DOMAIN path /\ \A i \in DOMAIN path : l[i] = <<path[i]>>
  BY <1>1
<1> HIDE DEF l
<1>3. Encodes(List([i \in DOMAIN l |-> String(l[i])]),
              <<"list", [i \in DOMAIN l |-> <<"string", l[i]>>]>>)
  BY <1>2, StringsEncode
<1>4. /\ [i \in DOMAIN l |-> String(l[i])] = [i \in DOMAIN path |-> String(<<path[i]>>)]
      /\ [i \in DOMAIN l |-> <<"string", l[i]>>] =
           [i \in DOMAIN path |-> <<"string", <<path[i]>>>>]
  BY <1>2
<1> QED
  BY <1>3, <1>4 DEF PathNode

\* The fields the program looks up are there.
LEMMA FileDictFacts ==
  ASSUME NEW f
  PROVE  /\ <<"path">> \in DOMAIN FileDict(f) /\ FileDict(f)[<<"path">>] = PathNode(f.path)
         /\ <<"length">> \in DOMAIN FileDict(f)
         /\ FileDict(f)[<<"length">>] = <<"int", f.length>>
<1> DEFINE d == With("", EmptyDict, "path", PathNode(f.path))
           g == With("", d, "length", <<"int", f.length>>)
<1>1. \A k : <<k>> \notin DOMAIN EmptyDict
  BY DEF EmptyDict
<1>2. Holds("", d, "path", PathNode(f.path)) /\ <<"length">> \notin DOMAIN d
  BY <1>1, WithFacts
<1> HIDE DEF d
<1>3. Holds("", g, "length", <<"int", f.length>>) /\ Holds("", g, "path", PathNode(f.path))
  BY <1>2, WithFacts
<1> HIDE DEF g
<1>4. /\ <<"path">> \in DOMAIN g /\ g[<<"path">>] = PathNode(f.path)
      /\ <<"length">> \in DOMAIN g /\ g[<<"length">>] = <<"int", f.length>>
  BY <1>3 DEF Holds
<1> QED
  BY <1>4 DEF FileDict, d, g

\* A file is read as a dictionary.
LEMMA FileEncodes ==
  ASSUME NEW f \in File
  PROVE  Encodes(FileBytes(f), <<"dict", FileDict(f)>>)
<1> DEFINE e == <<"e">>
           D == <<"d">>
           P == Entry("", "path", List([i \in DOMAIN f.path |-> String(<<f.path[i]>>)]))
           L == Entry("", "length", Integer(f.length))
           d == With("", EmptyDict, "path", PathNode(f.path))
<1>1. f.path \in Seq(Byte) /\ f.length \in Nat
  BY DEF File
<1>2. /\ Encodes(List([i \in DOMAIN f.path |-> String(<<f.path[i]>>)]), PathNode(f.path))
      /\ Encodes(Integer(f.length), <<"int", f.length>>)
  BY <1>1, PathEncodes, IntegerEncodes
<1>3. "path" \in Byte /\ "length" \in Byte
  BY TorrentAssumption
<1>4. Remains("dict", e, EmptyDict) /\ e \in Text
  BY EndRemains, Letters
<1> HIDE DEF e
<1>5. Remains("dict", P \o e, d) /\ P \in Text
  BY <1>2, <1>3, <1>4, EntryRemains
<1> HIDE DEF P, d
<1>6. /\ Remains("dict", L \o (P \o e), With("", d, "length", <<"int", f.length>>))
      /\ L \in Text
  BY <1>2, <1>3, <1>5, EntryRemains
<1> HIDE DEF L
<1>7. Encodes(Join(D, Join(L, Join(P, e))),
              <<"dict", With("", d, "length", <<"int", f.length>>)>>)
  BY <1>6, CollectionEncodes DEF Join
<1>0. D \in Text
  BY Letters
<1> HIDE DEF D
<1>a. /\ e \in Text /\ P \in Text /\ L \in Text
  BY <1>4, <1>5, <1>6
<1>8. Join(Join(Join(D, L), P), e) = Join(D, Join(L, Join(P, e)))
  BY <1>0, <1>a, Regroup4
<1>9. FileBytes(f) = Join(Join(Join(D, L), P), e)
  BY DEF FileBytes, L, P, e, D, Join
<1> QED
  BY <1>7, <1>8, <1>9 DEF FileDict, d

\* The files are read as a list of dictionaries.
LEMMA FilesEncode ==
  ASSUME NEW files \in Seq(File)
  PROVE  Encodes(List([i \in DOMAIN files |-> FileBytes(files[i])]),
                 <<"list", FileNodes(files)>>)
<1> DEFINE s == [i \in DOMAIN files |-> FileBytes(files[i])]
           n == FileNodes(files)
           N == {n[i] : i \in DOMAIN files}
<1>1. DOMAIN files = 1 .. Len(files) /\ Len(files) \in Nat /\ \A i \in DOMAIN files : files[i] \in File
  OBVIOUS
<1>2. \A i \in DOMAIN files : Encodes(FileBytes(files[i]), <<"dict", FileDict(files[i])>>)
  BY <1>1, FileEncodes
<1>3. s \in Seq(Text) /\ Len(s) = Len(files)
  <2>1. \A i \in DOMAIN files : FileBytes(files[i]) \in Text
    BY <1>2 DEF Encodes
  <2> QED
    BY <1>1, <2>1
<1>4. \A i \in DOMAIN files : s[i] = FileBytes(files[i]) /\ n[i] = <<"dict", FileDict(files[i])>>
  BY DEF FileNodes
<1>5. n \in Seq(N) /\ Len(n) = Len(files)
  BY <1>1 DEF FileNodes
<1> HIDE DEF s, n, N
<1>6. \A i \in 1 .. Len(s) : Encodes(s[i], n[i])
  BY <1>1, <1>2, <1>3, <1>4
<1>7. Encodes(List(s), <<"list", n>>)
  BY <1>3, <1>5, <1>6, ListEncodes
<1> QED
  BY <1>7 DEF s, n

-----------------------------------------------------------------------------
(* The info dictionary.                                                    *)

\* EntryRemains in terms of Join.
LEMMA EntryJoins ==
  ASSUME NEW k \in Byte, NEW without, NEW s, NEW n, Encodes(s, n),
         NEW t, NEW d, Remains("dict", t, d)
  PROVE  Remains("dict", Join(Entry(without, k, s), t), With(without, d, k, n))
         /\ Entry(without, k, s) \in Text
BY EntryRemains DEF Join

\* What the dictionary d of a torrent's info says, in whatever order it was written.
ContentsKey(t)  == IF t.files[1].path = << >> THEN "length" ELSE "files"
ContentsNode(t) == IF t.files[1].path = << >> THEN <<"int", t.files[1].length>>
                   ELSE <<"list", FileNodes(t.files)>>
NameNode        == <<"string", <<"debian">>>>
PieceLengthNode(t) == <<"int", t.piece_length>>
PiecesNode(t)   == <<"string", FlattenSeq(t.hashes)>>

InfoOf(t, without, d) ==
  /\ Holds(without, d, "name", NameNode)
  /\ Holds(without, d, "piece length", PieceLengthNode(t))
  /\ Holds(without, d, "pieces", PiecesNode(t))
  /\ Holds(without, d, ContentsKey(t), ContentsNode(t))
  /\ ContentsKey(t) = "files" => <<"length">> \notin DOMAIN d
  /\ ContentsKey(t) = "length" => <<"files">> \notin DOMAIN d

\* The entries whose keys come behind or before that of the contents.
Others(t, without) ==
  (Entry(without, "name", String(<<"debian">>))
     \o Entry(without, "piece length", Integer(t.piece_length)))
     \o Entry(without, "pieces", String(FlattenSeq(t.hashes)))

Contents(t, without) ==
  IF t.files[1].path = << >>
  THEN Entry(without, "length", Integer(t.files[1].length))
  ELSE Entry(without, "files", List([i \in DOMAIN t.files |-> FileBytes(t.files[i])]))

\* InfoBytes by its two parts.
LEMMA InfoBytesAre ==
  ASSUME NEW t, NEW without
  PROVE  InfoBytes(t, without) =
           (<<"d">> \o (IF t.sorted THEN Contents(t, without) \o Others(t, without)
                        ELSE Others(t, without) \o Contents(t, without))) \o <<"e">>
BY DEF InfoBytes, Contents, Others

OthersDict(t, without, d) ==
  With(without, With(without, With(without, d, "pieces", PiecesNode(t)),
       "piece length", PieceLengthNode(t)), "name", NameNode)

\* The types of what a description is made of.
LEMMA TorrentParts ==
  ASSUME NEW t \in Torrents
  PROVE  /\ t.announce \in Text /\ t.tiers \in Seq(Seq(Text))
         /\ t.files \in Seq(File) /\ t.files # << >> /\ Len(t.files) \in Nat \ {0}
         /\ t.files[1] \in File /\ t.files[1].path \in Text /\ t.files[1].length \in Nat
         /\ t.files[1].path = << >> => Len(t.files) = 1
         /\ t.piece_length \in Nat \ {0}
         /\ t.hashes \in Seq(Text)
         /\ \A i \in 1 .. Len(t.hashes) : Len(t.hashes[i]) = HashSize
         /\ FlattenSeq(t.hashes) \in Text
<1>1. /\ t.announce \in Text /\ t.tiers \in Seq(Seq(Text))
      /\ t.files \in Seq(File) /\ t.files # << >>
      /\ t.files[1].path = << >> => Len(t.files) = 1
      /\ t.piece_length \in Nat \ {0}
      /\ t.hashes \in Seq({h \in Text : Len(h) = HashSize})
  BY TorrentAssumption DEF Text, File
<1>2. Len(t.files) \in Nat \ {0}
  BY <1>1, EmptySeq
<1>3. t.files[1] \in File
  BY <1>1, <1>2, ElementOfSeq
<1>4. t.files[1].path \in Text /\ t.files[1].length \in Nat
  BY <1>3 DEF File, Text
<1>5. t.hashes \in Seq(Text)
  BY <1>1, SeqMonotonic
<1>6. \A i \in 1 .. Len(t.hashes) : Len(t.hashes[i]) = HashSize
  BY <1>1, ElementOfSeq
<1>7. FlattenSeq(t.hashes) \in Text
  <2>1. PICK f : /\ FlattenSeq(t.hashes) = f[Len(t.hashes)]
                 /\ \A i \in 0 .. Len(t.hashes) : f[i] \in Seq(Byte)
    BY <1>5, FlattenFacts DEF Text
  <2>2. Len(t.hashes) \in 0 .. Len(t.hashes)
    BY <1>5
  <2> QED
    BY <2>1, <2>2 DEF Text
<1> QED
  BY <1>1, <1>2, <1>3, <1>4, <1>5, <1>6, <1>7

\* The entries that every info has are read in front of what remains.
LEMMA OthersRemain ==
  ASSUME NEW t \in Torrents, NEW without, NEW s, NEW d, Remains("dict", s, d)
  PROVE  \E N \in Text, L \in Text, P \in Text :
           /\ Others(t, without) = Join(Join(N, L), P)
           /\ Remains("dict", Join(N, Join(L, Join(P, s))), OthersDict(t, without, d))
<1> DEFINE N == Entry(without, "name", String(<<"debian">>))
           L == Entry(without, "piece length", Integer(t.piece_length))
           P == Entry(without, "pieces", String(FlattenSeq(t.hashes)))
           d1 == With(without, d, "pieces", PiecesNode(t))
           d2 == With(without, d1, "piece length", PieceLengthNode(t))
           d3 == With(without, d2, "name", NameNode)
<1>1. "name" \in Byte /\ "piece length" \in Byte /\ "pieces" \in Byte /\ "debian" \in Byte
  BY TorrentAssumption
<1>2. /\ Encodes(String(<<"debian">>), NameNode)
      /\ Encodes(Integer(t.piece_length), PieceLengthNode(t))
      /\ Encodes(String(FlattenSeq(t.hashes)), PiecesNode(t))
  BY <1>1, TorrentParts, OneByte, StringEncodes, IntegerEncodes
     DEF NameNode, PieceLengthNode, PiecesNode
<1>3. Others(t, without) = Join(Join(N, L), P) /\ OthersDict(t, without, d) = d3
  BY DEF Others, Join, OthersDict
<1>4. Remains("dict", Join(P, s), d1) /\ P \in Text
  BY <1>1, <1>2, EntryJoins
<1> HIDE DEF P, d1
<1>5. Remains("dict", Join(L, Join(P, s)), d2) /\ L \in Text
  BY <1>1, <1>2, <1>4, EntryJoins
<1> HIDE DEF L, d2
<1>6. Remains("dict", Join(N, Join(L, Join(P, s))), d3) /\ N \in Text
  BY <1>1, <1>2, <1>5, EntryJoins
<1> HIDE DEF N, d3
<1> QED
  BY <1>3, <1>4, <1>5, <1>6

\* The entries of Others, and that no other is touched.
LEMMA OthersKeep ==
  ASSUME NEW t, NEW without, NEW d, NEW k \in {"length", "files"}
  PROVE  /\ <<k>> \in DOMAIN OthersDict(t, without, d) <=> <<k>> \in DOMAIN d
         /\ \A v : Holds(without, d, k, v) => Holds(without, OthersDict(t, without, d), k, v)
<1> DEFINE d1 == With(without, d, "pieces", PiecesNode(t))
           d2 == With(without, d1, "piece length", PieceLengthNode(t))
           d3 == With(without, d2, "name", NameNode)
<1>1. /\ <<k>> \in DOMAIN d1 <=> <<k>> \in DOMAIN d
      /\ \A v : Holds(without, d, k, v) => Holds(without, d1, k, v)
  BY WithFacts
<1> HIDE DEF d1
<1>2. /\ <<k>> \in DOMAIN d2 <=> <<k>> \in DOMAIN d1
      /\ \A v : Holds(without, d1, k, v) => Holds(without, d2, k, v)
  BY WithFacts
<1> HIDE DEF d2
<1>3. /\ <<k>> \in DOMAIN d3 <=> <<k>> \in DOMAIN d2
      /\ \A v : Holds(without, d2, k, v) => Holds(without, d3, k, v)
  BY WithFacts
<1>4. OthersDict(t, without, d) = d3
  BY DEF OthersDict, d1, d2
<1> HIDE DEF d3
<1> QED
  BY <1>1, <1>2, <1>3, <1>4

\* The entries of OthersDict.
LEMMA OthersFacts ==
  ASSUME NEW t, NEW without, NEW d, <<"name">> \notin DOMAIN d,
         <<"piece length">> \notin DOMAIN d, <<"pieces">> \notin DOMAIN d
  PROVE  /\ Holds(without, OthersDict(t, without, d), "name", NameNode)
         /\ Holds(without, OthersDict(t, without, d), "piece length", PieceLengthNode(t))
         /\ Holds(without, OthersDict(t, without, d), "pieces", PiecesNode(t))
<1> DEFINE d1 == With(without, d, "pieces", PiecesNode(t))
           d2 == With(without, d1, "piece length", PieceLengthNode(t))
           d3 == With(without, d2, "name", NameNode)
<1>1. /\ Holds(without, d1, "pieces", PiecesNode(t))
      /\ <<"name">> \notin DOMAIN d1 /\ <<"piece length">> \notin DOMAIN d1
  BY WithFacts
<1> HIDE DEF d1
<1>2. /\ Holds(without, d2, "pieces", PiecesNode(t))
      /\ Holds(without, d2, "piece length", PieceLengthNode(t))
      /\ <<"name">> \notin DOMAIN d2
  BY <1>1, WithFacts
<1> HIDE DEF d2
<1>3. /\ Holds(without, d3, "pieces", PiecesNode(t))
      /\ Holds(without, d3, "piece length", PieceLengthNode(t))
      /\ Holds(without, d3, "name", NameNode)
  BY <1>2, WithFacts
<1>4. OthersDict(t, without, d) = d3
  BY DEF OthersDict, d1, d2
<1> HIDE DEF d3
<1> QED
  BY <1>3, <1>4

\* The entry of the length or the files.
LEMMA ContentsEntry ==
  ASSUME NEW t \in Torrents, NEW without
  PROVE  /\ ContentsKey(t) \in Byte /\ ContentsKey(t) \in {"length", "files"}
         /\ \E s : /\ Encodes(s, ContentsNode(t))
                   /\ Contents(t, without) = Entry(without, ContentsKey(t), s)
<1>1. "length" \in Byte /\ "files" \in Byte
  BY TorrentAssumption
<1>2. CASE t.files[1].path = << >>
  <2>1. Encodes(Integer(t.files[1].length), <<"int", t.files[1].length>>)
    BY TorrentParts, IntegerEncodes
  <2> QED
    BY <1>1, <1>2, <2>1 DEF ContentsKey, ContentsNode, Contents
<1>3. CASE t.files[1].path # << >>
  <2>1. Encodes(List([i \in DOMAIN t.files |-> FileBytes(t.files[i])]),
                <<"list", FileNodes(t.files)>>)
    BY TorrentParts, FilesEncode
  <2> QED
    BY <1>1, <1>3, <2>1 DEF ContentsKey, ContentsNode, Contents
<1> QED
  BY <1>2, <1>3

\* The info dictionary is read as what the description says, whether its keys are sorted
\* or not.
LEMMA InfoEncodes ==
  ASSUME NEW t \in Torrents, NEW without
  PROVE  \E d : Encodes(InfoBytes(t, without), <<"dict", d>>) /\ InfoOf(t, without, d)
<1> DEFINE D == <<"d">>
           e == <<"e">>
           key == ContentsKey(t)
           C == Contents(t, without)
           O == Others(t, without)
<1>1. D \in Text /\ e \in Text /\ Remains("dict", e, EmptyDict)
  BY Letters, EndRemains
<1>2. \A k : <<k>> \notin DOMAIN EmptyDict
  BY DEF EmptyDict
<1>3. /\ key \in Byte /\ key \in {"length", "files"}
      /\ \E s : Encodes(s, ContentsNode(t)) /\ C = Entry(without, key, s)
  BY ContentsEntry
<1>4. PICK s : Encodes(s, ContentsNode(t)) /\ C = Entry(without, key, s)
  BY <1>3
<1>5. InfoBytes(t, without) = Join(Join(D, IF t.sorted THEN Join(C, O) ELSE Join(O, C)), e)
  BY InfoBytesAre DEF Join
<1> HIDE DEF D, e, C, O
<1>6. CASE t.sorted
  <2> DEFINE d1 == OthersDict(t, without, EmptyDict)
             d2 == With(without, d1, key, ContentsNode(t))
  <2>1. PICK N \in Text, L \in Text, P \in Text :
           /\ O = Join(Join(N, L), P)
           /\ Remains("dict", Join(N, Join(L, Join(P, e))), d1)
    BY <1>1, OthersRemain DEF O
  <2>2. /\ Holds(without, d1, "name", NameNode)
        /\ Holds(without, d1, "piece length", PieceLengthNode(t))
        /\ Holds(without, d1, "pieces", PiecesNode(t))
        /\ <<"length">> \notin DOMAIN d1 /\ <<"files">> \notin DOMAIN d1
    BY <1>2, OthersFacts, OthersKeep
  <2> HIDE DEF d1
  <2>3. Remains("dict", Join(C, Join(N, Join(L, Join(P, e)))), d2) /\ C \in Text
    BY <1>3, <1>4, <2>1, EntryJoins
  <2>4. InfoOf(t, without, d2)
    <3>1. /\ Holds(without, d2, "name", NameNode)
          /\ Holds(without, d2, "piece length", PieceLengthNode(t))
          /\ Holds(without, d2, "pieces", PiecesNode(t))
      BY <1>3, <2>2, WithFacts
    <3>2. /\ Holds(without, d2, key, ContentsNode(t))
          /\ key = "files" => <<"length">> \notin DOMAIN d2
          /\ key = "length" => <<"files">> \notin DOMAIN d2
      BY <1>3, <2>2, WithFacts
    <3> HIDE DEF d2
    <3> QED
      BY <3>1, <3>2 DEF InfoOf
  <2> HIDE DEF d2
  <2>5. Encodes(Join(D, Join(C, Join(N, Join(L, Join(P, e))))), <<"dict", d2>>)
    BY <2>3, CollectionEncodes DEF Join, D
  <2>6. InfoBytes(t, without) = Join(Join(D, Join(C, Join(Join(N, L), P))), e)
    BY <1>5, <1>6, <2>1
  <2>7. D \in Text /\ e \in Text /\ C \in Text
    BY <1>1, <2>3
  <2>8. Join(Join(D, Join(C, Join(Join(N, L), P))), e) =
          Join(D, Join(C, Join(N, Join(L, Join(P, e)))))
    BY <2>7, Regroup6
  <2> QED
    BY <2>4, <2>5, <2>6, <2>8
<1>7. CASE ~ t.sorted
  <2> DEFINE d1 == With(without, EmptyDict, key, ContentsNode(t))
             d2 == OthersDict(t, without, d1)
  <2>1. Remains("dict", Join(C, e), d1) /\ C \in Text
    BY <1>1, <1>3, <1>4, EntryJoins
  <2>2. /\ Holds(without, d1, key, ContentsNode(t))
        /\ <<"name">> \notin DOMAIN d1 /\ <<"piece length">> \notin DOMAIN d1
        /\ <<"pieces">> \notin DOMAIN d1
        /\ key = "files" => <<"length">> \notin DOMAIN d1
        /\ key = "length" => <<"files">> \notin DOMAIN d1
    BY <1>2, <1>3, WithFacts
  <2> HIDE DEF d1
  <2>3. PICK N \in Text, L \in Text, P \in Text :
           /\ O = Join(Join(N, L), P)
           /\ Remains("dict", Join(N, Join(L, Join(P, Join(C, e)))), d2)
    BY <2>1, OthersRemain DEF O
  <2>4. InfoOf(t, without, d2)
    <3>1. /\ Holds(without, d2, "name", NameNode)
          /\ Holds(without, d2, "piece length", PieceLengthNode(t))
          /\ Holds(without, d2, "pieces", PiecesNode(t))
      BY <2>2, OthersFacts
    <3>3. /\ <<"length">> \in DOMAIN d2 <=> <<"length">> \in DOMAIN d1
          /\ <<"files">> \in DOMAIN d2 <=> <<"files">> \in DOMAIN d1
          /\ \A v : Holds(without, d1, key, v) => Holds(without, d2, key, v)
      BY <1>3, OthersKeep
    <3> HIDE DEF d2
    <3>2. /\ Holds(without, d2, key, ContentsNode(t))
          /\ key = "files" => <<"length">> \notin DOMAIN d2
          /\ key = "length" => <<"files">> \notin DOMAIN d2
      BY <2>2, <3>3
    <3> QED
      BY <3>1, <3>2 DEF InfoOf
  <2> HIDE DEF d2
  <2>5. Encodes(Join(D, Join(N, Join(L, Join(P, Join(C, e))))), <<"dict", d2>>)
    BY <2>3, CollectionEncodes DEF Join, D
  <2>6. InfoBytes(t, without) = Join(Join(D, Join(Join(Join(N, L), P), C)), e)
    BY <1>5, <1>7, <2>3
  <2>7. D \in Text /\ e \in Text /\ C \in Text
    BY <1>1, <2>1
  <2>8. Join(Join(D, Join(Join(Join(N, L), P), C)), e) =
          Join(D, Join(N, Join(L, Join(P, Join(C, e)))))
    BY <2>7, Regroup6Swapped
  <2> QED
    BY <2>4, <2>5, <2>6, <2>8
<1> QED
  BY <1>6, <1>7

TierNode(l)  == <<"list", [j \in DOMAIN l |-> <<"string", l[j]>>]>>
TiersNode(t) == <<"list", [i \in DOMAIN t.tiers |-> TierNode(t.tiers[i])]>>

\* What the dictionary d of the whole file says.
RootOf(t, without, d) ==
  /\ Holds(without, d, "announce", <<"string", t.announce>>)
  /\ IF t.tiers = << >> THEN <<"announce-list">> \notin DOMAIN d
     ELSE Holds(without, d, "announce-list", TiersNode(t))
  /\ \E info : Holds(without, d, "info", <<"dict", info>>) /\ InfoOf(t, without, info)

\* The announce-list is read as a list of lists of strings.
LEMMA TiersEncode ==
  ASSUME NEW t \in Torrents
  PROVE  Encodes(List([i \in DOMAIN t.tiers |->
                         List([j \in DOMAIN t.tiers[i] |-> String(t.tiers[i][j])])]),
                 TiersNode(t))
<1> DEFINE Tier(l) == List([j \in DOMAIN l |-> String(l[j])])
           ts == t.tiers
           s == [i \in DOMAIN ts |-> Tier(ts[i])]
           n == [i \in DOMAIN ts |-> TierNode(ts[i])]
           N == {n[i] : i \in DOMAIN ts}
<1>1. ts \in Seq(Seq(Text))
  BY TorrentParts
<1>2. ASSUME NEW l \in Seq(Text)
      PROVE  Encodes(Tier(l), TierNode(l))
  BY StringsEncode DEF TierNode
<1> HIDE DEF ts, Tier
<1>3. DOMAIN ts = 1 .. Len(ts) /\ Len(ts) \in Nat /\ \A i \in DOMAIN ts : ts[i] \in Seq(Text)
  BY <1>1
<1>4. \A i \in DOMAIN ts : Encodes(Tier(ts[i]), TierNode(ts[i])) /\ Tier(ts[i]) \in Text
  BY <1>2, <1>3 DEF Encodes
<1>5. s \in Seq(Text) /\ Len(s) = Len(ts)
  BY <1>3, <1>4
<1>6. n \in Seq(N) /\ Len(n) = Len(ts)
  BY <1>3
<1>7. \A i \in DOMAIN ts : s[i] = Tier(ts[i]) /\ n[i] = TierNode(ts[i])
  OBVIOUS
<1> HIDE DEF s, n, N
<1>8. \A i \in 1 .. Len(s) : Encodes(s[i], n[i])
  BY <1>3, <1>4, <1>5, <1>7
<1>9. Encodes(List(s), <<"list", n>>)
  BY <1>5, <1>6, <1>8, ListEncodes
<1> QED
  BY <1>9 DEF s, n, ts, Tier, TiersNode

\* The file is read as what the description says.
LEMMA BytesEncode ==
  ASSUME NEW t \in Torrents, NEW without
  PROVE  \E d : Encodes(Bytes(t, without), <<"dict", d>>) /\ RootOf(t, without, d)
<1> DEFINE D == <<"d">>
           e == <<"e">>
           A == Entry(without, "announce", String(t.announce))
           T == IF t.tiers = << >> THEN << >> ELSE Entry(without, "announce-list",
                List([i \in DOMAIN t.tiers |->
                        List([j \in DOMAIN t.tiers[i] |-> String(t.tiers[i][j])])]))
           I == Entry(without, "info", InfoBytes(t, without))
<1>1. /\ D \in Text /\ e \in Text /\ Remains("dict", e, EmptyDict)
      /\ "announce" \in Byte /\ "announce-list" \in Byte /\ "info" \in Byte
  BY Letters, EndRemains, TorrentAssumption
<1>2. \A k : <<k>> \notin DOMAIN EmptyDict
  BY DEF EmptyDict
<1>3. Bytes(t, without) = Join(Join(Join(Join(D, A), T), I), e)
  BY DEF Bytes, Join
<1>4. PICK info : /\ Encodes(InfoBytes(t, without), <<"dict", info>>)
                  /\ InfoOf(t, without, info)
  BY InfoEncodes
<1> DEFINE d1 == With(without, EmptyDict, "info", <<"dict", info>>)
           d2 == IF t.tiers = << >> THEN d1 ELSE With(without, d1, "announce-list", TiersNode(t))
           d3 == With(without, d2, "announce", <<"string", t.announce>>)
<1> HIDE DEF D, e
<1>5. Remains("dict", Join(I, e), d1) /\ I \in Text
  BY <1>1, <1>4, EntryJoins
<1>6. /\ Holds(without, d1, "info", <<"dict", info>>)
      /\ <<"announce">> \notin DOMAIN d1 /\ <<"announce-list">> \notin DOMAIN d1
  BY <1>2, WithFacts
<1> HIDE DEF I, d1
<1>7. Remains("dict", Join(T, Join(I, e)), d2) /\ T \in Text
  <2>1. CASE t.tiers = << >>
    <3>1. Join(I, e) \in Text
      BY <1>5 DEF Remains
    <3>2. Join(<< >>, Join(I, e)) = Join(I, e)
      BY <3>1, ConcatEmptySeq DEF Join, Text
    <3>3. << >> \in Text
      BY DEF Text
    <3> QED
      BY <1>5, <2>1, <3>2, <3>3
  <2>2. CASE t.tiers # << >>
    BY <1>1, <1>5, <2>2, TiersEncode, EntryJoins
  <2> QED
    BY <2>1, <2>2
<1>8. /\ Holds(without, d2, "info", <<"dict", info>>)
      /\ <<"announce">> \notin DOMAIN d2
      /\ IF t.tiers = << >> THEN <<"announce-list">> \notin DOMAIN d2
         ELSE Holds(without, d2, "announce-list", TiersNode(t))
  <2>1. CASE t.tiers = << >>
    BY <1>6, <2>1
  <2>2. CASE t.tiers # << >>
    BY <1>6, <2>2, WithFacts
  <2> QED
    BY <2>1, <2>2
<1> HIDE DEF T, d2
<1>9. Remains("dict", Join(A, Join(T, Join(I, e))), d3) /\ A \in Text
  <2>1. Encodes(String(t.announce), <<"string", t.announce>>)
    BY TorrentParts, StringEncodes
  <2> QED
    BY <1>1, <1>7, <2>1, EntryJoins
<1>10. RootOf(t, without, d3)
  <2>1. Holds(without, d3, "announce", <<"string", t.announce>>)
    BY <1>8, WithFacts
  <2>2. Holds(without, d3, "info", <<"dict", info>>)
    BY <1>8, WithFacts
  <2>3. IF t.tiers = << >> THEN <<"announce-list">> \notin DOMAIN d3
        ELSE Holds(without, d3, "announce-list", TiersNode(t))
    BY <1>8, WithFacts
  <2> HIDE DEF d3
  <2> QED
    BY <1>4, <2>1, <2>2, <2>3 DEF RootOf
<1> HIDE DEF A, d3
<1>11. Encodes(Join(D, Join(A, Join(T, Join(I, e)))), <<"dict", d3>>)
  BY <1>9, CollectionEncodes DEF Join, D
<1>12. /\ D \in Text /\ A \in Text /\ T \in Text /\ I \in Text /\ e \in Text
  BY <1>1, <1>5, <1>7, <1>9
<1>13. Join(Join(Join(Join(D, A), T), I), e) = Join(D, Join(A, Join(T, Join(I, e))))
  BY <1>12, Regroup5
<1> QED
  BY <1>3, <1>10, <1>11, <1>13

-----------------------------------------------------------------------------
(* What is read of a file.                                                 *)

\* A text is read from its first byte on, and a proper prefix of it is cut off.
LEMMA ReadWhole ==
  ASSUME NEW s, NEW n, Encodes(s, n)
  PROVE  parse_bencode(s, 1) = Parsed(n, Len(s) + 1) /\ Len(s) \in Nat
<1>1. s \in Text /\ Len(s) \in Nat /\ 1 \in Places(s)
  BY DEF Encodes, Text, Places
<1>2. At(s, 1, s)
  BY <1>1 DEF At
<1>3. Parser(s)[<<"node", 1>>] = Parsed(n, 1 + Len(s))
  BY <1>1, <1>2 DEF Encodes
<1>4. parse_bencode(s, 1) = Parser(s)[<<"node", 1>>]
  BY <1>1, ParserCalls
<1>5. 1 + Len(s) = Len(s) + 1
  BY <1>1
<1> QED
  BY <1>1, <1>3, <1>4, <1>5

\* parse_bencode throws at a file that is cut off anywhere.
LEMMA ReadCut ==
  ASSUME NEW s, NEW n, Encodes(s, n), NEW m \in Nat, m < Len(s)
  PROVE  parse_bencode(SubSeq(s, 1, m), 1) = Throws
<1> DEFINE b == SubSeq(s, 1, m)
<1>1. s \in Text /\ Len(s) \in Nat
  BY DEF Encodes, Text
<1>2. \A i \in 1 .. m : s[i] \in Byte
  BY <1>1, ElementOfSeq DEF Text
<1>3. b \in Text /\ Len(b) = m /\ \A i \in 1 .. m : b[i] = s[i]
  <2>1. /\ b \in Seq(Byte) /\ Len(b) = IF 1 <= m THEN m - 1 + 1 ELSE 0
        /\ \A i \in 1 .. m - 1 + 1 : b[i] = s[1 + i - 1]
    BY <1>2, SubSeqProperties
  <2> HIDE DEF b
  <2> QED
    BY <2>1 DEF Text
<1> HIDE DEF b
<1>4. Cut(b, 1, s) /\ 1 \in Places(b)
  BY <1>1, <1>3 DEF Cut, Places
<1>5. Parser(b)[<<"node", 1>>] = Throws
  BY <1>3, <1>4 DEF Encodes
<1>6. parse_bencode(b, 1) = Parser(b)[<<"node", 1>>]
  BY <1>3, <1>4, ParserCalls
<1> QED
  BY <1>5, <1>6 DEF b

\* The fields without which the constructor throws.
Needed(t) == {"announce", "info", "name", "piece length", "pieces", ContentsKey(t)}

\* A torrent has a length or files.
LEMMA KeyOfContents ==
  ASSUME NEW t
  PROVE  \/ /\ t.files[1].path = << >> /\ ContentsKey(t) = "length"
            /\ ContentsNode(t) = <<"int", t.files[1].length>>
         \/ /\ t.files[1].path # << >> /\ ContentsKey(t) = "files"
            /\ ContentsNode(t) = <<"list", FileNodes(t.files)>>
BY DEF ContentsKey, ContentsNode

\* The constructor does not throw on the files.
LEMMA FilesAreFiles ==
  ASSUME NEW files \in Seq(File)
  PROVE  ListOf(<<"list", FileNodes(files)>>, IsFile)
<1>1. ASSUME NEW i \in DOMAIN files
      PROVE  IsFile(<<"dict", FileDict(files[i])>>)
  <2> DEFINE d == FileDict(files[i])
  <2>1. /\ <<"path">> \in DOMAIN d /\ d[<<"path">>] = PathNode(files[i].path)
        /\ <<"length">> \in DOMAIN d /\ d[<<"length">>] = <<"int", files[i].length>>
    BY FileDictFacts
  <2> HIDE DEF d
  <2>2. IsFile(<<"dict", d>>)
    BY <2>1 DEF IsFile, Has, ListOf, IsString, PathNode
  <2> QED
    BY <2>2 DEF d
<1>2. \A i \in DOMAIN FileNodes(files) : IsFile(FileNodes(files)[i])
  BY <1>1 DEF FileNodes
<1> QED
  BY <1>2 DEF ListOf

\* The constructor does not throw on the announce-list.
LEMMA TiersAreTiers ==
  ASSUME NEW t
  PROVE  ListOf(TiersNode(t), IsTier)
BY DEF TiersNode, TierNode, ListOf, IsTier, IsString

\* The constructor takes the info of a torrent that has what is needed.
LEMMA InfoIsTaken ==
  ASSUME NEW t \in Torrents, NEW without, NEW info, InfoOf(t, without, info)
  PROVE  IsInfo(info) <=> without \notin {"name", "piece length", "pieces", ContentsKey(t)}
<1>1. /\ Has(info, "name", "string") <=> "name" # without
      /\ Has(info, "piece length", "int") <=> "piece length" # without
      /\ Has(info, "pieces", "string") <=> "pieces" # without
  <2>1. /\ Holds(without, info, "name", NameNode)
        /\ Holds(without, info, "piece length", PieceLengthNode(t))
        /\ Holds(without, info, "pieces", PiecesNode(t))
    BY DEF InfoOf
  <2>a. NameNode[1] = "string" /\ PieceLengthNode(t)[1] = "int" /\ PiecesNode(t)[1] = "string"
    BY DEF NameNode, PieceLengthNode, PiecesNode
  <2>2. Has(info, "name", "string") <=> "name" # without
    BY <2>1, <2>a DEF Holds, Has
  <2>3. Has(info, "piece length", "int") <=> "piece length" # without
    BY <2>1, <2>a DEF Holds, Has
  <2>4. Has(info, "pieces", "string") <=> "pieces" # without
    BY <2>1, <2>a DEF Holds, Has
  <2> QED
    BY <2>2, <2>3, <2>4
<1>2. /\ <<ContentsKey(t)>> \in DOMAIN info <=> ContentsKey(t) # without
      /\ ContentsKey(t) # without => info[<<ContentsKey(t)>>] = ContentsNode(t)
      /\ ContentsKey(t) = "files" => <<"length">> \notin DOMAIN info
      /\ ContentsKey(t) = "length" => <<"files">> \notin DOMAIN info
  BY DEF InfoOf, Holds
<1>3. CASE ContentsKey(t) = "length" /\ ContentsNode(t) = <<"int", t.files[1].length>>
  <2>1. <<"length">> \in DOMAIN info => Has(info, "length", "int")
    BY <1>2, <1>3 DEF Has
  <2> QED
    BY <1>1, <1>2, <1>3, <2>1 DEF IsInfo
<1>4. CASE ContentsKey(t) = "files" /\ ContentsNode(t) = <<"list", FileNodes(t.files)>>
  <2>1. ListOf(<<"list", FileNodes(t.files)>>, IsFile)
    BY FilesAreFiles, TorrentParts
  <2>2. CASE without # "files"
    <3>1. /\ <<"files">> \in DOMAIN info /\ ListOf(info[<<"files">>], IsFile)
          /\ <<"length">> \notin DOMAIN info
      BY <1>2, <1>4, <2>1, <2>2
    <3> QED
      BY <1>1, <1>4, <2>2, <3>1 DEF IsInfo
  <2>3. CASE without = "files"
    BY <1>1, <1>2, <1>4, <2>3 DEF IsInfo
  <2> QED
    BY <2>2, <2>3
<1> QED
  BY <1>3, <1>4, KeyOfContents

\* The constructor throws on what was read of a torrent exactly when a field that is
\* needed is not there.
LEMMA RootIsTaken ==
  ASSUME NEW t \in Torrents, NEW without, NEW d, RootOf(t, without, d)
  PROVE  IsTorrent(<<"dict", d>>) <=> without \notin Needed(t)
<1>1. PICK info : Holds(without, d, "info", <<"dict", info>>) /\ InfoOf(t, without, info)
  BY DEF RootOf
<1>2. Holds(without, d, "announce", <<"string", t.announce>>)
  BY DEF RootOf
<1>3. Has(d, "announce", "string") <=> "announce" # without
  <2>1. <<"string", t.announce>>[1] = "string"
    OBVIOUS
  <2> QED
    BY <1>2, <2>1 DEF Has, Holds
<1>4. /\ Has(d, "info", "dict") <=> "info" # without
      /\ "info" # without => Field(d, "info") = info
  <2>1. <<"dict", info>>[1] = "dict" /\ <<"dict", info>>[2] = info
    OBVIOUS
  <2> QED
    BY <1>1, <2>1 DEF Has, Holds, Field
<1>5. <<"announce-list">> \in DOMAIN d => ListOf(d[<<"announce-list">>], IsTier)
  <2>1. CASE t.tiers = << >>
    BY <2>1 DEF RootOf
  <2>2. CASE t.tiers # << >>
    <3>1. Holds(without, d, "announce-list", TiersNode(t))
      BY <2>2 DEF RootOf
    <3>2. <<"announce-list">> \in DOMAIN d => d[<<"announce-list">>] = TiersNode(t)
      BY <3>1 DEF Holds
    <3> QED
      BY <3>2, TiersAreTiers
  <2> QED
    BY <2>1, <2>2
<1>6. IsInfo(info) <=> without \notin {"name", "piece length", "pieces", ContentsKey(t)}
  BY <1>1, InfoIsTaken
<1> DEFINE r == <<"dict", d>>
<1>7. r[1] = "dict" /\ r[2] = d
  OBVIOUS
<1> HIDE DEF r
<1>8. IsTorrent(r) <=> /\ Has(d, "announce", "string") /\ Has(d, "info", "dict")
                       /\ IsInfo(Field(d, "info"))
  BY <1>5, <1>7 DEF IsTorrent
<1>9. IsTorrent(r) <=> without \notin Needed(t)
  BY <1>3, <1>4, <1>6, <1>8 DEF Needed
<1> QED
  BY <1>9 DEF r

\* A file that lacks nothing that is needed and has its trackers is the whole file.
LEMMA NothingLacks ==
  ASSUME NEW t, NEW without, without \notin Needed(t), without # "announce-list"
  PROVE  Bytes(t, without) = Bytes(t, "none")
<1>0. "none" \notin Needed(t) /\ "none" # "announce-list"
  BY DEF Needed, ContentsKey
<1>1. \A k \in Needed(t) \cup {"announce-list"} : \A v :
        Entry(without, k, v) = Entry("none", k, v)
  BY <1>0 DEF Entry
<1>2. /\ \A v : Entry(without, "announce", v) = Entry("none", "announce", v)
      /\ \A v : Entry(without, "announce-list", v) = Entry("none", "announce-list", v)
      /\ \A v : Entry(without, "info", v) = Entry("none", "info", v)
      /\ \A v : Entry(without, "name", v) = Entry("none", "name", v)
      /\ \A v : Entry(without, "piece length", v) = Entry("none", "piece length", v)
      /\ \A v : Entry(without, "pieces", v) = Entry("none", "pieces", v)
      /\ \A v : Entry(without, ContentsKey(t), v) = Entry("none", ContentsKey(t), v)
  BY <1>1 DEF Needed
<1>3. Contents(t, without) = Contents(t, "none")
  <2>1. CASE t.files[1].path = << >>
    BY <1>2, <2>1 DEF Contents, ContentsKey
  <2>2. CASE t.files[1].path # << >>
    BY <1>2, <2>2 DEF Contents, ContentsKey
  <2> QED
    BY <2>1, <2>2
<1>4. Others(t, without) = Others(t, "none")
  BY <1>2 DEF Others
<1>5. InfoBytes(t, without) = InfoBytes(t, "none")
  BY <1>3, <1>4, InfoBytesAre
<1> QED
  BY <1>2, <1>5 DEF Bytes

-----------------------------------------------------------------------------
(* What the constructor takes from it.                                     *)

\* The constructor keeps the trackers, tier by tier.
LEMMA TrackersAre ==
  ASSUME NEW t \in Torrents, NEW without, NEW d, RootOf(t, without, d)
  PROVE  TrackersOf(d) = IF without = "announce-list" THEN << >> ELSE FlattenSeq(t.tiers)
<1>1. t.tiers \in Seq(Seq(Text))
  BY TorrentParts
<1>2. CASE t.tiers = << >>
  <2>1. TrackersOf(d) = << >>
    BY <1>2 DEF RootOf, TrackersOf
  <2>2. FlattenSeq(<< >>) = << >>
    BY DEF FlattenSeq
  <2> QED
    BY <1>2, <2>1, <2>2
<1>3. CASE t.tiers # << >> /\ without = "announce-list"
  BY <1>3 DEF RootOf, Holds, TrackersOf
<1>4. CASE t.tiers # << >> /\ without # "announce-list"
  <2> DEFINE ts == [i \in DOMAIN t.tiers |-> TierNode(t.tiers[i])]
             u == [i \in DOMAIN ts |-> [j \in DOMAIN ts[i][2] |-> ts[i][2][j][2]]]
  <2>1. <<"announce-list">> \in DOMAIN d /\ d[<<"announce-list">>] = TiersNode(t)
    BY <1>4 DEF RootOf, Holds
  <2>2. Field(d, "announce-list") = ts
    BY <2>1 DEF Field, TiersNode
  <2>3. TrackersOf(d) = FlattenSeq(u)
    BY <2>1, <2>2 DEF TrackersOf
  <2>4. ASSUME NEW l \in Seq(Text)
        PROVE  [j \in DOMAIN TierNode(l)[2] |-> TierNode(l)[2][j][2]] = l
    <3> DEFINE m == [j \in DOMAIN l |-> <<"string", l[j]>>]
    <3>1. TierNode(l)[2] = m
      BY DEF TierNode
    <3>2. DOMAIN m = DOMAIN l /\ \A j \in DOMAIN l : m[j][2] = l[j]
      OBVIOUS
    <3> HIDE DEF m
    <3>3. [j \in DOMAIN m |-> m[j][2]] = [j \in DOMAIN l |-> l[j]]
      BY <3>2
    <3>4. [j \in DOMAIN l |-> l[j]] = l
      OBVIOUS
    <3> QED
      BY <3>1, <3>3, <3>4
  <2>5. u = [i \in DOMAIN t.tiers |-> t.tiers[i]]
    <3>1. DOMAIN ts = DOMAIN t.tiers /\ \A i \in DOMAIN t.tiers : ts[i] = TierNode(t.tiers[i])
      OBVIOUS
    <3>2. \A i \in DOMAIN t.tiers : t.tiers[i] \in Seq(Text)
      BY <1>1
    <3> HIDE DEF ts
    <3>3. \A i \in DOMAIN t.tiers : [j \in DOMAIN ts[i][2] |-> ts[i][2][j][2]] = t.tiers[i]
      BY <2>4, <3>1, <3>2
    <3> QED
      BY <3>1, <3>3
  <2>6. [i \in DOMAIN t.tiers |-> t.tiers[i]] = t.tiers
    BY <1>1
  <2> QED
    BY <1>4, <2>3, <2>5, <2>6
<1> QED
  BY <1>2, <1>3, <1>4

\* The running offset is there, and what its steps are.
LEMMA OffsetExists ==
  ASSUME NEW files, NEW n \in Nat
  PROVE  \E o : o = [i \in 1 .. n |-> IF i = 1 THEN 0
                                      ELSE o[i - 1] + Field(files[i - 1][2], "length")]
<1> DEFINE L(i) == Field(files[i - 1][2], "length")
           S == {k \in Nat : \E o : o = [i \in 1 .. k |-> IF i = 1 THEN 0 ELSE o[i - 1] + L(i)]}
<1> HIDE DEF L
<1>1. 0 \in S
  <2> DEFINE f == [i \in 1 .. 0 |-> 0]
  <2>1. f = [i \in 1 .. 0 |-> IF i = 1 THEN 0 ELSE f[i - 1] + L(i)]
    OBVIOUS
  <2> HIDE DEF f
  <2> QED
    BY <2>1
<1>2. ASSUME NEW k \in Nat, k \in S
      PROVE  k + 1 \in S
  <2>1. PICK f : f = [i \in 1 .. k |-> IF i = 1 THEN 0 ELSE f[i - 1] + L(i)]
    BY <1>2
  <2> DEFINE g == [i \in 1 .. k + 1 |-> IF i = 1 THEN 0 ELSE f[i - 1] + L(i)]
  <2>2. \A i \in 1 .. k : g[i] = f[i]
    <3>1. \A i \in 1 .. k : f[i] = IF i = 1 THEN 0 ELSE f[i - 1] + L(i)
      BY <2>1, Zenon
    <3>2. \A i \in 1 .. k : i \in 1 .. k + 1
      OBVIOUS
    <3>3. \A i \in 1 .. k + 1 : g[i] = IF i = 1 THEN 0 ELSE f[i - 1] + L(i)
      BY Zenon
    <3> HIDE DEF g
    <3> QED
      BY <3>1, <3>2, <3>3, Zenon
  <2>3. g = [i \in 1 .. k + 1 |-> IF i = 1 THEN 0 ELSE g[i - 1] + L(i)]
    <3>1. ASSUME NEW i \in 1 .. k + 1, i # 1
          PROVE  g[i - 1] = f[i - 1]
      <4>1. i - 1 \in 1 .. k
        BY <3>1
      <4> HIDE DEF g
      <4> QED
        BY <4>1, <2>2
    <3> QED
      BY <3>1
  <2> HIDE DEF g
  <2>4. k + 1 \in Nat
    OBVIOUS
  <2> QED
    BY <2>3, <2>4, Zenon
<1>3. Nat \subseteq S
  <2> HIDE DEF S
  <2> QED
    BY <1>1, <1>2, SetInduction
<1> QED
  BY <1>3 DEF L

\* The running offset grows by the length of each file.
LEMMA OffsetSteps ==
  ASSUME NEW files, Len(files) \in Nat
  PROVE  /\ GlobalOffset(files)[1] = 0
         /\ \A i \in 1 .. Len(files) :
              GlobalOffset(files)[i + 1] =
                GlobalOffset(files)[i] + Field(files[i][2], "length")
<1> DEFINE n == Len(files) + 1
           O == CHOOSE o : o = [i \in 1 .. n |-> IF i = 1 THEN 0
                                  ELSE o[i - 1] + Field(files[i - 1][2], "length")]
<1>1. GlobalOffset(files) = O
  BY Zenon DEF GlobalOffset
<1>2. n \in Nat
  OBVIOUS
<1> HIDE DEF n
<1>3. O = [i \in 1 .. n |-> IF i = 1 THEN 0
                            ELSE O[i - 1] + Field(files[i - 1][2], "length")]
  BY <1>2, OffsetExists
<1> HIDE DEF O
<1>4. \A i \in 1 .. n : O[i] = IF i = 1 THEN 0 ELSE O[i - 1] + Field(files[i - 1][2], "length")
  BY <1>3, Zenon
<1>5. O[1] = 0
  <2>1. 1 \in 1 .. n
    BY DEF n
  <2> QED
    BY <1>4, <2>1, Zenon
<1>6. ASSUME NEW i \in 1 .. Len(files)
      PROVE  O[i + 1] = O[i] + Field(files[i][2], "length")
  <2>1. i + 1 \in 1 .. n /\ i + 1 # 1 /\ (i + 1) - 1 = i
    BY DEF n
  <2>2. O[i + 1] = O[(i + 1) - 1] + Field(files[(i + 1) - 1][2], "length")
    BY <1>4, <2>1, Zenon
  <2> QED
    BY <2>1, <2>2, Zenon
<1> QED
  BY <1>1, <1>5, <1>6

\* The path that the constructor puts together is the one the file was made with.
LEMMA PathsAgree ==
  ASSUME NEW f \in File
  PROVE  FullPath(<<"debian">>, PathNode(f.path)[2]) = PathOf(f)
<1> DEFINE p == f.path
           m == PathNode(p)[2]
<1>1. p \in Seq(Byte)
  BY DEF File
<1> HIDE DEF p
<1>2. DOMAIN m = DOMAIN p /\ \A i \in DOMAIN p : m[i][2] = <<p[i]>>
  BY DEF PathNode
<1> HIDE DEF m
<1>3. ASSUME NEW x
      PROVE  <<"/">> \o <<x>> = <<"/", x>>
  <2> DEFINE S == {"/", x}
             a == <<"/">>
             b == <<x>>
             c == <<"/", x>>
  <2>1. /\ a \in Seq(S) /\ b \in Seq(S) /\ c \in Seq(S)
        /\ Len(a) = 1 /\ Len(b) = 1 /\ Len(c) = 2
        /\ a[1] = "/" /\ b[1] = x /\ c[1] = "/" /\ c[2] = x
    OBVIOUS
  <2> HIDE DEF S, a, b, c
  <2> DEFINE ab == a \o b
  <2>2. /\ ab \in Seq(S) /\ Len(ab) = Len(a) + Len(b)
        /\ \A i \in 1 .. Len(a) + Len(b) : ab[i] = IF i <= Len(a) THEN a[i] ELSE b[i - Len(a)]
    BY <2>1, ConcatProperties
  <2> HIDE DEF ab
  <2>3. Len(ab) = Len(c) /\ \A i \in 1 .. Len(ab) : ab[i] = c[i]
    BY <2>1, <2>2
  <2>4. ab = c
    BY <2>1, <2>2, <2>3, SeqEqual
  <2> QED
    BY <2>4 DEF ab, a, b, c
<1>4. [i \in DOMAIN m |-> <<"/">> \o m[i][2]] = [i \in DOMAIN p |-> <<"/", p[i]>>]
  <2>1. \A i \in DOMAIN p : <<"/">> \o m[i][2] = <<"/", p[i]>>
    BY <1>2, <1>3
  <2> QED
    BY <1>2, <2>1
<1> QED
  BY <1>4 DEF FullPath, PathOf, p, m

\* The file of a torrent that is no folder has the torrent's name.
LEMMA NoPath ==
  ASSUME NEW f, f.path = << >>
  PROVE  PathOf(f) = <<"debian">>
<1>1. [i \in DOMAIN f.path |-> <<"/", f.path[i]>>] = << >>
  OBVIOUS
<1>2. FlattenSeq(<< >>) = << >>
  BY DEF FlattenSeq
<1>3. <<"debian">> \o << >> = <<"debian">>
  OBVIOUS
<1> QED
  BY <1>1, <1>2, <1>3 DEF PathOf

\* FilesAreContiguous of a list of files, a total length and a description.
Contiguous(list, total, t) ==
  /\ [i \in DOMAIN list |-> <<list[i].path, list[i].length>>]
       = [i \in DOMAIN t.files |-> <<PathOf(t.files[i]), t.files[i].length>>]
  /\ list[1].offset = 0
  /\ \A i \in DOMAIN list :
       list[i].offset + list[i].length =
         IF i = Len(list) THEN total ELSE list[i + 1].offset

\* What the constructor makes of a single file.
LEMMA OneFile ==
  ASSUME NEW t \in Torrents, NEW without, NEW info, InfoOf(t, without, info),
         without \notin Needed(t), t.files[1].path = << >>
  PROVE  Contiguous(FilesOf(info), TotalOf(info), t)
<1> DEFINE n == t.files[1].length
           r == [path |-> <<"debian">>, length |-> n, offset |-> 0]
           list == <<r>>
<1>1. /\ t.files \in Seq(File) /\ Len(t.files) = 1 /\ n \in Nat
  BY TorrentParts
<1>2. ContentsKey(t) = "length" /\ ContentsNode(t) = <<"int", n>>
  BY KeyOfContents
<1>3. /\ <<"length">> \in DOMAIN info /\ info[<<"length">>] = <<"int", n>>
      /\ info[<<"name">>] = <<"string", <<"debian">>>>
  BY <1>2 DEF InfoOf, Holds, Needed, NameNode
<1>4. FilesOf(info) = list /\ TotalOf(info) = n
  BY <1>3 DEF FilesOf, TotalOf, Field
<1>5. PathOf(t.files[1]) = <<"debian">>
  BY NoPath
<1>6. /\ list[1].path = PathOf(t.files[1]) /\ list[1].length = n /\ list[1].offset = 0
      /\ DOMAIN list = {1} /\ Len(list) = 1
  BY <1>5
<1>7. DOMAIN t.files = {1}
  BY <1>1
<1> HIDE DEF n, list
<1>8. \A i \in DOMAIN list : list[i].offset + list[i].length =
         IF i = Len(list) THEN n ELSE list[i + 1].offset
  BY <1>1, <1>6
<1>9. [i \in DOMAIN list |-> <<list[i].path, list[i].length>>]
       = [i \in DOMAIN t.files |-> <<PathOf(t.files[i]), t.files[i].length>>]
  BY <1>6, <1>7 DEF n
<1> QED
  BY <1>4, <1>6, <1>8, <1>9 DEF Contiguous

\* What the constructor makes of a folder.
LEMMA ManyFiles ==
  ASSUME NEW t \in Torrents, NEW without, NEW info, InfoOf(t, without, info),
         without \notin Needed(t), t.files[1].path # << >>
  PROVE  Contiguous(FilesOf(info), TotalOf(info), t)
<1> DEFINE nodes == FileNodes(t.files)
           off == GlobalOffset(nodes)
           n == Len(t.files)
           list == [i \in DOMAIN nodes |->
              [path   |-> FullPath(Field(info, "name"), Field(nodes[i][2], "path")),
               length |-> Field(nodes[i][2], "length"),
               offset |-> off[i]]]
<1>1. /\ t.files \in Seq(File) /\ n \in Nat \ {0} /\ DOMAIN t.files = 1 .. n
      /\ \A i \in 1 .. n : t.files[i] \in File /\ t.files[i].length \in Nat
  <2>1. t.files \in Seq(File) /\ n \in Nat \ {0}
    BY TorrentParts
  <2>2. \A i \in 1 .. n : t.files[i] \in File
    BY <2>1, ElementOfSeq
  <2>3. \A i \in 1 .. n : t.files[i].length \in Nat
    BY <2>2 DEF File
  <2>4. DOMAIN t.files = 1 .. n
    BY <2>1, LenProperties
  <2> QED
    BY <2>1, <2>2, <2>3, <2>4
<1>2. ContentsKey(t) = "files" /\ ContentsNode(t) = <<"list", nodes>>
  BY KeyOfContents
<1>3. /\ <<"length">> \notin DOMAIN info /\ info[<<"files">>] = <<"list", nodes>>
      /\ info[<<"name">>] = <<"string", <<"debian">>>>
  BY <1>2 DEF InfoOf, Holds, Needed, NameNode
<1>4. DOMAIN nodes = 1 .. n /\ Len(nodes) = n
  BY <1>1 DEF FileNodes
<1>5. FilesOf(info) = list /\ TotalOf(info) = off[n + 1]
  BY <1>3, <1>4 DEF FilesOf, TotalOf, Field
<1>6. ASSUME NEW i \in 1 .. n
      PROVE  /\ Field(nodes[i][2], "length") = t.files[i].length
             /\ FullPath(Field(info, "name"), Field(nodes[i][2], "path")) = PathOf(t.files[i])
  <2> DEFINE d == FileDict(t.files[i])
  <2>1. nodes[i][2] = d
    BY <1>1 DEF FileNodes
  <2>2. d[<<"path">>] = PathNode(t.files[i].path) /\ d[<<"length">>] = <<"int", t.files[i].length>>
    BY FileDictFacts
  <2> HIDE DEF d, nodes
  <2>3. Field(nodes[i][2], "length") = t.files[i].length
    BY <2>1, <2>2 DEF Field
  <2>4. Field(nodes[i][2], "path") = PathNode(t.files[i].path)[2]
    BY <2>1, <2>2 DEF Field
  <2>5. Field(info, "name") = <<"debian">>
    BY <1>3 DEF Field
  <2>6. FullPath(<<"debian">>, PathNode(t.files[i].path)[2]) = PathOf(t.files[i])
    BY <1>1, PathsAgree
  <2> QED
    BY <2>3, <2>4, <2>5, <2>6
<1>7. off[1] = 0 /\ \A i \in 1 .. n : off[i + 1] = off[i] + t.files[i].length
  <2>1. /\ off[1] = 0
        /\ \A i \in 1 .. n : off[i + 1] = off[i] + Field(nodes[i][2], "length")
    BY <1>1, <1>4, OffsetSteps
  <2> QED
    BY <1>6, <2>1
<1> HIDE DEF off, nodes
<1>8. /\ DOMAIN list = 1 .. n /\ Len(list) = n
      /\ \A i \in 1 .. n : /\ list[i].path = PathOf(t.files[i])
                           /\ list[i].length = t.files[i].length
                           /\ list[i].offset = off[i]
  BY <1>1, <1>4, <1>6
<1> HIDE DEF list
<1>9. list[1].offset = 0
  BY <1>1, <1>7, <1>8
<1>10. \A i \in DOMAIN list :
         list[i].offset + list[i].length =
           IF i = Len(list) THEN off[n + 1] ELSE list[i + 1].offset
  BY <1>1, <1>7, <1>8
<1>11. [i \in DOMAIN list |-> <<list[i].path, list[i].length>>]
         = [i \in DOMAIN t.files |-> <<PathOf(t.files[i]), t.files[i].length>>]
  BY <1>1, <1>8
<1> QED
  BY <1>5, <1>9, <1>10, <1>11 DEF Contiguous

-----------------------------------------------------------------------------
(* The hashes.                                                             *)

\* The hash that get_hash_for_piece cuts out is the one of the piece.
LEMMA HashOfPiece ==
  ASSUME NEW h \in Seq(Text), \A i \in 1 .. Len(h) : Len(h[i]) = HashSize,
         NEW p \in Nat, p < Len(h)
  PROVE  /\ p * HashSize + HashSize <= Len(FlattenSeq(h))
         /\ SubSeq(FlattenSeq(h), p * HashSize + 1, p * HashSize + HashSize) = h[p + 1]
<1>1. PICK f : /\ Flattens(f, h) /\ FlattenSeq(h) = f[Len(h)]
               /\ \A i \in 0 .. Len(h) : f[i] \in Seq(Byte)
  BY FlattenFacts DEF Text
<1>2. /\ Len(h) \in Nat /\ HashSize \in Nat \ {0}
      /\ \A i \in 1 .. Len(h) : h[i] \in Seq(Byte) /\ Len(h[i]) = HashSize
  <2>1. \A i \in 1 .. Len(h) : h[i] \in Text
    BY ElementOfSeq
  <2>2. HashSize \in Nat \ {0}
    BY TorrentAssumption, Zenon
  <2>3. Len(h) \in Nat
    BY LenProperties
  <2> QED
    BY <2>1, <2>2, <2>3 DEF Text
<1>3. ASSUME NEW k \in Nat, k + 1 <= Len(h)
      PROVE  /\ Len(f[k + 1]) = Len(f[k]) + HashSize /\ Len(f[k]) \in Nat
             /\ f[k] \in Seq(Byte) /\ f[k + 1] \in Seq(Byte)
             /\ \A j \in 1 .. Len(f[k]) : f[k + 1][j] = f[k][j]
             /\ \A j \in 1 .. HashSize : f[k + 1][Len(f[k]) + j] = h[k + 1][j]
  <2>1. /\ k + 1 \in 1 .. Len(h) /\ (k + 1) - 1 = k
        /\ k \in 0 .. Len(h) /\ k + 1 \in 0 .. Len(h)
    BY <1>2, <1>3
  <2>2. f[k + 1] = f[(k + 1) - 1] \o h[k + 1]
    BY <1>1, <2>1, Zenon DEF Flattens
  <2>3. f[k + 1] = f[k] \o h[k + 1]
    BY <2>1, <2>2, Zenon
  <2>4. f[k] \in Seq(Byte) /\ f[k + 1] \in Seq(Byte) /\ h[k + 1] \in Seq(Byte)
        /\ Len(h[k + 1]) = HashSize
    BY <1>1, <1>2, <2>1
  <2> DEFINE a == f[k]
             b == h[k + 1]
             c == f[k + 1]
  <2>5. a \in Seq(Byte) /\ b \in Seq(Byte) /\ c = a \o b /\ Len(b) = HashSize /\ Len(a) \in Nat
    BY <2>3, <2>4
  <2> HIDE DEF a, b, c
  <2>6. /\ Len(c) = Len(a) + Len(b)
        /\ \A i \in 1 .. Len(a) + Len(b) : c[i] = IF i <= Len(a) THEN a[i] ELSE b[i - Len(a)]
    BY <2>5, ConcatProperties
  <2>7. /\ Len(c) = Len(a) + HashSize
        /\ \A j \in 1 .. Len(a) : c[j] = a[j]
        /\ \A j \in 1 .. HashSize : c[Len(a) + j] = b[j]
    BY <1>2, <2>5, <2>6
  <2> QED
    BY <2>4, <2>5, <2>7 DEF a, b, c
<1>4. f[0] = << >> /\ Len(f[0]) = 0
  BY <1>1, EmptySeq DEF Flattens
<1>5. \A k \in Nat : k <= Len(h) => Len(f[k]) = k * HashSize
  <2> DEFINE S == {k \in Nat : k <= Len(h) => Len(f[k]) = k * HashSize}
  <2>1. 0 \in S
    BY <1>2, <1>4
  <2>2. ASSUME NEW k \in Nat, k \in S
        PROVE  k + 1 \in S
    <3>1. (k + 1) * HashSize = k * HashSize + HashSize
      BY <1>2
    <3>2. k + 1 <= Len(h) => Len(f[k + 1]) = Len(f[k]) + HashSize /\ k <= Len(h)
      BY <1>2, <1>3
    <3>3. k + 1 \in Nat
      OBVIOUS
    <3> QED
      BY <2>2, <3>1, <3>2, <3>3
  <2>3. Nat \subseteq S
    <3> HIDE DEF S
    <3> QED
      BY <2>1, <2>2, SetInduction
  <2> QED
    BY <2>3
<1>6. \A m \in Nat : p + 1 <= m /\ m <= Len(h) =>
        Len(f[p + 1]) <= Len(f[m]) /\ \A j \in 1 .. Len(f[p + 1]) : f[m][j] = f[p + 1][j]
  <2> DEFINE G(m) == Len(f[p + 1]) <= Len(f[m])
                     /\ \A j \in 1 .. Len(f[p + 1]) : f[m][j] = f[p + 1][j]
             S == {m \in Nat : p + 1 <= m /\ m <= Len(h) => G(m)}
  <2>0. Len(f[p + 1]) \in Nat
    BY <1>2, <1>3
  <2>1. 0 \in S
    OBVIOUS
  <2>2. ASSUME NEW m \in Nat, m \in S
        PROVE  m + 1 \in S
    <3>1. SUFFICES ASSUME p + 1 <= m + 1, m + 1 <= Len(h)
                   PROVE  G(m + 1)
      OBVIOUS
    <3>2. CASE p + 1 = m + 1
      BY <2>0, <3>2
    <3>3. CASE p + 1 # m + 1
      <4>1. G(m)
        BY <1>2, <2>2, <3>1, <3>3
      <4>2. /\ Len(f[m + 1]) = Len(f[m]) + HashSize /\ Len(f[m]) \in Nat
            /\ \A j \in 1 .. Len(f[m]) : f[m + 1][j] = f[m][j]
        BY <1>3, <3>1
      <4> QED
        BY <1>2, <2>0, <4>1, <4>2
    <3> QED
      BY <3>2, <3>3
  <2>3. Nat \subseteq S
    <3> HIDE DEF S
    <3> QED
      BY <2>1, <2>2, SetInduction
  <2> QED
    BY <2>3
<1> DEFINE s == FlattenSeq(h)
           a == p * HashSize
<1>7. /\ a \in Nat /\ Len(f[p]) = a /\ Len(f[p + 1]) = a + HashSize
      /\ \A j \in 1 .. HashSize : f[p + 1][a + j] = h[p + 1][j]
  <2>1. a \in Nat /\ Len(f[p]) = a
    BY <1>2, <1>5
  <2> HIDE DEF a
  <2>2. p + 1 <= Len(h)
    BY <1>2
  <2>3. /\ Len(f[p + 1]) = Len(f[p]) + HashSize
        /\ \A j \in 1 .. HashSize : f[p + 1][Len(f[p]) + j] = h[p + 1][j]
    BY <1>3, <2>2
  <2> QED
    BY <2>1, <2>3
<1>8. /\ a + HashSize <= Len(s) /\ \A j \in 1 .. a + HashSize : s[j] = f[p + 1][j]
  BY <1>1, <1>2, <1>6, <1>7
<1>9. s \in Seq(Byte) /\ h[p + 1] \in Seq(Byte) /\ Len(h[p + 1]) = HashSize /\ Len(s) \in Nat
  BY <1>1, <1>2
<1> HIDE DEF s, a
<1> DEFINE c == SubSeq(s, a + 1, a + HashSize)
<1>10. /\ c \in Seq(Byte) /\ Len(c) = HashSize
       /\ \A j \in 1 .. HashSize : c[j] = s[a + j]
  <2>1. \A i \in a + 1 .. a + HashSize : s[i] \in Byte
    BY <1>2, <1>7, <1>8, <1>9, ElementOfSeq
  <2>2. /\ c \in Seq(Byte)
        /\ Len(c) = IF a + 1 <= a + HashSize THEN (a + HashSize) - (a + 1) + 1 ELSE 0
        /\ \A i \in 1 .. (a + HashSize) - (a + 1) + 1 : c[i] = s[(a + 1) + i - 1]
    BY <1>2, <1>7, <2>1, SubSeqProperties
  <2> HIDE DEF c
  <2> QED
    BY <1>2, <1>7, <2>2
<1> HIDE DEF c
<1>11. \A j \in 1 .. HashSize : c[j] = h[p + 1][j]
  <2> SUFFICES ASSUME NEW j \in 1 .. HashSize
               PROVE  c[j] = h[p + 1][j]
    OBVIOUS
  <2>1. a + j \in 1 .. a + HashSize
    BY <1>2, <1>7
  <2> QED
    BY <1>7, <1>8, <1>10, <2>1
<1>12. c = h[p + 1]
  BY <1>9, <1>10, <1>11, SeqEqual
<1> QED
  BY <1>8, <1>12 DEF c, a, s

-----------------------------------------------------------------------------
(* The constructor, and what it leaves behind.                             *)

\* What is read of a file, as far as it goes.
LEMMA ReadOf ==
  ASSUME NEW t \in Torrents, NEW without, NEW n \in 0 .. Len(Bytes(t, without)),
         NEW b, b = SubSeq(Bytes(t, without), 1, n)
  PROVE  \/ b # Bytes(t, without) /\ Threw(parse_bencode(b, 1))
         \/ /\ b = Bytes(t, without) /\ ~ Threw(parse_bencode(b, 1))
            /\ \E d : /\ parse_bencode(b, 1).node = <<"dict", d>>
                      /\ RootOf(t, without, d)
<1> DEFINE s == Bytes(t, without)
<1>1. PICK d : Encodes(s, <<"dict", d>>) /\ RootOf(t, without, d)
  BY BytesEncode
<1> HIDE DEF s
<1>2. s \in Seq(Byte) /\ Len(s) \in Nat
  BY <1>1 DEF Encodes, Text
<1>3. CASE n = Len(s)
  <2>1. b = s
    BY <1>2, <1>3, SubSeqFull DEF s
  <2>2. parse_bencode(b, 1) = Parsed(<<"dict", d>>, Len(s) + 1)
    BY <1>1, <2>1, ReadWhole
  <2>3. Len(s) + 1 # 0
    BY <1>2
  <2>4. ~ Threw(parse_bencode(b, 1)) /\ parse_bencode(b, 1).node = <<"dict", d>>
    BY <2>2, <2>3, ParsedFields DEF Threw
  <2> QED
    BY <1>1, <2>1, <2>4 DEF s
<1>4. CASE n # Len(s)
  <2>1. n \in Nat /\ n < Len(s)
    BY <1>2, <1>4 DEF s
  <2>2. parse_bencode(b, 1) = Throws
    BY <1>1, <2>1, ReadCut DEF s
  <2>3. b # s
    <3>1. \A i \in 1 .. n : s[i] \in Byte
      BY <1>2, <2>1, ElementOfSeq
    <3>2. Len(b) = IF 1 <= n THEN n - 1 + 1 ELSE 0
      BY <2>1, <3>1, SubSeqProperties DEF s
    <3> QED
      BY <1>2, <2>1, <3>2
  <2> QED
    BY <2>2, <2>3, ThrowsIsNone DEF s
<1> QED
  BY <1>3, <1>4

\* Whole, of a buffer and a description.
WholeOf(b, t, without) ==
  /\ b = Bytes(t, without)
  /\ without = "announce-list" \/ b = Bytes(t, "none")

\* A file is taken exactly when it is whole.
LEMMA TakenIfWhole ==
  ASSUME NEW t \in Torrents, NEW without, NEW n \in 0 .. Len(Bytes(t, without)),
         NEW b, b = SubSeq(Bytes(t, without), 1, n)
  PROVE  /\ ~ Threw(parse_bencode(b, 1)) /\ IsTorrent(parse_bencode(b, 1).node)
              <=> WholeOf(b, t, without)
         /\ WholeOf(b, t, without) =>
              /\ without \notin Needed(t)
              /\ \E d : parse_bencode(b, 1).node = <<"dict", d>> /\ RootOf(t, without, d)
<1> DEFINE r == parse_bencode(b, 1)
<1>1. \/ b # Bytes(t, without) /\ Threw(r)
      \/ /\ b = Bytes(t, without) /\ ~ Threw(r)
         /\ \E d : r.node = <<"dict", d>> /\ RootOf(t, without, d)
  BY ReadOf
<1>2. "none" \notin Needed(t) /\ "announce-list" \notin Needed(t)
  BY DEF Needed, ContentsKey
<1>3. ASSUME b = Bytes(t, "none")
      PROVE  ~ Threw(r) /\ IsTorrent(r.node)
  <2> DEFINE m == Len(b)
  <2>1. PICK e : Encodes(Bytes(t, "none"), <<"dict", e>>)
    BY BytesEncode
  <2>2. b \in Seq(Byte) /\ m \in Nat
    BY <1>3, <2>1 DEF Encodes, Text
  <2>3. b = SubSeq(Bytes(t, "none"), 1, m) /\ m \in 0 .. Len(Bytes(t, "none"))
    BY <1>3, <2>2, SubSeqFull
  <2> HIDE DEF m
  <2>4. ~ Threw(r) /\ \E d : r.node = <<"dict", d>> /\ RootOf(t, "none", d)
    BY <1>3, <2>3, ReadOf
  <2> HIDE DEF r
  <2> QED
    BY <1>2, <2>4, RootIsTaken
<1> HIDE DEF r
<1>4. ASSUME ~ Threw(r), IsTorrent(r.node)
      PROVE  WholeOf(b, t, without)
  <2>1. b = Bytes(t, without) /\ \E d : r.node = <<"dict", d>> /\ RootOf(t, without, d)
    BY <1>1, <1>4
  <2>2. without \notin Needed(t)
    BY <1>4, <2>1, RootIsTaken
  <2> QED
    BY <2>1, <2>2, NothingLacks DEF WholeOf
<1>5. ASSUME WholeOf(b, t, without)
      PROVE  /\ ~ Threw(r) /\ IsTorrent(r.node) /\ without \notin Needed(t)
             /\ \E d : r.node = <<"dict", d>> /\ RootOf(t, without, d)
  <2>1. /\ ~ Threw(r) /\ \E d : r.node = <<"dict", d>> /\ RootOf(t, without, d)
    BY <1>1, <1>5 DEF WholeOf
  <2>2. CASE without = "announce-list"
    BY <1>2, <2>1, <2>2, RootIsTaken
  <2>3. CASE without # "announce-list"
    <3>1. IsTorrent(r.node)
      BY <1>3, <1>5, <2>3 DEF WholeOf
    <3> QED
      BY <2>1, <3>1, RootIsTaken
  <2> QED
    BY <2>2, <2>3
<1> QED
  BY <1>4, <1>5 DEF r

\* What the constructor gets of an entry that is there.
LEMMA FieldHeld ==
  ASSUME NEW without, NEW d, NEW k, NEW type, NEW value,
         Holds(without, d, k, <<type, value>>), k # without
  PROVE  Field(d, k) = value
<1> DEFINE n == <<type, value>>
<1>1. n[2] = value
  OBVIOUS
<1> HIDE DEF n
<1>2. d[<<k>>] = n
  BY DEF Holds, n
<1> QED
  BY <1>1, <1>2 DEF Field

-----------------------------------------------------------------------------
(* The invariant: once the file is loaded, every field is a function of    *)
(* the description.                                                        *)

FileInv ==
  /\ made \in Torrents
  /\ \E n \in 0 .. Len(Bytes(made, lacks)) : file_buffer = SubSeq(Bytes(made, lacks), 1, n)

LoadedInv ==
  /\ announce_url = made.announce
  /\ announce_list = IF lacks = "announce-list" THEN << >> ELSE FlattenSeq(made.tiers)
  /\ piece_length = made.piece_length
  /\ master_pieces_string = FlattenSeq(made.hashes)
  /\ Contiguous(file_list, total_length, made)

ExpectedInv ==
  /\ expected[1] \in 0 .. TotalPieces - 1
  /\ expected[2] = get_hash_for_piece(expected[1])

TorrentInv ==
  /\ FileInv
  /\ state \in {"new", "loaded", "threw", "unreadable"}
  /\ state = "loaded" => Whole /\ LoadedInv
  /\ state = "threw" => ~ Whole
  /\ expected # << >> => state = "loaded" /\ ExpectedInv

\* Nothing is loaded yet.
LEMMA TorrentInvInit == Init => TorrentInv
BY DEF Init, TorrentInv, FileInv

\* The constructor returns: the file is whole, and the fields are what it says.
LEMMA LoadKeepsInv == TorrentInv /\ Load => TorrentInv'
<1> SUFFICES ASSUME TorrentInv, Load
             PROVE  TorrentInv'
  OBVIOUS
<1> DEFINE r == parse_bencode(file_buffer, 1)
           meta == r.node[2]
           info == Field(meta, "info")
<1>1. /\ made \in Torrents
      /\ \E n \in 0 .. Len(Bytes(made, lacks)) : file_buffer = SubSeq(Bytes(made, lacks), 1, n)
  BY DEF TorrentInv, FileInv
<1>2. /\ ~ Threw(r) /\ IsTorrent(r.node)
      /\ announce_url' = Field(meta, "announce")
      /\ announce_list' = TrackersOf(meta)
      /\ piece_length' = Field(info, "piece length")
      /\ master_pieces_string' = Field(info, "pieces")
      /\ file_list' = FilesOf(info)
      /\ total_length' = TotalOf(info)
      /\ state = "new" /\ state' = "loaded"
      /\ made' = made /\ lacks' = lacks /\ file_buffer' = file_buffer /\ expected' = expected
  BY DEF Load, file
<1>3. /\ WholeOf(file_buffer, made, lacks) /\ lacks \notin Needed(made)
      /\ \E d : r.node = <<"dict", d>> /\ RootOf(made, lacks, d)
  BY <1>1, <1>2, TakenIfWhole
<1> HIDE DEF r
<1>4. RootOf(made, lacks, meta)
  BY <1>3
<1>5. PICK i : Holds(lacks, meta, "info", <<"dict", i>>) /\ InfoOf(made, lacks, i)
  BY <1>4 DEF RootOf
<1> HIDE DEF meta
<1>a. /\ "info" # lacks /\ "announce" # lacks
      /\ "piece length" # lacks /\ "pieces" # lacks
  BY <1>3 DEF Needed
<1>6. info = i /\ InfoOf(made, lacks, i)
  BY <1>5, <1>a, FieldHeld
<1>7. Field(meta, "announce") = made.announce
  BY <1>4, <1>a, FieldHeld DEF RootOf
<1>8. Field(i, "piece length") = made.piece_length
  BY <1>6, <1>a, FieldHeld DEF InfoOf, PieceLengthNode
<1>9. Field(i, "pieces") = FlattenSeq(made.hashes)
  BY <1>6, <1>a, FieldHeld DEF InfoOf, PiecesNode
<1>10. TrackersOf(meta) = IF lacks = "announce-list" THEN << >> ELSE FlattenSeq(made.tiers)
  BY <1>1, <1>4, TrackersAre
<1>11. Contiguous(FilesOf(i), TotalOf(i), made)
  BY <1>1, <1>3, <1>6, OneFile, ManyFiles
<1> HIDE DEF info
<1>12. LoadedInv'
  BY <1>2, <1>6, <1>7, <1>8, <1>9, <1>10, <1>11 DEF LoadedInv, Contiguous
<1>13. Whole'
  BY <1>2, <1>3 DEF Whole, WholeOf
<1>14. FileInv'
  BY <1>1, <1>2 DEF FileInv
<1>15. expected' = << >>
  BY <1>2 DEF TorrentInv
<1> QED
  BY <1>2, <1>12, <1>13, <1>14, <1>15 DEF TorrentInv

\* The constructor throws: the file is not whole.
LEMMA LoadThrowsKeepsInv == TorrentInv /\ LoadThrows => TorrentInv'
<1> SUFFICES ASSUME TorrentInv, LoadThrows
             PROVE  TorrentInv'
  OBVIOUS
<1> DEFINE r == parse_bencode(file_buffer, 1)
<1>1. /\ made \in Torrents
      /\ \E n \in 0 .. Len(Bytes(made, lacks)) : file_buffer = SubSeq(Bytes(made, lacks), 1, n)
  BY DEF TorrentInv, FileInv
<1>2. /\ Threw(r) \/ ~ IsTorrent(r.node)
      /\ state = "new" /\ state' = "threw"
      /\ made' = made /\ lacks' = lacks /\ file_buffer' = file_buffer /\ expected' = expected
  BY DEF LoadThrows, file
<1>3. ~ WholeOf(file_buffer, made, lacks)
  BY <1>1, <1>2, TakenIfWhole
<1>4. ~ Whole'
  BY <1>2, <1>3 DEF Whole, WholeOf
<1>5. FileInv'
  BY <1>1, <1>2 DEF FileInv
<1>6. expected' = << >>
  BY <1>2 DEF TorrentInv
<1> QED
  BY <1>2, <1>4, <1>5, <1>6 DEF TorrentInv

\* submit_piece looks up a hash of the torrent that is loaded.
LEMMA SubmitKeepsInv ==
  TorrentInv /\ state = "loaded" /\ (\E p \in 0 .. TotalPieces - 1 : SubmitPiece(p)) => TorrentInv'
<1> SUFFICES ASSUME TorrentInv, state = "loaded", NEW p \in 0 .. TotalPieces - 1, SubmitPiece(p)
             PROVE  TorrentInv'
  OBVIOUS
<1>1. /\ UNCHANGED <<made, lacks, file_buffer, state>>
      /\ UNCHANGED fields
      /\ expected' = <<p, get_hash_for_piece(p)>>
  BY DEF SubmitPiece, file
<1>2. TotalPieces' = TotalPieces /\ (\A q : get_hash_for_piece(q)' = get_hash_for_piece(q))
  BY <1>1 DEF TotalPieces, get_hash_for_piece, fields
<1>3. ExpectedInv'
  BY <1>1, <1>2 DEF ExpectedInv
<1>4. FileInv' /\ LoadedInv' /\ Whole'
  BY <1>1 DEF TorrentInv, FileInv, LoadedInv, Whole, fields, Contiguous
<1> QED
  BY <1>1, <1>3, <1>4 DEF TorrentInv

\* Every step keeps the invariant.
LEMMA TorrentInvNext == TorrentInv /\ [Next]_vars => TorrentInv'
<1> SUFFICES ASSUME TorrentInv, [Next]_vars
             PROVE  TorrentInv'
  OBVIOUS
<1>1. CASE Load
  BY <1>1, LoadKeepsInv
<1>2. CASE LoadThrows
  BY <1>2, LoadThrowsKeepsInv
<1>3. CASE ReadThrows
  <2>1. /\ state' = "unreadable" /\ state = "new"
        /\ UNCHANGED <<made, lacks, file_buffer, expected>>
    BY <1>3 DEF ReadThrows, file
  <2>2. FileInv'
    BY <2>1 DEF TorrentInv, FileInv
  <2> QED
    BY <2>1, <2>2 DEF TorrentInv
<1>4. CASE state = "loaded" /\ \E p \in 0 .. TotalPieces - 1 : SubmitPiece(p)
  BY <1>4, SubmitKeepsInv
<1>5. CASE UNCHANGED vars
  <2>1. UNCHANGED <<made, lacks, file_buffer, state, expected>> /\ UNCHANGED fields
    BY <1>5 DEF vars, file
  <2>2. FileInv' = FileInv /\ LoadedInv' = LoadedInv /\ Whole' = Whole /\ ExpectedInv' = ExpectedInv
    BY <2>1 DEF FileInv, LoadedInv, Whole, ExpectedInv, fields, Contiguous, TotalPieces,
                get_hash_for_piece
  <2> QED
    BY <2>1, <2>2 DEF TorrentInv
<1> QED
  BY <1>1, <1>2, <1>3, <1>4, <1>5 DEF Next

\* Every reachable state of a TorrentFile satisfies the invariant.
THEOREM TorrentInvariant == Spec => []TorrentInv
BY TorrentInvInit, TorrentInvNext, PTL DEF Spec

\* Of every torrent, whatever its trackers, files and hashes: the constructor takes in
\* the whole file, and throws at one that is cut off at any byte or lacks a field that is
\* needed (torrent.cpp:9-81 with bencode.cpp:15-124).
THEOREM LoadsWholeFiles == Spec => []WholeFilesAreLoaded
<1>1. TorrentInv => WholeFilesAreLoaded
  BY DEF TorrentInv, WholeFilesAreLoaded
<1> QED
  BY <1>1, TorrentInvariant, PTL

\* file_list has the paths and lengths of the torrent, without gap or overlap, up to
\* total_length (torrent.cpp:41-72).
THEOREM LoadsContiguousFiles == Spec => []FilesAreContiguous
<1>1. TorrentInv => FilesAreContiguous
  BY DEF TorrentInv, LoadedInv, Contiguous, FilesAreContiguous
<1> QED
  BY <1>1, TorrentInvariant, PTL

\* announce_list has every tracker of every tier, in the order of the file
\* (torrent.cpp:20-33).
THEOREM KeepsTrackers == Spec => []TrackersAreKept
<1>1. TorrentInv => TrackersAreKept
  BY DEF TorrentInv, LoadedInv, TrackersAreKept
<1> QED
  BY <1>1, TorrentInvariant, PTL

\* get_hash_for_piece gives submit_piece the hash of the piece it asks about
\* (torrent.cpp:87-95).
THEOREM HashesTheRightPiece == Spec => []EachPieceItsHash
<1>1. TorrentInv => EachPieceItsHash
  <2> SUFFICES ASSUME TorrentInv, expected # << >>, Len(made.hashes) = TotalPieces
               PROVE  expected[2] = made.hashes[expected[1] + 1]
    BY DEF EachPieceItsHash
  <2> DEFINE p == expected[1]
             h == made.hashes
  <2>1. /\ made \in Torrents /\ master_pieces_string = FlattenSeq(h)
        /\ p \in 0 .. TotalPieces - 1 /\ expected[2] = get_hash_for_piece(p)
    BY DEF TorrentInv, FileInv, LoadedInv, ExpectedInv
  <2>2. h \in Seq(Text) /\ \A i \in 1 .. Len(h) : Len(h[i]) = HashSize
    BY <2>1, TorrentParts
  <2>3. Len(h) \in Nat /\ p \in Nat /\ p < Len(h)
    BY <2>1, <2>2
  <2> HIDE DEF p, h
  <2>4. /\ p * HashSize + HashSize <= Len(FlattenSeq(h))
        /\ SubSeq(FlattenSeq(h), p * HashSize + 1, p * HashSize + HashSize) = h[p + 1]
    BY <2>2, <2>3, HashOfPiece
  <2>5. get_hash_for_piece(p) = h[p + 1]
    <3>1. HashSize \in Nat /\ FlattenSeq(h) \in Text
      BY <2>1, TorrentAssumption, TorrentParts DEF h
    <3>2. p * HashSize + HashSize \in Nat /\ Len(FlattenSeq(h)) \in Nat
      BY <2>3, <3>1 DEF Text
    <3>3. ~ (p * HashSize + HashSize > Len(FlattenSeq(h)))
      BY <2>4, <3>2
    <3> QED
      BY <2>1, <2>3, <2>4, <3>1, <3>2, <3>3 DEF get_hash_for_piece
  <2> QED
    BY <2>1, <2>5 DEF p, h
<1> QED
  BY <1>1, TorrentInvariant, PTL
=============================================================================
