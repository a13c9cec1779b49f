-------------------------- MODULE PeerClientProofs --------------------------
(***************************************************************************)
(* Theorems on PeerClient, for every length of torrent, piece and block,   *)
(* every window, every bitfield and any number of pending writes:          *)
(*   - every variable keeps its type, whatever the surroundings do;        *)
(*   - as long as the peer does not choke, every byte of the piece being   *)
(*     fetched is asked for, no byte is counted twice and the window is    *)
(*     kept full.                                                          *)
(* The requests that are out are seen as one sequence, `out': those with   *)
(* the peer and then those the socket has not taken.  Whatever a handler   *)
(* does, it takes one request out of it, or adds some at its end.          *)
(***************************************************************************)
EXTENDS PeerClient, NaturalSets, SequenceTheorems, TLAPS

-----------------------------------------------------------------------------
(* Sequences of requests.                                                  *)

\* t is s without its i-th element.
Without(t, s, i) ==
  /\ Len(t) = Len(s) - 1
  /\ \A j \in 1 .. Len(t) : t[j] = IF j < i THEN s[j] ELSE s[j + 1]

\* A sequence cut into what is before and what is behind its i-th element.
LEMMA CutOut ==
  ASSUME NEW S, NEW a \in Seq(S), NEW i \in 1 .. Len(a)
  PROVE  LET q == SubSeq(a, 1, i - 1) \o SubSeq(a, i + 1, Len(a))
         IN  /\ q \in Seq(S) /\ Len(q) = Len(a) - 1
             /\ \A k \in 1 .. Len(a) - 1 : q[k] = IF k < i THEN a[k] ELSE a[k + 1]
<1> DEFINE x == SubSeq(a, 1, i - 1)
           y == SubSeq(a, i + 1, Len(a))
           q == x \o y
<1>1. /\ Len(a) \in Nat /\ i \in Nat /\ i >= 1 /\ i <= Len(a)
      /\ \A k \in 1 .. Len(a) : a[k] \in S
  BY LenProperties
<1>2. /\ x \in Seq(S) /\ Len(x) = i - 1
      /\ \A k \in 1 .. i - 1 : x[k] = a[k]
  <2>1. \A k \in 1 .. i - 1 : a[k] \in S
    BY <1>1
  <2>2. /\ SubSeq(a, 1, i - 1) \in Seq(S)
        /\ Len(SubSeq(a, 1, i - 1)) = IF 1 <= i - 1 THEN i - 1 - 1 + 1 ELSE 0
        /\ \A k \in 1 .. i - 1 - 1 + 1 : SubSeq(a, 1, i - 1)[k] = a[1 + k - 1]
    BY <2>1, SubSeqProperties
  <2> QED
    BY <1>1, <2>2
<1>3. /\ y \in Seq(S) /\ Len(y) = Len(a) - i
      /\ \A k \in 1 .. Len(a) - i : y[k] = a[i + k]
  <2>1. \A k \in i + 1 .. Len(a) : a[k] \in S
    BY <1>1
  <2>2. /\ SubSeq(a, i + 1, Len(a)) \in Seq(S)
        /\ Len(SubSeq(a, i + 1, Len(a))) =
             IF i + 1 <= Len(a) THEN Len(a) - (i + 1) + 1 ELSE 0
        /\ \A k \in 1 .. Len(a) - (i + 1) + 1 :
             SubSeq(a, i + 1, Len(a))[k] = a[i + 1 + k - 1]
    BY <1>1, <2>1, SubSeqProperties
  <2> QED
    BY <1>1, <2>2
<1> HIDE DEF x, y
<1>4. /\ x \o y \in Seq(S) /\ Len(x \o y) = Len(x) + Len(y)
      /\ \A k \in 1 .. Len(x) + Len(y) :
           (x \o y)[k] = IF k <= Len(x) THEN x[k] ELSE y[k - Len(x)]
  BY <1>2, <1>3, ConcatProperties
<1> HIDE DEF q
<1>5. /\ q \in Seq(S) /\ Len(q) = Len(a) - 1
      /\ \A k \in 1 .. Len(a) - 1 : q[k] = IF k <= i - 1 THEN x[k] ELSE y[k - (i - 1)]
  BY <1>1, <1>2, <1>3, <1>4 DEF q
<1>6. ASSUME NEW k \in 1 .. Len(a) - 1
      PROVE  q[k] = IF k < i THEN a[k] ELSE a[k + 1]
  <2>1. CASE k < i
    BY <1>1, <1>2, <1>5, <2>1
  <2>2. CASE ~ (k < i)
    <3>1. /\ k - (i - 1) \in 1 .. Len(a) - i /\ i + (k - (i - 1)) = k + 1
          /\ ~ (k <= i - 1)
      BY <1>1, <2>2
    <3> QED
      BY <1>3, <1>5, <2>2, <3>1
  <2> QED
    BY <2>1, <2>2
<1> QED
  BY <1>5, <1>6 DEF q, x, y

\* An element that is taken out of the first of two sequences.
LEMMA TakenOut ==
  ASSUME NEW S, NEW a \in Seq(S), NEW l \in Seq(S), NEW i \in 1 .. Len(a),
         NEW q \in Seq(S), Len(q) = Len(a) - 1,
         \A k \in 1 .. Len(a) - 1 : q[k] = IF k < i THEN a[k] ELSE a[k + 1]
  PROVE  /\ q \o l \in Seq(S) /\ a \o l \in Seq(S)
         /\ (a \o l)[i] = a[i] /\ i \in 1 .. Len(a \o l)
         /\ Without(q \o l, a \o l, i)
<1>1. Len(a) \in Nat /\ Len(l) \in Nat /\ i \in Nat /\ i >= 1 /\ i <= Len(a)
  BY LenProperties
<1>2. /\ q \o l \in Seq(S) /\ Len(q \o l) = Len(q) + Len(l)
      /\ \A k \in 1 .. Len(q) + Len(l) :
           (q \o l)[k] = IF k <= Len(q) THEN q[k] ELSE l[k - Len(q)]
  BY ConcatProperties
<1>3. /\ a \o l \in Seq(S) /\ Len(a \o l) = Len(a) + Len(l)
      /\ \A k \in 1 .. Len(a) + Len(l) :
           (a \o l)[k] = IF k <= Len(a) THEN a[k] ELSE l[k - Len(a)]
  BY ConcatProperties
<1> DEFINE s == a \o l
           t == q \o l
<1> HIDE DEF s, t
<1>4. /\ Len(s) = Len(a) + Len(l)
      /\ \A k \in 1 .. Len(a) + Len(l) :
           s[k] = IF k <= Len(a) THEN a[k] ELSE l[k - Len(a)]
  BY <1>3 DEF s
<1>5. /\ Len(t) = Len(a) - 1 + Len(l)
      /\ \A k \in 1 .. Len(a) - 1 + Len(l) :
           t[k] = IF k <= Len(a) - 1 THEN q[k] ELSE l[k - (Len(a) - 1)]
  BY <1>2 DEF t
<1>6. ASSUME NEW j \in 1 .. Len(t)
      PROVE  t[j] = IF j < i THEN s[j] ELSE s[j + 1]
  <2>1. CASE j <= Len(a) - 1
    BY <1>1, <1>4, <1>5, <2>1
  <2>2. CASE ~ (j <= Len(a) - 1)
    <3>1. /\ j \in Nat /\ ~ (j < i) /\ ~ (j + 1 <= Len(a))
          /\ j + 1 \in 1 .. Len(a) + Len(l)
          /\ j - (Len(a) - 1) = j + 1 - Len(a)
          /\ j \in 1 .. Len(a) - 1 + Len(l)
      BY <1>1, <1>5, <2>2
    <3>2. t[j] = l[j - (Len(a) - 1)]
      BY <1>5, <2>2, <3>1
    <3>3. s[j + 1] = l[j + 1 - Len(a)]
      BY <1>4, <3>1
    <3> QED
      BY <3>1, <3>2, <3>3
  <2> QED
    BY <2>1, <2>2
<1>7. Len(t) = Len(s) - 1 /\ i \in 1 .. Len(s) /\ s[i] = a[i]
  BY <1>1, <1>4, <1>5
<1>8. Without(t, s, i)
  BY <1>6, <1>7 DEF Without
<1> QED
  BY <1>2, <1>3, <1>7, <1>8 DEF s, t

\* The first element that is taken out of the second of two sequences.
LEMMA HeadTakenOut ==
  ASSUME NEW S, NEW a \in Seq(S), NEW l \in Seq(S), l # << >>
  PROVE  /\ Tail(l) \in Seq(S) /\ Head(l) \in S
         /\ a \o Tail(l) \in Seq(S)
         /\ Len(a) + 1 \in 1 .. Len(a \o l)
         /\ Without(a \o Tail(l), a \o l, Len(a) + 1)
         /\ Append(a, Head(l)) \in Seq(S)
         /\ Append(a, Head(l)) \o Tail(l) = a \o l
<1> DEFINE t == Tail(l)
<1>1. /\ Len(a) \in Nat /\ Len(l) \in Nat
      /\ t \in Seq(S) /\ Head(l) \in S /\ Len(t) = Len(l) - 1
      /\ \A k \in 1 .. Len(t) : t[k] = l[k + 1]
  BY HeadTailProperties, LenProperties
<1> HIDE DEF t
<1>2. /\ a \o t \in Seq(S) /\ Len(a \o t) = Len(a) + Len(t)
      /\ \A k \in 1 .. Len(a) + Len(t) :
           (a \o t)[k] = IF k <= Len(a) THEN a[k] ELSE t[k - Len(a)]
  BY <1>1, ConcatProperties
<1>3. /\ a \o l \in Seq(S) /\ Len(a \o l) = Len(a) + Len(l)
      /\ \A k \in 1 .. Len(a) + Len(l) :
           (a \o l)[k] = IF k <= Len(a) THEN a[k] ELSE l[k - Len(a)]
  BY ConcatProperties
<1>4. Len(l) # 0
  BY EmptySeq
<1>5. ASSUME NEW j \in 1 .. Len(a \o t)
      PROVE  (a \o t)[j] = IF j < Len(a) + 1 THEN (a \o l)[j] ELSE (a \o l)[j + 1]
  <2>1. CASE j <= Len(a)
    BY <1>1, <1>2, <1>3, <2>1
  <2>2. CASE ~ (j <= Len(a))
    <3>1. /\ j \in Nat /\ ~ (j < Len(a) + 1) /\ ~ (j + 1 <= Len(a))
          /\ j + 1 \in 1 .. Len(a) + Len(l)
          /\ j - Len(a) \in 1 .. Len(t)
          /\ j - Len(a) + 1 = j + 1 - Len(a)
      BY <1>1, <1>2, <2>2
    <3> QED
      BY <1>1, <1>2, <1>3, <2>2, <3>1
  <2> QED
    BY <2>1, <2>2
<1>6. Without(a \o t, a \o l, Len(a) + 1)
  BY <1>1, <1>2, <1>3, <1>5 DEF Without
<1>7. /\ Append(a, Head(l)) \in Seq(S)
      /\ Append(a, Head(l)) \o t = a \o l
  <2>1. Append(a, Head(l)) \in Seq(S) /\ Append(a, Head(l)) = a \o << Head(l) >>
    BY <1>1, AppendProperties, AppendIsConcat
  <2>2. << Head(l) >> \in Seq(S)
    BY <1>1
  <2>3. << Head(l) >> \o t = l
    <3>1. /\ << Head(l) >> \o t \in Seq(S) /\ Len(<< Head(l) >> \o t) = 1 + Len(t)
          /\ \A k \in 1 .. 1 + Len(t) :
               (<< Head(l) >> \o t)[k] = IF k <= 1 THEN << Head(l) >>[k] ELSE t[k - 1]
      BY <1>1, <2>2, ConcatProperties
    <3>2. Head(l) = l[1]
      BY DEF Head
    <3>3. \A k \in 1 .. 1 + Len(t) : (<< Head(l) >> \o t)[k] = l[k]
      BY <1>1, <3>1, <3>2
    <3> DEFINE u == << Head(l) >> \o t
    <3> HIDE DEF u
    <3>4. u \in Seq(S) /\ Len(u) = Len(l) /\ \A k \in 1 .. Len(u) : u[k] = l[k]
      BY <1>1, <3>1, <3>3 DEF u
    <3>5. u = l
      BY <3>4, SeqEqual
    <3> QED
      BY <3>5 DEF u
  <2>4. (a \o << Head(l) >>) \o t = a \o (<< Head(l) >> \o t)
    BY <1>1, <2>2, ConcatAssociative
  <2> QED
    BY <2>1, <2>3, <2>4
<1> QED
  BY <1>1, <1>3, <1>4, <1>6, <1>7, <1>2 DEF t

-----------------------------------------------------------------------------
(* What request_next_block asks for.                                       *)

\* A piece is neither empty nor longer than piece_length.
LEMMA LengthTyped ==
  ASSUME NEW p \in Piece
  PROVE  LengthOf(p) \in 1 .. PieceLength
<1> DEFINE m == TotalLength % PieceLength
<1>1. TotalLength \in Nat /\ PieceLength \in Nat \ {0}
  BY PeerAssumption
<1>2. m \in 0 .. PieceLength - 1
  BY <1>1, Division
<1>3. (LengthOf(p) = m /\ m # 0) \/ LengthOf(p) = PieceLength
  BY DEF LengthOf
<1> HIDE DEF m
<1> QED
  BY <1>1, <1>2, <1>3

\* The blocks of the rest of a piece: all full but possibly the last.
LEMMA BlockCount ==
  ASSUME NEW from \in Nat, NEW len \in Nat, from < len
  PROVE  /\ BlocksFrom(from, len) \in Nat \ {0}
         /\ BlocksFrom(from, len) * MaxBlockLength - MaxBlockLength < len - from
         /\ len - from <= BlocksFrom(from, len) * MaxBlockLength
<1> DEFINE L == MaxBlockLength
           x == len - from + L - 1
           k == x \div L
           r == x % L
<1>1. L \in Nat \ {0} /\ x \in Nat /\ x >= L
  BY PeerAssumption
<1>2. k \in Nat /\ r \in 0 .. L - 1 /\ x = L * k + r
  <2> HIDE DEF x, L
  <2> QED
    BY <1>1, Division
<1>3. BlocksFrom(from, len) = k
  BY DEF BlocksFrom
<1>4. L * k = k * L
  <2> HIDE DEF k, L
  <2> QED
    BY <1>1, <1>2
<1>5. k # 0
  <2>1. ASSUME k = 0
        PROVE  FALSE
    <3>1. L * k = 0
      <4> HIDE DEF L, k
      <4> QED
        BY <1>1, <2>1
    <3> HIDE DEF L, k, r, x
    <3> QED
      BY <1>1, <1>2, <3>1
  <2> QED
    BY <2>1
<1>6. k * L - L < len - from /\ len - from <= k * L
  <2> DEFINE kL == k * L
  <2>1. x = kL + r
    BY <1>2, <1>4
  <2>2. kL \in Nat
    <3> HIDE DEF k, L
    <3> QED
      BY <1>1, <1>2
  <2>3. x = len - from + L - 1
    OBVIOUS
  <2> HIDE DEF kL, k, r, x, L
  <2> QED
    BY <1>1, <1>2, <2>1, <2>2, <2>3 DEF kL
<1> QED
  BY <1>2, <1>3, <1>5, <1>6

\* The bytes a request is for.
Covers(r, b) == r.offset <= b /\ b < r.offset + r.length

\* No two requests of a sequence are for one byte.
Apart(s) ==
  \A i, j \in 1 .. Len(s) : i # j =>
    \/ s[i].offset + s[i].length <= s[j].offset
    \/ s[j].offset + s[j].length <= s[i].offset

\* The requests of s, of full blocks except for one at most, add up to extent.
AllFull(s, extent) ==
  /\ \A i \in 1 .. Len(s) : s[i].length = MaxBlockLength
  /\ extent = Len(s) * MaxBlockLength

OneShort(s, k, extent) ==
  /\ s[k].length < MaxBlockLength
  /\ \A i \in 1 .. Len(s) : i # k => s[i].length = MaxBlockLength
  /\ extent = Len(s) * MaxBlockLength - MaxBlockLength + s[k].length

\* What Ask asks for, when something is left to ask for.
LEMMA AskBlocks ==
  ASSUME NEW p \in Piece, NEW len \in 0 .. PieceLength, NEW from \in 0 .. PieceLength,
         NEW n \in Nat \ {0}, from < len,
         NEW reqs, reqs = Ask(p, len, from, n).requests,
         NEW upto, upto = Ask(p, len, from, n).upto
  PROVE  /\ reqs \in Seq(Request) /\ upto \in from + 1 .. len
         /\ Len(reqs) \in 1 .. n /\ (Len(reqs) = n \/ upto = len)
         /\ \A i \in 1 .. Len(reqs) :
              /\ reqs[i].piece = p
              /\ from <= reqs[i].offset /\ reqs[i].offset + reqs[i].length <= upto
         /\ Apart(reqs)
         /\ \A b \in from .. upto - 1 : \E i \in 1 .. Len(reqs) : Covers(reqs[i], b)
         /\ \/ AllFull(reqs, upto - from)
            \/ upto = len /\ OneShort(reqs, Len(reqs), upto - from)
<1> DEFINE L    == MaxBlockLength
           N    == BlocksFrom(from, len)
           asks == Least(n, N)
           at(i) == from + (i - 1) * L
           R    == [i \in 1 .. asks |->
                     [piece |-> p, offset |-> at(i), length |-> Least(L, len - at(i))]]
<1>1. /\ L \in Nat \ {0} /\ PieceLength \in Nat /\ from \in Nat /\ len \in Nat
      /\ len <= PieceLength
  BY PeerAssumption
<1>2. /\ N \in Nat \ {0} /\ N * L \in Nat
      /\ N * L - L < len - from /\ len - from <= N * L
  <2>1. /\ N \in Nat \ {0}
        /\ N * L - L < len - from /\ len - from <= N * L
    BY <1>1, BlockCount
  <2>2. N * L \in Nat
    <3> HIDE DEF N, L
    <3> QED
      BY <1>1, <2>1
  <2> QED
    BY <2>1, <2>2
<1>3. asks \in Nat \ {0} /\ asks <= n /\ asks <= N /\ (asks = n \/ asks = N)
  BY <1>2 DEF Least
<1>4. reqs = R /\ upto = Least(len, from + asks * L)
  BY <1>3 DEF Ask
<1> DEFINE aL == asks * L
<1>5. aL \in Nat /\ aL <= N * L /\ (asks = N => aL = N * L)
  <2> HIDE DEF asks, N, L
  <2> QED
    BY <1>1, <1>2, <1>3, TimesMonotone
<1>6. ASSUME NEW i \in 1 .. asks
      PROVE  /\ (i - 1) * L \in Nat /\ i * L \in Nat /\ i * L = (i - 1) * L + L
             /\ i * L <= aL
  <2> HIDE DEF asks, L
  <2>1. i - 1 \in Nat /\ i \in Nat /\ i <= asks
    BY <1>3
  <2>2. (i - 1) * L \in Nat /\ i * L \in Nat
    BY <1>1, <2>1
  <2>3. i * L = (i - 1) * L + L
    BY <1>1, <2>1
  <2>4. i * L <= asks * L
    BY <1>1, <1>3, <2>1, TimesMonotone
  <2> QED
    BY <2>2, <2>3, <2>4
<1>7. ASSUME NEW i \in 1 .. asks
      PROVE  /\ at(i) \in Byte /\ from <= at(i) /\ at(i) < len
             /\ Least(L, len - at(i)) \in 1 .. L
             /\ at(i) + Least(L, len - at(i)) <= upto
             /\ Least(L, len - at(i)) <= L
  <2> DEFINE u == (i - 1) * L
  <2>1. u \in Nat /\ u + L <= aL
    BY <1>6
  <2> HIDE DEF u, aL, N
  <2>2. at(i) = from + u
    BY DEF u
  <2>3. upto = Least(len, from + aL)
    BY <1>4 DEF aL
  <2> HIDE DEF asks, at, L
  <2> QED
    BY <1>1, <1>2, <1>5, <2>1, <2>2, <2>3 DEF Least, Byte
<1>8. /\ \A i \in 1 .. asks : R[i] = [piece |-> p, offset |-> at(i),
                                      length |-> Least(L, len - at(i))]
      /\ R \in [1 .. asks -> Request]
  <2> HIDE DEF at, L, asks
  <2> QED
    BY <1>7 DEF Request, L
<1>9. R \in Seq(Request) /\ Len(R) = asks
  <2> HIDE DEF R, asks
  <2>1. R \in Seq(Request)
    BY <1>3, <1>8, SeqDef
  <2>2. Len(R) \in Nat /\ DOMAIN R = 1 .. Len(R) /\ DOMAIN R = 1 .. asks
    BY <1>8, <2>1, LenProperties
  <2> DEFINE m == Len(R)
  <2>3. m \in Nat /\ 1 .. m = 1 .. asks
    BY <2>2
  <2>4. asks \in 1 .. m /\ asks <= m
    <3>1. asks \in 1 .. asks
      BY <1>3
    <3> HIDE DEF m
    <3> QED
      BY <1>3, <2>3, <3>1
  <2>5. m \in 1 .. asks /\ m <= asks
    <3>1. m \in 1 .. m
      BY <1>3, <2>3, <2>4
    <3> HIDE DEF m
    <3> QED
      BY <1>3, <2>3, <3>1
  <2> HIDE DEF m
  <2>6. m = asks
    BY <1>3, <2>3, <2>4, <2>5
  <2> QED
    BY <2>1, <2>6 DEF m
<1>10. upto \in from + 1 .. len /\ (asks = n \/ upto = len)
  <2>1. upto = Least(len, from + aL)
    BY <1>4
  <2>2. aL >= L
    <3>1. 1 \in 1 .. asks
      BY <1>3
    <3>2. 0 * L \in Nat /\ 1 * L = L /\ 1 * L <= aL
      <4> HIDE DEF asks, L, aL
      <4> QED
        BY <1>1, <1>6, <3>1
    <3> QED
      BY <3>2
  <2> HIDE DEF aL, asks, N, L
  <2> QED
    BY <1>1, <1>2, <1>3, <1>5, <2>1, <2>2 DEF Least
<1>11. ASSUME NEW b \in from .. upto - 1
       PROVE  \E i \in 1 .. asks : Covers(R[i], b)
  <2> DEFINE x == b - from
             k == x \div L
             r == x % L
  <2>1. x \in Nat /\ x < aL /\ b < len /\ b = from + x /\ b \in Nat
    <3>1. upto = Least(len, from + aL)
      BY <1>4
    <3> HIDE DEF aL
    <3> QED
      BY <1>1, <1>5, <1>10, <3>1 DEF Least
  <2>2. k \in Nat /\ r \in 0 .. L - 1 /\ x = L * k + r
    <3> HIDE DEF x, L
    <3> QED
      BY <1>1, <2>1, Division
  <2> HIDE DEF x, k, r
  <2>3. k < asks
    <3>1. SUFFICES ASSUME asks <= k
                   PROVE  FALSE
      BY <1>3, <2>2
    <3>2. aL <= k * L /\ k * L = L * k /\ k * L \in Nat
      <4> HIDE DEF L, asks
      <4> QED
        BY <1>1, <1>3, <2>2, <3>1, TimesMonotone
    <3> DEFINE kL == k * L
    <3>3. aL <= kL /\ kL \in Nat /\ x = kL + r
      BY <2>2, <3>2
    <3> HIDE DEF kL, aL, L
    <3> QED
      BY <1>1, <1>5, <2>1, <2>2, <3>3
  <2> DEFINE i == k + 1
  <2>4. i \in 1 .. asks /\ i - 1 = k
    BY <1>3, <2>2, <2>3
  <2>5. at(i) = from + L * k
    <3>1. k * L = L * k
      <4> HIDE DEF L
      <4> QED
        BY <1>1, <2>2
    <3> QED
      BY <2>4, <3>1
  <2>6. at(i) \in Nat /\ at(i) <= b /\ b < at(i) + Least(L, len - at(i))
    <3> DEFINE Lk == L * k
    <3>1. at(i) = from + Lk /\ x = Lk + r
      BY <2>2, <2>5
    <3>2. at(i) \in Nat /\ Lk \in Nat
      <4>1. at(i) \in Nat
        BY <1>7, <2>4 DEF Byte
      <4>2. Lk \in Nat
        <5> HIDE DEF L
        <5> QED
          BY <1>1, <2>2
      <4> QED
        BY <4>1, <4>2
    <3> HIDE DEF Lk, i, at, L
    <3> QED
      BY <1>1, <2>1, <2>2, <3>1, <3>2 DEF Least
  <2>7. Covers(R[i], b)
    <3> HIDE DEF R, at, i, L
    <3> QED
      BY <1>8, <2>4, <2>6 DEF Covers
  <2> QED
    BY <2>4, <2>7
<1>12. ASSUME NEW i \in 1 .. asks, NEW j \in 1 .. asks, i < j
       PROVE  R[i].offset + R[i].length <= R[j].offset
  <2>1. i * L <= (j - 1) * L /\ i * L = (i - 1) * L + L
    <3>1. i \in Nat /\ j - 1 \in Nat /\ i <= j - 1
      BY <1>3, <1>12
    <3>2. i * L <= (j - 1) * L
      <4> HIDE DEF L
      <4> QED
        BY <1>1, <3>1, TimesMonotone
    <3> QED
      BY <1>6, <3>2
  <2> DEFINE u == (i - 1) * L
             v == (j - 1) * L
             d == Least(L, len - at(i))
  <2>2. u \in Nat /\ v \in Nat /\ u + L <= v /\ d \in Nat /\ d <= L
    BY <1>6, <1>7, <2>1
  <2>3. R[i].offset = from + u /\ R[i].length = d /\ R[j].offset = from + v
    <3>1. at(i) = from + u /\ at(j) = from + v
      OBVIOUS
    <3> HIDE DEF R, at, u, v
    <3> QED
      BY <1>8, <3>1
  <2> HIDE DEF u, v, d, R, L
  <2> QED
    BY <1>1, <2>2, <2>3
<1>13. Apart(R)
  <2> HIDE DEF R, asks
  <2> QED
    BY <1>3, <1>9, <1>12 DEF Apart
<1>14. \/ AllFull(R, upto - from)
       \/ upto = len /\ OneShort(R, Len(R), upto - from)
  <2>1. ASSUME NEW i \in 1 .. asks, i < asks \/ from + aL <= len
        PROVE  R[i].length = L
    <3> DEFINE u == (i - 1) * L
    <3>1. u + L + from <= len
      <4>1. CASE from + aL <= len
        <5>1. u \in Nat /\ u + L <= aL
          BY <1>6
        <5> HIDE DEF u, aL, L
        <5> QED
          BY <1>1, <1>5, <4>1, <5>1
      <4>2. CASE i < asks
        <5>1. /\ i + 1 \in 1 .. asks /\ i + 1 - 1 = i
          BY <1>3, <4>2
        <5>2. at(i + 1) < len /\ at(i + 1) = from + i * L
          BY <1>7, <5>1
        <5>3. i * L = u + L /\ u \in Nat
          BY <1>6
        <5> HIDE DEF u, L, at
        <5> QED
          BY <1>1, <5>2, <5>3
      <4> QED
        BY <2>1, <4>1, <4>2
    <3>2. R[i].length = Least(L, len - at(i)) /\ at(i) = from + u
      <4>1. at(i) = from + u
        OBVIOUS
      <4> HIDE DEF R, at, u
      <4> QED
        BY <1>8, <4>1
    <3>3. u \in Nat
      BY <1>6
    <3> HIDE DEF u, L, R, at
    <3> QED
      BY <1>1, <3>1, <3>2, <3>3 DEF Least
  <2>2. upto = Least(len, from + aL)
    BY <1>4
  <2>3. CASE from + aL <= len
    <3>1. upto - from = aL
      <4> HIDE DEF aL
      <4> QED
        BY <1>1, <1>5, <2>2, <2>3 DEF Least
    <3> HIDE DEF R, asks, aL
    <3> QED
      BY <1>9, <2>1, <2>3, <3>1 DEF AllFull, aL
  <2>4. CASE len < from + aL
    <3> DEFINE u == (asks - 1) * L
    <3>1. asks \in 1 .. asks /\ u \in Nat /\ aL = u + L
      BY <1>3, <1>6
    <3>2. R[asks].length = Least(L, len - at(asks)) /\ at(asks) = from + u
      <4>1. at(asks) = from + u
        OBVIOUS
      <4> HIDE DEF R, at, u, asks
      <4> QED
        BY <1>8, <3>1, <4>1
    <3>3. upto = len
      <4> HIDE DEF aL
      <4> QED
        BY <1>1, <1>5, <2>2, <2>4 DEF Least
    <3>4. R[asks].length < L /\ upto - from = aL - L + R[asks].length
      <4>1. at(asks) < len
        BY <1>7, <3>1
      <4> HIDE DEF u, aL, L, at, R, asks
      <4> QED
        BY <1>1, <1>5, <2>4, <3>1, <3>2, <3>3, <4>1 DEF Least
    <3>5. \A i \in 1 .. asks : i # asks => R[i].length = L
      <4>1. \A i \in 1 .. asks : i # asks => i < asks
        BY <1>3
      <4> HIDE DEF R, asks, L
      <4> QED
        BY <2>1, <4>1
    <3> HIDE DEF R, asks, aL
    <3> QED
      BY <1>9, <3>3, <3>4, <3>5 DEF OneShort, aL
  <2>5. aL \in Nat
    BY <1>5
  <2> HIDE DEF aL
  <2>6. from + aL <= len \/ len < from + aL
    BY <1>1, <2>5
  <2> QED
    BY <2>3, <2>4, <2>6
<1>15. \A i \in 1 .. asks : /\ R[i].piece = p /\ from <= R[i].offset
                            /\ R[i].offset + R[i].length <= upto
  <2> HIDE DEF R, at, L, asks
  <2> QED
    BY <1>7, <1>8
<1> HIDE DEF R, asks
<1> QED
  BY <1>3, <1>4, <1>9, <1>10, <1>11, <1>13, <1>14, <1>15

-----------------------------------------------------------------------------
(* What is known of the piece being fetched.                               *)

\* The bytes of a piece of length len that are in the buffer.
Arrived(len, buf) == {b \in 0 .. len - 1 : buf[b] # "zero"}

\* The fetch of p with the requests s out, dl bytes counted, br requested and the
\* buffer buf: dl counts what has arrived; what is out is for bytes of p that were
\* requested and have not arrived, each in one request; nothing else has arrived.
FetchFacts(s, p, len, dl, br, buf) ==
  /\ dl = Cardinality(Arrived(len, buf))
  /\ br <= len
  /\ \A i \in 1 .. Len(s) :
       /\ s[i].piece = p /\ s[i].offset + s[i].length <= br
       /\ \A b \in Byte : Covers(s[i], b) => buf[b] = "zero"
  /\ Apart(s)
  /\ \A b \in Byte : b >= br => buf[b] = "zero"

\* No byte of the piece was forgotten.
Covered(s, len, br, buf) ==
  \A b \in 0 .. len - 1 :
    \/ buf[b] # "zero" \/ b >= br \/ \E i \in 1 .. Len(s) : Covers(s[i], b)

\* The window is full unless the whole piece was requested, and what is out adds up
\* to what was requested and has not arrived.
Window(s, len, dl, br) ==
  /\ Len(s) <= MaxBlockWindow
  /\ Len(s) = MaxBlockWindow \/ br = len
  /\ \/ AllFull(s, br - dl)
     \/ br = len /\ \E k \in 1 .. Len(s) : OneShort(s, k, br - dl)

\* A request that is lost leaves the others as they were.
LEMMA Lost ==
  ASSUME NEW s, NEW t, NEW i \in 1 .. Len(s), Without(t, s, i), Len(s) \in Nat,
         NEW p, NEW len, NEW dl, NEW br, NEW buf, FetchFacts(s, p, len, dl, br, buf)
  PROVE  FetchFacts(t, p, len, dl, br, buf)
<1> DEFINE f(j) == IF j < i THEN j ELSE j + 1
<1>1. Len(t) = Len(s) - 1 /\ \A j \in 1 .. Len(t) : t[j] = s[f(j)]
  BY DEF Without
<1>2. /\ \A j \in 1 .. Len(t) : f(j) \in 1 .. Len(s)
      /\ \A j, k \in 1 .. Len(t) : j # k => f(j) # f(k)
  BY <1>1
<1> HIDE DEF f
<1> QED
  BY <1>1, <1>2 DEF FetchFacts, Apart

\* The buffer new is buf with the bytes of request r copied in.
Filled(new, buf, r, quality) ==
  \A b \in Byte : new[b] = IF Covers(r, b) THEN quality ELSE buf[b]

\* What the arrival of n bytes makes of the requests s, dl and buf: t, dl + n and new.
Arrival(s, t, p, len, dl, br, buf, new, n) ==
  /\ dl \in Nat /\ dl + n <= len
  /\ FetchFacts(t, p, len, dl + n, br, new)
  /\ Covered(s, len, br, buf) => Covered(t, len, br, new)
  /\ dl + n >= len => (Len(t) = 0 /\ br = len)

\* A block that arrives.
LEMMA Arrives ==
  ASSUME NEW s \in Seq(Request), NEW t, NEW i \in 1 .. Len(s), Without(t, s, i),
         NEW p, NEW len \in 0 .. PieceLength, NEW dl, NEW br \in 0 .. PieceLength,
         NEW buf \in [Byte -> {"zero", "good", "bad"}],
         FetchFacts(s, p, len, dl, br, buf),
         NEW quality \in {"good", "bad"},
         NEW new, Filled(new, buf, s[i], quality)
  PROVE  Arrival(s, t, p, len, dl, br, buf, new, s[i].length)
<1> DEFINE r == s[i]
           f(j) == IF j < i THEN j ELSE j + 1
<1>1. /\ Len(s) \in Nat /\ PieceLength \in Nat \ {0}
      /\ \A j \in 1 .. Len(s) : /\ s[j].offset \in Byte
                                /\ s[j].length \in 1 .. MaxBlockLength
                                /\ s[j].length \in Nat \ {0} /\ s[j].offset \in Nat
  <2>1. /\ Len(s) \in Nat
        /\ \A j \in 1 .. Len(s) : s[j] \in Request
    BY LenProperties
  <2>2. PieceLength \in Nat \ {0} /\ MaxBlockLength \in Nat \ {0}
    BY PeerAssumption
  <2>3. \A b \in Byte : b \in Nat
    BY <2>2 DEF Byte
  <2>4. \A x \in 1 .. MaxBlockLength : x \in Nat \ {0}
    BY <2>2
  <2>5. \A x \in Request : x.offset \in Byte /\ x.length \in 1 .. MaxBlockLength
    BY DEF Request
  <2> QED
    BY <2>1, <2>2, <2>3, <2>4, <2>5
<1>2. Len(t) = Len(s) - 1 /\ \A j \in 1 .. Len(t) : t[j] = s[f(j)]
  BY DEF Without
<1>3. /\ \A j \in 1 .. Len(t) : f(j) \in 1 .. Len(s) /\ f(j) # i
      /\ \A j, k \in 1 .. Len(t) : j # k => f(j) # f(k)
      /\ \A k \in 1 .. Len(s) : k # i => \E j \in 1 .. Len(t) : f(j) = k
  <2>1. /\ \A j \in 1 .. Len(t) : f(j) \in 1 .. Len(s) /\ f(j) # i
        /\ \A j, k \in 1 .. Len(t) : j # k => f(j) # f(k)
    BY <1>1, <1>2
  <2>2. ASSUME NEW k \in 1 .. Len(s), k # i
        PROVE  \E j \in 1 .. Len(t) : f(j) = k
    <3>1. CASE k < i
      <4>1. k \in 1 .. Len(t) /\ f(k) = k
        BY <1>1, <1>2, <3>1
      <4> QED
        BY <4>1
    <3>2. CASE k > i
      <4>1. k - 1 \in 1 .. Len(t) /\ f(k - 1) = k
        BY <1>1, <1>2, <3>2
      <4> QED
        BY <4>1
    <3> QED
      BY <2>2, <3>1, <3>2
  <2> QED
    BY <2>1, <2>2
<1> HIDE DEF f
<1>4. /\ r.offset \in Nat /\ r.length \in Nat \ {0} /\ r.offset + r.length <= br
      /\ br <= len /\ len <= PieceLength /\ br \in Nat /\ len \in Nat
      /\ \A b \in Byte : Covers(r, b) => buf[b] = "zero"
  BY <1>1 DEF FetchFacts
<1>5. \A b \in Byte : new[b] = IF Covers(r, b) THEN quality ELSE buf[b]
  BY DEF Filled
<1>6. \A b \in 0 .. len - 1 : b \in Byte
  BY <1>1, <1>4 DEF Byte
<1> HIDE DEF r
<1> DEFINE A == Arrived(len, buf)
           B == Arrived(len, new)
           I == r.offset .. r.offset + r.length - 1
<1>7. /\ B = A \cup I /\ A \cap I = {} /\ B \subseteq 0 .. len - 1
      /\ I \subseteq 0 .. len - 1
  <2>1. \A b \in 0 .. len - 1 : Covers(r, b) <=> b \in I
    BY <1>4 DEF Covers
  <2>2. I \subseteq 0 .. len - 1
    BY <1>4
  <2>3. \A b \in 0 .. len - 1 : b \in B <=> b \in A \/ b \in I
    BY <1>5, <1>6, <2>1 DEF Arrived
  <2>4. \A b \in I : buf[b] = "zero"
    BY <1>4, <1>6, <2>1, <2>2
  <2>5. A \subseteq 0 .. len - 1 /\ B \subseteq 0 .. len - 1
    BY DEF Arrived
  <2>6. \A b \in A : buf[b] # "zero"
    BY DEF Arrived
  <2> HIDE DEF A, B, I
  <2> QED
    BY <2>2, <2>3, <2>4, <2>5, <2>6
<1>8. /\ IsFiniteSet(A) /\ IsFiniteSet(B) /\ Cardinality(A) \in Nat
      /\ Cardinality(B) = Cardinality(A) + r.length
      /\ Cardinality(B) <= len
      /\ Cardinality(B) = len => B = 0 .. len - 1
  <2>1. /\ IsFiniteSet(0 .. len - 1) /\ Cardinality(0 .. len - 1) = len
        /\ IsFiniteSet(I) /\ Cardinality(I) = r.length
    <3>1. /\ 0 \in Int /\ len - 1 \in Int /\ r.offset \in Int
          /\ r.offset + r.length - 1 \in Int
      BY <1>4
    <3>2. /\ IsFiniteSet(0 .. len - 1)
          /\ Cardinality(0 .. len - 1) = IF 0 > len - 1 THEN 0 ELSE len - 1 - 0 + 1
      BY <3>1, FS_Interval
    <3> DEFINE e == r.offset + r.length - 1
    <3>3. /\ IsFiniteSet(r.offset .. e)
          /\ Cardinality(r.offset .. e) = IF r.offset > e THEN 0 ELSE e - r.offset + 1
      <4> HIDE DEF e
      <4> QED
        BY <3>1, FS_Interval DEF e
    <3> QED
      BY <1>4, <3>2, <3>3
  <2>2. A \subseteq 0 .. len - 1
    BY DEF Arrived
  <2> HIDE DEF A, B, I
  <2>3. IsFiniteSet(A) /\ IsFiniteSet(B)
    BY <1>7, <2>1, <2>2, FS_Subset
  <2>4. Cardinality(B) = Cardinality(A) + Cardinality(I)
    <3>1. Cardinality(A \cup I) =
            Cardinality(A) + Cardinality(I) - Cardinality(A \cap I)
      BY <2>1, <2>3, FS_Union
    <3>2. Cardinality(A \cap I) = 0
      BY <1>7, FS_EmptySet
    <3>3. Cardinality(A) \in Nat
      BY <2>3, FS_CardinalityType
    <3> QED
      BY <1>4, <1>7, <2>1, <3>1, <3>2, <3>3
  <2>5. /\ Cardinality(B) <= Cardinality(0 .. len - 1)
        /\ Cardinality(B) = Cardinality(0 .. len - 1) => B = 0 .. len - 1
    BY <1>7, <2>1, FS_Subset
  <2>6. Cardinality(A) \in Nat
    BY <2>3, FS_CardinalityType
  <2> QED
    BY <2>1, <2>3, <2>4, <2>5, <2>6
<1>9. dl = Cardinality(A)
  BY DEF FetchFacts
<1>10. FetchFacts(t, p, len, dl + r.length, br, new)
  <2>1. dl + r.length = Cardinality(Arrived(len, new))
    BY <1>8, <1>9
  <2>2. ASSUME NEW j \in 1 .. Len(t)
        PROVE  /\ t[j].piece = p /\ t[j].offset + t[j].length <= br
               /\ \A b \in Byte : Covers(t[j], b) => new[b] = "zero"
    <3>1. /\ t[j] = s[f(j)] /\ f(j) \in 1 .. Len(s) /\ f(j) # i
      BY <1>2, <1>3
    <3>2. \/ s[f(j)].offset + s[f(j)].length <= r.offset
          \/ r.offset + r.length <= s[f(j)].offset
      BY <3>1 DEF FetchFacts, Apart, r
    <3>3. \A b \in Byte : Covers(s[f(j)], b) => ~ Covers(r, b)
      <4> DEFINE o == s[f(j)].offset
                 n == s[f(j)].length
      <4>1. /\ o \in Nat /\ n \in Nat /\ (o + n <= r.offset \/ r.offset + r.length <= o)
            /\ \A b \in Byte : b \in Nat
        BY <1>1, <3>1, <3>2 DEF Byte
      <4>2. \A b \in Byte : Covers(s[f(j)], b) <=> (o <= b /\ b < o + n)
        BY DEF Covers
      <4>3. \A b \in Byte : Covers(r, b) <=> (r.offset <= b /\ b < r.offset + r.length)
        BY DEF Covers
      <4> HIDE DEF o, n
      <4> QED
        BY <1>4, <4>1, <4>2, <4>3
    <3> QED
      BY <1>5, <3>1, <3>3 DEF FetchFacts
  <2>3. Apart(t)
    <3>1. Apart(s)
      BY DEF FetchFacts
    <3> QED
      BY <1>2, <1>3, <3>1 DEF Apart
  <2>4. \A b \in Byte : b >= br => new[b] = "zero"
    <3>1. \A b \in Byte : b >= br => ~ Covers(r, b) /\ buf[b] = "zero"
      BY <1>4 DEF FetchFacts, Covers, Byte
    <3> QED
      BY <1>5, <3>1
  <2> QED
    BY <1>4, <2>1, <2>2, <2>3, <2>4 DEF FetchFacts
<1>11. ASSUME Covered(s, len, br, buf)
       PROVE  Covered(t, len, br, new)
  <2>1. SUFFICES ASSUME NEW b \in 0 .. len - 1, ~ (b >= br), new[b] = "zero"
                 PROVE  \E j \in 1 .. Len(t) : Covers(t[j], b)
    BY DEF Covered
  <2>2. buf[b] = "zero" /\ ~ Covers(r, b)
    BY <1>5, <1>6, <2>1
  <2>3. PICK k \in 1 .. Len(s) : Covers(s[k], b)
    BY <1>11, <2>1, <2>2 DEF Covered
  <2>4. k # i
    BY <2>2, <2>3 DEF r
  <2> QED
    BY <1>2, <1>3, <2>3, <2>4
<1>12. ASSUME dl + r.length >= len
       PROVE  Len(t) = 0 /\ br = len
  <2>1. B = 0 .. len - 1
    <3> HIDE DEF A, B
    <3> QED
      BY <1>4, <1>8, <1>9, <1>12
  <2>2. \A b \in 0 .. len - 1 : new[b] # "zero"
    BY <2>1 DEF Arrived
  <2>3. Len(t) = 0
    <3>1. SUFFICES ASSUME 1 \in 1 .. Len(t)
                   PROVE  FALSE
      BY <1>1, <1>2
    <3>2. t[1] = s[f(1)] /\ f(1) \in 1 .. Len(s)
      BY <1>2, <1>3, <3>1
    <3> DEFINE b == t[1].offset
    <3>3. b \in 0 .. len - 1 /\ Covers(t[1], b)
      BY <1>1, <1>4, <3>2 DEF Covers, FetchFacts
    <3>4. new[b] = "zero"
      BY <1>6, <1>10, <3>1, <3>3 DEF FetchFacts
    <3> QED
      BY <2>2, <3>3, <3>4
  <2>4. br = len
    <3>1. len >= 1 /\ len - 1 \in 0 .. len - 1
      BY <1>4
    <3>2. ~ (len - 1 >= br)
      BY <1>6, <1>10, <2>2, <3>1 DEF FetchFacts
    <3> QED
      BY <1>4, <3>1, <3>2
  <2> QED
    BY <2>3, <2>4
<1>13. dl \in Nat /\ dl + r.length <= len
  BY <1>4, <1>8, <1>9
<1> QED
  BY <1>10, <1>11, <1>12, <1>13 DEF r, Arrival

\* The requests reqs are for the bytes of p from `from' to upto, each byte in one of
\* them; there are n of them unless they reach the end.
NextBlocks(reqs, p, len, from, n, upto) ==
  /\ reqs \in Seq(Request) /\ Len(reqs) \in Nat
  /\ upto \in Nat /\ from <= upto /\ upto <= len
  /\ Len(reqs) <= n /\ (Len(reqs) = n \/ upto = len)
  /\ from = len => Len(reqs) = 0 /\ reqs = << >>
  /\ \A i \in 1 .. Len(reqs) :
       /\ reqs[i].piece = p
       /\ from <= reqs[i].offset /\ reqs[i].offset + reqs[i].length <= upto
  /\ Apart(reqs)
  /\ \A b \in from .. upto - 1 : \E i \in 1 .. Len(reqs) : Covers(reqs[i], b)
  /\ \/ AllFull(reqs, upto - from)
     \/ /\ upto = len /\ Len(reqs) \in 1 .. Len(reqs)
        /\ OneShort(reqs, Len(reqs), upto - from)

\* What n calls of request_next_block ask for, also when nothing is left.
LEMMA AskFacts ==
  ASSUME NEW p \in Piece, NEW len \in 0 .. PieceLength, NEW from \in 0 .. PieceLength,
         NEW n \in Nat \ {0}, from <= len,
         NEW reqs, reqs = Ask(p, len, from, n).requests,
         NEW upto, upto = Ask(p, len, from, n).upto
  PROVE  NextBlocks(reqs, p, len, from, n, upto)
<1>1. /\ PieceLength \in Nat /\ MaxBlockLength \in Nat /\ len \in Nat /\ from \in Nat
      /\ n \in Nat /\ n >= 1
  BY PeerAssumption
<1>2. CASE from < len
  <2>1. /\ reqs \in Seq(Request) /\ upto \in from + 1 .. len
        /\ Len(reqs) \in 1 .. n /\ (Len(reqs) = n \/ upto = len)
        /\ \A i \in 1 .. Len(reqs) :
             /\ reqs[i].piece = p
             /\ from <= reqs[i].offset /\ reqs[i].offset + reqs[i].length <= upto
        /\ Apart(reqs)
        /\ \A b \in from .. upto - 1 : \E i \in 1 .. Len(reqs) : Covers(reqs[i], b)
        /\ \/ AllFull(reqs, upto - from)
           \/ upto = len /\ OneShort(reqs, Len(reqs), upto - from)
    BY <1>2, AskBlocks
  <2>2. Len(reqs) \in Nat /\ Len(reqs) <= n /\ Len(reqs) \in 1 .. Len(reqs)
    BY <1>1, <2>1
  <2>3. upto \in Nat /\ from <= upto /\ upto <= len /\ from # len
    BY <1>1, <1>2, <2>1
  <2> QED
    BY <2>1, <2>2, <2>3 DEF NextBlocks
<1>3. CASE from = len
  <2>1. BlocksFrom(from, len) = 0
    BY <1>1, <1>3 DEF BlocksFrom
  <2>2. Least(n, 0) = 0
    BY <1>1 DEF Least
  <2>3. upto = from
    BY <2>1, <2>2 DEF Ask
  <2>4. reqs = << >>
    <3>1. reqs = [i \in 1 .. 0 |->
                    LET at == from + (i - 1) * MaxBlockLength
                    IN  [piece |-> p, offset |-> at,
                         length |-> Least(MaxBlockLength, len - at)]]
      BY <2>1, <2>2 DEF Ask
    <3> QED
      BY <3>1
  <2>5. reqs \in Seq(Request) /\ Len(reqs) = 0
    BY <2>4
  <2>6. upto - from = 0 /\ 0 * MaxBlockLength = 0
    BY <1>1, <2>3
  <2>7. AllFull(reqs, upto - from)
    BY <2>5, <2>6 DEF AllFull
  <2> QED
    BY <1>1, <1>3, <2>3, <2>4, <2>5, <2>7 DEF Apart, NextBlocks
<1> QED
  BY <1>1, <1>2, <1>3

\* The types of what is asked for, also where a choke left bytes_requested_ beyond
\* the end of a shorter piece.
LEMMA AskTyped ==
  ASSUME NEW p \in Piece, NEW len \in 0 .. PieceLength, NEW from \in 0 .. PieceLength,
         NEW n \in Nat \ {0}
  PROVE  /\ Ask(p, len, from, n).requests \in Seq(Request)
         /\ Ask(p, len, from, n).upto \in 0 .. PieceLength
<1>1. PieceLength \in Nat
  BY PeerAssumption
<1>2. CASE from <= len
  <2> DEFINE reqs == Ask(p, len, from, n).requests
             upto == Ask(p, len, from, n).upto
  <2>1. reqs = Ask(p, len, from, n).requests /\ upto = Ask(p, len, from, n).upto
    OBVIOUS
  <2> HIDE DEF reqs, upto
  <2>2. reqs \in Seq(Request) /\ upto \in Nat /\ upto <= len
    <3>1. NextBlocks(reqs, p, len, from, n, upto)
      BY <1>2, <2>1, AskFacts
    <3> QED
      BY <3>1 DEF NextBlocks
  <2> QED
    BY <1>1, <2>1, <2>2
<1>3. CASE from > len
  <2>1. BlocksFrom(from, len) = 0
    BY <1>1, <1>3 DEF BlocksFrom
  <2>2. Least(n, 0) = 0
    BY DEF Least
  <2>3. Ask(p, len, from, n).upto = from
    BY <2>1, <2>2 DEF Ask
  <2>4. Ask(p, len, from, n).requests =
          [i \in 1 .. 0 |-> LET at == from + (i - 1) * MaxBlockLength
                            IN  [piece |-> p, offset |-> at,
                                 length |-> Least(MaxBlockLength, len - at)]]
    BY <2>1, <2>2 DEF Ask
  <2>5. Ask(p, len, from, n).requests = << >>
    BY <2>4
  <2> QED
    BY <2>3, <2>5
<1> QED
  BY <1>1, <1>2, <1>3

\* More is asked for, of a piece that is being fetched: the requests go to the end
\* of what is out, or are lost with a closed socket.
LEMMA Extended ==
  ASSUME NEW t \in Seq(Request), NEW p \in Piece, NEW len \in 0 .. PieceLength,
         NEW br \in 0 .. PieceLength, NEW dl, NEW buf, NEW n \in Nat \ {0},
         FetchFacts(t, p, len, dl, br, buf),
         NEW reqs, NEW upto, NextBlocks(reqs, p, len, br, n, upto)
  PROVE  /\ t \o reqs \in Seq(Request)
         /\ FetchFacts(t \o reqs, p, len, dl, upto, buf)
         /\ FetchFacts(t, p, len, dl, upto, buf)
         /\ Covered(t, len, br, buf) => Covered(t \o reqs, len, upto, buf)
<1> DEFINE u == t \o reqs
<1>2. /\ reqs \in Seq(Request) /\ Len(reqs) \in Nat
      /\ upto \in Nat /\ br <= upto /\ upto <= len
      /\ \A i \in 1 .. Len(reqs) :
           /\ reqs[i].piece = p
           /\ br <= reqs[i].offset /\ reqs[i].offset + reqs[i].length <= upto
      /\ Apart(reqs)
      /\ \A b \in br .. upto - 1 : \E i \in 1 .. Len(reqs) : Covers(reqs[i], b)
  BY DEF NextBlocks
<1>3. /\ u \in Seq(Request) /\ Len(u) = Len(t) + Len(reqs) /\ Len(t) \in Nat
      /\ \A i \in 1 .. Len(t) + Len(reqs) :
           u[i] = IF i <= Len(t) THEN t[i] ELSE reqs[i - Len(t)]
  BY <1>2, ConcatProperties, LenProperties
<1>4. /\ \A i \in 1 .. Len(t) : t[i].offset \in Nat /\ t[i].length \in Nat
      /\ \A i \in 1 .. Len(reqs) : reqs[i].offset \in Nat /\ reqs[i].length \in Nat
      /\ br \in Nat /\ len \in Nat /\ \A b \in Byte : b \in Nat
      /\ PieceLength \in Nat
  <2>1. PieceLength \in Nat /\ MaxBlockLength \in Nat
    BY PeerAssumption
  <2>2. \A b \in Byte : b \in Nat
    BY <2>1 DEF Byte
  <2>3. \A r \in Request : r.offset \in Nat /\ r.length \in Nat
    BY <2>1, <2>2 DEF Request
  <2>4. /\ \A i \in 1 .. Len(t) : t[i] \in Request
        /\ \A i \in 1 .. Len(reqs) : reqs[i] \in Request
    BY <1>2, LenProperties
  <2>5. br \in Nat /\ len \in Nat
    BY <2>1
  <2> QED
    BY <2>1, <2>2, <2>3, <2>4, <2>5
<1> HIDE DEF u
<1>5. /\ \A i \in 1 .. Len(t) : i \in 1 .. Len(u) /\ u[i] = t[i]
      /\ \A i \in 1 .. Len(reqs) : Len(t) + i \in 1 .. Len(u) /\ u[Len(t) + i] = reqs[i]
  <2>1. ASSUME NEW i \in 1 .. Len(reqs)
        PROVE  Len(t) + i \in 1 .. Len(u) /\ u[Len(t) + i] = reqs[i]
    <3>1. /\ Len(t) + i \in 1 .. Len(t) + Len(reqs) /\ ~ (Len(t) + i <= Len(t))
          /\ Len(t) + i - Len(t) = i
      BY <1>2, <1>3
    <3> QED
      BY <1>3, <3>1
  <2> QED
    BY <1>2, <1>3, <2>1
<1>6. ASSUME NEW i \in 1 .. Len(u)
      PROVE  \/ i \in 1 .. Len(t) /\ u[i] = t[i]
             \/ i - Len(t) \in 1 .. Len(reqs) /\ u[i] = reqs[i - Len(t)]
  <2>1. i \in 1 .. Len(t) + Len(reqs) /\ Len(t) \in Nat /\ Len(reqs) \in Nat
    BY <1>2, <1>3
  <2>2. i \in 1 .. Len(t) \/ (~ (i <= Len(t)) /\ i - Len(t) \in 1 .. Len(reqs))
    BY <2>1
  <2> QED
    BY <1>3, <2>1, <2>2
<1>7. FetchFacts(t, p, len, dl, upto, buf)
  <2>1. \A i \in 1 .. Len(t) : t[i].offset + t[i].length <= upto
    BY <1>2, <1>4 DEF FetchFacts
  <2>2. \A b \in Byte : b >= upto => b >= br
    BY <1>2, <1>4
  <2> QED
    BY <1>2, <2>1, <2>2 DEF FetchFacts
<1>8. ASSUME NEW k \in 1 .. Len(reqs)
      PROVE  /\ \A b \in Byte : Covers(reqs[k], b) => b >= br
             /\ \A i \in 1 .. Len(t) : t[i].offset + t[i].length <= reqs[k].offset
  <2> DEFINE o == reqs[k].offset
  <2>1. o \in Nat /\ br <= o /\ br \in Nat /\ \A b \in Byte : b \in Nat
    BY <1>2, <1>4
  <2>2. \A b \in Byte : Covers(reqs[k], b) => o <= b
    BY DEF Covers
  <2>3. ASSUME NEW i \in 1 .. Len(t)
        PROVE  t[i].offset + t[i].length <= o
    <3> DEFINE e == t[i].offset + t[i].length
    <3>1. e \in Nat
      BY <1>4
    <3>2. e <= br
      BY DEF FetchFacts
    <3> HIDE DEF e, o
    <3>3. e <= o
      BY <2>1, <3>1, <3>2
    <3> QED
      BY <3>3 DEF e
  <2> HIDE DEF o
  <2>4. \A b \in Byte : Covers(reqs[k], b) => b >= br
    BY <2>1, <2>2
  <2> QED
    BY <2>3, <2>4 DEF o
<1>9. FetchFacts(u, p, len, dl, upto, buf)
  <2>1. ASSUME NEW i \in 1 .. Len(u)
        PROVE  /\ u[i].piece = p /\ u[i].offset + u[i].length <= upto
               /\ \A b \in Byte : Covers(u[i], b) => buf[b] = "zero"
    <3>1. CASE i \in 1 .. Len(t) /\ u[i] = t[i]
      BY <1>7, <3>1 DEF FetchFacts
    <3>2. CASE i - Len(t) \in 1 .. Len(reqs) /\ u[i] = reqs[i - Len(t)]
      <4>1. \A b \in Byte : Covers(u[i], b) => b >= br
        BY <1>8, <3>2
      <4> QED
        BY <1>2, <3>2, <4>1 DEF FetchFacts
    <3> QED
      BY <1>6, <3>1, <3>2
  <2>2. Apart(u)
    <3>1. SUFFICES ASSUME NEW i \in 1 .. Len(u), NEW j \in 1 .. Len(u), i # j
                   PROVE  \/ u[i].offset + u[i].length <= u[j].offset
                          \/ u[j].offset + u[j].length <= u[i].offset
      BY DEF Apart
    <3>2. /\ Apart(t)
          /\ \A k \in 1 .. Len(t) : t[k].offset + t[k].length <= br
      BY DEF FetchFacts
    <3>3. CASE i \in 1 .. Len(t) /\ u[i] = t[i] /\ j \in 1 .. Len(t) /\ u[j] = t[j]
      BY <3>1, <3>2, <3>3 DEF Apart
    <3>4. CASE /\ i \in 1 .. Len(t) /\ u[i] = t[i]
               /\ j - Len(t) \in 1 .. Len(reqs) /\ u[j] = reqs[j - Len(t)]
      BY <1>8, <3>4
    <3>5. CASE /\ j \in 1 .. Len(t) /\ u[j] = t[j]
               /\ i - Len(t) \in 1 .. Len(reqs) /\ u[i] = reqs[i - Len(t)]
      BY <1>8, <3>5
    <3>6. CASE /\ i - Len(t) \in 1 .. Len(reqs) /\ u[i] = reqs[i - Len(t)]
               /\ j - Len(t) \in 1 .. Len(reqs) /\ u[j] = reqs[j - Len(t)]
      <4>1. i - Len(t) # j - Len(t)
        BY <1>3, <3>1
      <4> QED
        BY <1>2, <3>6, <4>1 DEF Apart
    <3> QED
      BY <1>6, <3>3, <3>4, <3>5, <3>6
  <2> QED
    BY <1>7, <2>1, <2>2 DEF FetchFacts
<1>10. ASSUME Covered(t, len, br, buf)
       PROVE  Covered(u, len, upto, buf)
  <2>1. SUFFICES ASSUME NEW b \in 0 .. len - 1, buf[b] = "zero", ~ (b >= upto)
                 PROVE  \E i \in 1 .. Len(u) : Covers(u[i], b)
    BY DEF Covered
  <2>2. CASE b >= br
    <3>1. b \in br .. upto - 1
      BY <1>2, <1>4, <2>1, <2>2
    <3> QED
      BY <1>2, <1>5, <3>1
  <2>3. CASE ~ (b >= br)
    BY <1>5, <1>10, <2>1, <2>3 DEF Covered
  <2> QED
    BY <2>2, <2>3
<1> QED
  BY <1>3, <1>7, <1>9, <1>10 DEF u

\* The fetch of a piece begins with a window of requests and nothing arrived.
LEMMA Begun ==
  ASSUME NEW p \in Piece, NEW len, len = LengthOf(p),
         NEW reqs, reqs = Ask(p, len, 0, MaxBlockWindow).requests,
         NEW upto, upto = Ask(p, len, 0, MaxBlockWindow).upto
  PROVE  /\ reqs \in Seq(Request)
         /\ FetchFacts(reqs, p, len, 0, upto, Zeros)
         /\ FetchFacts(<< >>, p, len, 0, upto, Zeros)
         /\ Covered(reqs, len, upto, Zeros)
         /\ Window(reqs, len, 0, upto)
<1>1. /\ len \in 0 .. PieceLength /\ len \in Nat /\ 0 \in 0 .. PieceLength
      /\ MaxBlockWindow \in Nat \ {0}
  BY LengthTyped, PeerAssumption
<1>2. FetchFacts(<< >>, p, len, 0, 0, Zeros)
  <2>1. \A b \in Byte : Zeros[b] = "zero"
    BY DEF Zeros
  <2>2. \A b \in 0 .. len - 1 : b \in Byte
    BY <1>1, PeerAssumption DEF Byte
  <2>3. Arrived(len, Zeros) = {}
    BY <2>1, <2>2 DEF Arrived
  <2>4. 0 = Cardinality(Arrived(len, Zeros))
    BY <2>3, FS_EmptySet
  <2>5. Len(<< >>) = 0
    OBVIOUS
  <2> QED
    BY <1>1, <2>1, <2>4, <2>5 DEF FetchFacts, Apart
<1>3. Covered(<< >>, len, 0, Zeros)
  BY <1>1 DEF Covered
<1>4. /\ << >> \o reqs \in Seq(Request)
      /\ FetchFacts(<< >> \o reqs, p, len, 0, upto, Zeros)
      /\ FetchFacts(<< >>, p, len, 0, upto, Zeros)
      /\ Covered(<< >> \o reqs, len, upto, Zeros)
  <2>1. << >> \in Seq(Request)
    OBVIOUS
  <2>2. NextBlocks(reqs, p, len, 0, MaxBlockWindow, upto)
    BY <1>1, AskFacts
  <2> QED
    BY <1>1, <1>2, <1>3, <2>1, <2>2, Extended
<1>5. /\ reqs \in Seq(Request) /\ Len(reqs) \in Nat /\ upto \in Nat
      /\ Len(reqs) <= MaxBlockWindow /\ (Len(reqs) = MaxBlockWindow \/ upto = len)
      /\ \/ AllFull(reqs, upto - 0)
         \/ /\ upto = len /\ Len(reqs) \in 1 .. Len(reqs)
            /\ OneShort(reqs, Len(reqs), upto - 0)
  BY <1>1, AskFacts DEF NextBlocks
<1>6. << >> \o reqs = reqs
  BY <1>5, ConcatEmptySeq
<1>7. Window(reqs, len, 0, upto)
  BY <1>5 DEF Window
<1> QED
  BY <1>4, <1>5, <1>6, <1>7

\* A block arrives and the next is asked for: the window stays full.
LEMMA WindowKept ==
  ASSUME NEW s \in Seq(Request), NEW t \in Seq(Request), NEW i \in 1 .. Len(s),
         Without(t, s, i),
         NEW p, NEW len \in Nat, NEW br \in Nat, NEW dl \in Nat, Window(s, len, dl, br),
         NEW reqs, NEW upto, NextBlocks(reqs, p, len, br, 1, upto)
  PROVE  Window(t \o reqs, len, dl + s[i].length, upto)
<1> DEFINE L == MaxBlockLength
           W == MaxBlockWindow
           M == Len(s)
           u == t \o reqs
           d == s[i].length
           f(j) == IF j < i THEN j ELSE j + 1
           ML == M * L
<1>1. /\ L \in Nat /\ W \in Nat /\ W >= 1 /\ M \in Nat /\ M >= 1 /\ i \in Nat
      /\ Len(t) = M - 1 /\ Len(t) \in Nat
      /\ ML \in Nat
  <2>1. L \in Nat /\ W \in Nat /\ W >= 1
    BY PeerAssumption
  <2>2. M \in Nat /\ Len(t) \in Nat
    BY LenProperties
  <2>3. ML \in Nat
    <3> HIDE DEF M, L
    <3> QED
      BY <2>1, <2>2
  <2> QED
    BY <2>1, <2>2, <2>3 DEF Without
<1>2. \A j \in 1 .. Len(s) : s[j].length \in Nat
  <2>1. \A j \in 1 .. Len(s) : s[j] \in Request
    BY LenProperties
  <2> QED
    BY <2>1, PeerAssumption DEF Request
<1>3. /\ reqs \in Seq(Request) /\ Len(reqs) \in Nat
      /\ upto \in Nat /\ br <= upto /\ upto <= len
      /\ Len(reqs) <= 1 /\ (Len(reqs) = 1 \/ upto = len)
      /\ br = len => Len(reqs) = 0 /\ reqs = << >>
      /\ \/ AllFull(reqs, upto - br)
         \/ /\ upto = len /\ Len(reqs) \in 1 .. Len(reqs)
            /\ OneShort(reqs, Len(reqs), upto - br)
  BY DEF NextBlocks
<1>4. /\ \A j \in 1 .. Len(t) : t[j] = s[f(j)] /\ f(j) \in 1 .. Len(s) /\ f(j) # i
      /\ \A k \in 1 .. Len(s) : k # i => \E j \in 1 .. Len(t) : f(j) = k
      /\ \A j, k \in 1 .. Len(t) : j # k => f(j) # f(k)
  <2>1. /\ \A j \in 1 .. Len(t) : t[j] = s[f(j)] /\ f(j) \in 1 .. Len(s) /\ f(j) # i
        /\ \A j, k \in 1 .. Len(t) : j # k => f(j) # f(k)
    BY <1>1 DEF Without
  <2>2. ASSUME NEW k \in 1 .. Len(s), k # i
        PROVE  \E j \in 1 .. Len(t) : f(j) = k
    <3> HIDE DEF ML
    <3>1. CASE k < i
      <4>1. k \in 1 .. Len(t) /\ f(k) = k
        BY <1>1, <3>1
      <4> QED
        BY <4>1
    <3>2. CASE k > i
      <4>1. k - 1 \in 1 .. Len(t) /\ f(k - 1) = k
        BY <1>1, <3>2
      <4> QED
        BY <4>1
    <3> QED
      BY <1>1, <2>2, <3>1, <3>2
  <2> QED
    BY <2>1, <2>2
<1> HIDE DEF f
<1>5. Len(t) * L = ML - L
  <2> DEFINE m == Len(t)
  <2>1. m = M - 1 /\ M \in Nat /\ M >= 1
    BY <1>1
  <2> HIDE DEF m, M, L
  <2>2. m * L = M * L - L
    BY <1>1, <2>1
  <2> QED
    BY <2>2 DEF m
<1>6. M <= W /\ (M = W \/ br = len)
  BY DEF Window
<1>7. CASE AllFull(s, br - dl)
  <2>1. d = L /\ br - dl = ML /\ \A k \in 1 .. Len(s) : s[k].length = L
    BY <1>7 DEF AllFull
  <2>2. \A j \in 1 .. Len(t) : t[j].length = L
    BY <1>4, <2>1
  <2>3. br - (dl + d) = ML - L
    <3> HIDE DEF ML, L, d
    <3> QED
      BY <1>1, <2>1
  <2>4. CASE Len(reqs) = 0
    <3>1. reqs = << >> /\ u = t
      BY <1>3, <2>4, EmptySeq, ConcatEmptySeq
    <3>2. upto = br /\ br = len
      <4>1. ~ OneShort(reqs, Len(reqs), upto - br) \/ ~ (Len(reqs) \in 1 .. Len(reqs))
        BY <2>4
      <4>2. upto - br = Len(reqs) * L
        BY <1>3, <2>4, <4>1 DEF AllFull
      <4>3. upto - br = 0
        BY <1>1, <2>4, <4>2
      <4> QED
        BY <1>3, <2>4, <4>3
    <3>3. AllFull(u, upto - (dl + d))
      BY <1>5, <2>2, <2>3, <3>1, <3>2 DEF AllFull
    <3>4. Len(u) <= W
      BY <1>1, <1>6, <3>1
    <3> QED
      BY <3>2, <3>3, <3>4 DEF Window
  <2>5. CASE Len(reqs) = 1
    <3>1. /\ u \in Seq(Request) /\ Len(u) = M
          /\ \A j \in 1 .. Len(t) : u[j] = t[j]
          /\ u[M] = reqs[1]
      <4>1. /\ u \in Seq(Request) /\ Len(u) = Len(t) + Len(reqs)
            /\ \A j \in 1 .. Len(t) + Len(reqs) :
                 u[j] = IF j <= Len(t) THEN t[j] ELSE reqs[j - Len(t)]
        BY <1>3, ConcatProperties
      <4> HIDE DEF u, M, ML
      <4>2. Len(t) + Len(reqs) = M /\ M - Len(t) = 1 /\ ~ (M <= Len(t)) /\ M \in 1 .. M
        BY <1>1, <2>5
      <4>3. u[M] = reqs[1] /\ Len(u) = M
        BY <4>1, <4>2
      <4>4. \A j \in 1 .. Len(t) : j \in 1 .. Len(t) + Len(reqs) /\ j <= Len(t)
        BY <1>1, <2>5
      <4> QED
        BY <4>1, <4>3, <4>4
    <3>2. br # len /\ M = W
      BY <1>3, <1>6, <2>5
    <3>3. \A j \in 1 .. Len(u) : j # M => u[j].length = L
      <4>1. \A j \in 1 .. M : j # M => j \in 1 .. Len(t)
        BY <1>1
      <4> HIDE DEF u, M
      <4> QED
        BY <2>2, <3>1, <4>1
    <3>4. CASE AllFull(reqs, upto - br)
      <4>1. reqs[1].length = L /\ upto - br = 1 * L
        BY <2>5, <3>4 DEF AllFull
      <4>2. upto - (dl + d) = ML
        <5>1. 1 * L = L
          BY <1>1
        <5>2. d \in Nat
          BY <1>1, <2>1
        <5> HIDE DEF ML, L, d
        <5> QED
          BY <1>1, <1>3, <2>3, <4>1, <5>1, <5>2
      <4>3. AllFull(u, upto - (dl + d))
        <5> HIDE DEF u
        <5> QED
          BY <3>1, <3>3, <4>1, <4>2 DEF AllFull
      <4> QED
        BY <1>1, <3>1, <3>2, <4>3, <1>6 DEF Window
    <3>5. CASE upto = len /\ OneShort(reqs, Len(reqs), upto - br)
      <4>1. reqs[1].length < L /\ upto - br = 1 * L - L + reqs[1].length
        BY <2>5, <3>5 DEF OneShort
      <4>2. upto - (dl + d) = ML - L + reqs[1].length
        <5> DEFINE h == reqs[1].length
        <5>1. 1 * L = L /\ h \in Nat
          <6>1. reqs[1] \in Request
            <7>1. 1 \in 1 .. Len(reqs) /\ reqs \in Seq(Request)
              BY <1>3, <2>5
            <7> QED
              BY <7>1, ElementOfSeq
          <6> QED
            BY <1>1, <6>1 DEF Request
        <5>2. d \in Nat
          BY <1>1, <2>1
        <5> HIDE DEF ML, L, d, h
        <5>3. upto - br = h
          BY <1>1, <4>1, <5>1 DEF h
        <5>4. upto - (dl + d) = ML - L + h
          BY <1>1, <1>3, <2>3, <5>1, <5>2, <5>3
        <5> QED
          BY <5>4 DEF h
      <4>3. OneShort(u, M, upto - (dl + d)) /\ M \in 1 .. Len(u)
        <5>1. M \in 1 .. Len(u)
          BY <1>1, <3>1
        <5> HIDE DEF u
        <5> QED
          BY <3>1, <3>3, <4>1, <4>2, <5>1 DEF OneShort
      <4> QED
        BY <1>1, <1>6, <3>1, <3>2, <3>5, <4>3 DEF Window
    <3> QED
      BY <1>3, <3>4, <3>5
  <2>6. Len(reqs) = 0 \/ Len(reqs) = 1
    <3> DEFINE m == Len(reqs)
    <3>1. m \in Nat /\ m <= 1
      BY <1>3
    <3> HIDE DEF m
    <3>2. m = 0 \/ m = 1
      BY <3>1
    <3> QED
      BY <3>2 DEF m
  <2> QED
    BY <2>4, <2>5, <2>6
<1>8. CASE br = len /\ \E k \in 1 .. Len(s) : OneShort(s, k, br - dl)
  <2>1. PICK k \in 1 .. Len(s) : OneShort(s, k, br - dl)
    BY <1>8
  <2>2. /\ s[k].length < L /\ br - dl = ML - L + s[k].length
        /\ \A j \in 1 .. Len(s) : k # j => s[j].length = L
    BY <2>1 DEF OneShort
  <2>3. reqs = << >> /\ u = t /\ upto = br
    BY <1>3, <1>8, EmptySeq, ConcatEmptySeq
  <2>4. CASE k = i
    <3>1. upto - (dl + d) = ML - L
      <4>1. d \in Nat /\ br - dl = ML - L + d
        BY <1>2, <2>2, <2>4
      <4> HIDE DEF ML, L, d
      <4> QED
        BY <1>1, <2>3, <4>1
    <3>2. \A j \in 1 .. Len(t) : t[j].length = L
      BY <1>4, <2>2, <2>4
    <3>3. AllFull(u, upto - (dl + d))
      BY <1>5, <2>3, <3>1, <3>2 DEF AllFull
    <3> QED
      BY <1>1, <1>3, <1>6, <1>8, <2>3, <3>3 DEF Window
  <2>5. CASE k # i
    <3>1. PICK j \in 1 .. Len(t) : f(j) = k
      BY <1>4, <2>5
    <3>2. t[j] = s[k] /\ d = L
      BY <1>4, <2>2, <2>5, <3>1
    <3>3. \A h \in 1 .. Len(t) : j # h => t[h].length = L
      BY <1>4, <2>2, <3>1
    <3>4. upto - (dl + d) = Len(t) * L - L + t[j].length
      <4> DEFINE h == s[k].length
      <4>1. h \in Nat /\ br - dl = ML - L + h
        BY <1>2, <2>2
      <4> HIDE DEF h, ML, L, d
      <4>2. upto - (dl + d) = ML - L - L + h
        BY <1>1, <2>3, <3>2, <4>1
      <4>3. t[j].length = h
        BY <3>2 DEF h
      <4> QED
        BY <1>5, <4>2, <4>3
    <3>5. OneShort(u, j, upto - (dl + d)) /\ j \in 1 .. Len(u)
      BY <2>2, <2>3, <3>2, <3>3, <3>4 DEF OneShort
    <3> QED
      BY <1>1, <1>6, <1>8, <2>3, <3>5 DEF Window
  <2> QED
    BY <2>4, <2>5
<1> QED
  BY <1>7, <1>8 DEF Window

\* With the window full, the number of requests out is that of the blocks missing.
LEMMA WindowCount ==
  ASSUME NEW s \in Seq(Request), NEW len \in Nat, NEW br \in Nat, NEW dl \in Nat,
         br <= len, Window(s, len, dl, br)
  PROVE  Len(s) = Least(MaxBlockWindow, BlocksFrom(dl, len))
<1> DEFINE L == MaxBlockLength
           W == MaxBlockWindow
           M == Len(s)
           N == BlocksFrom(dl, len)
           ML == M * L
           NL == N * L
<1>1. /\ L \in Nat /\ L >= 1 /\ W \in Nat /\ W >= 1 /\ M \in Nat
      /\ M <= W /\ (M = W \/ br = len)
  BY PeerAssumption, LenProperties DEF Window
<1>2. \A k \in 1 .. Len(s) : s[k].length \in Nat /\ s[k].length >= 1
  <2>1. \A j \in 1 .. Len(s) : s[j] \in Request
    BY LenProperties
  <2> QED
    BY <2>1, PeerAssumption DEF Request
<1>3. ML \in Nat
  <2> HIDE DEF M, L
  <2> QED
    BY <1>1
<1>4. \/ br - dl = ML
      \/ br = len /\ M >= 1 /\ br - dl < ML /\ br - dl > ML - L
  <2>1. CASE AllFull(s, br - dl)
    BY <2>1 DEF AllFull
  <2>2. CASE br = len /\ \E k \in 1 .. Len(s) : OneShort(s, k, br - dl)
    <3>1. PICK k \in 1 .. Len(s) : OneShort(s, k, br - dl)
      BY <2>2
    <3> DEFINE h == s[k].length
    <3>2. h < L /\ br - dl = ML - L + h
      BY <3>1 DEF OneShort
    <3>3. M >= 1 /\ h \in Nat /\ h >= 1
      BY <1>1, <1>2
    <3> HIDE DEF h, ML, L, M
    <3> QED
      BY <1>1, <1>3, <2>2, <3>2, <3>3
  <2> QED
    BY <2>1, <2>2 DEF Window
<1>5. CASE dl < len
  <2>1. N \in Nat \ {0} /\ NL - L < len - dl /\ len - dl <= NL
    BY <1>5, BlockCount
  <2>2. NL \in Nat
    <3> HIDE DEF N, L
    <3> QED
      BY <1>1, <2>1
  <2>3. ASSUME N < M
        PROVE  FALSE
    <3>1. NL + L <= ML
      <4>1. N + 1 <= M /\ N + 1 \in Nat
        BY <1>1, <2>1, <2>3
      <4> HIDE DEF M, N, L
      <4>2. (N + 1) * L <= M * L
        BY <1>1, <4>1, TimesMonotone
      <4>3. (N + 1) * L = N * L + L
        BY <1>1, <2>1
      <4> QED
        BY <4>2, <4>3
    <3> HIDE DEF NL, ML, L, N, M
    <3> QED
      BY <1>1, <1>3, <1>4, <2>1, <2>2, <3>1
  <2>4. ASSUME M < N, br = len
        PROVE  FALSE
    <3>1. ML + L <= NL
      <4>1. M + 1 <= N /\ M + 1 \in Nat
        BY <1>1, <2>1, <2>4
      <4> HIDE DEF M, N, L
      <4>2. (M + 1) * L <= N * L
        BY <1>1, <2>1, <4>1, TimesMonotone
      <4>3. (M + 1) * L = M * L + L
        BY <1>1, <2>1
      <4> QED
        BY <4>2, <4>3
    <3> HIDE DEF NL, ML, L, N, M
    <3> QED
      BY <1>1, <1>3, <1>4, <2>1, <2>2, <2>4, <3>1
  <2> HIDE DEF M, N, L
  <2> QED
    BY <1>1, <2>1, <2>3, <2>4 DEF Least, M, N
<1>6. CASE ~ (dl < len)
  <2>1. N = 0
    BY <1>6 DEF BlocksFrom
  <2>2. M = 0
    <3>1. SUFFICES ASSUME M >= 1
                   PROVE  FALSE
      BY <1>1
    <3>2. L <= ML
      <4> HIDE DEF M, L
      <4>1. 1 * L <= M * L /\ 1 * L = L
        BY <1>1, <3>1, TimesMonotone
      <4> QED
        BY <4>1
    <3> HIDE DEF ML, L, M
    <3> QED
      BY <1>1, <1>3, <1>4, <1>6, <3>2
  <2> QED
    BY <1>1, <2>1, <2>2 DEF Least
<1> QED
  BY <1>5, <1>6

-----------------------------------------------------------------------------
(* Type correctness.                                                       *)

\* TypeOK, by what the variables belong to.
SendTyped ==
  /\ writes \in 0 .. MaxWrites /\ doomed \in 0 .. MaxWrites
  /\ asked \in Seq(Request) /\ late \in Seq(Request)

FetchTyped ==
  /\ active_piece \in Piece \cup {NoPiece}
  /\ current_piece_length \in 0 .. PieceLength
  /\ bytes_downloaded \in 0 .. PieceLength + MaxBlockLength - 1
  /\ active_piece # NoPiece => bytes_downloaded < current_piece_length
  /\ bytes_requested \in 0 .. PieceLength
  /\ current_piece_buffer \in [Byte -> {"zero", "good", "bad"}]

BoardTyped ==
  /\ piece_checklist \in [Piece -> BOOLEAN]
  /\ on_disk \subseteq Piece /\ theirs \subseteq Piece
  /\ pieces_downloaded \in 0 .. TotalPieces
  /\ stopped \in BOOLEAN

RestTyped ==
  /\ socket \in {"none", "open", "closed"}
  /\ chain \in {"none", "connect", "handshake", "header", "payload", "dead"}
  /\ thrown \in BOOLEAN
  /\ peer_bitfield \in Seq(BOOLEAN)
  /\ disconnects \in Nat
  /\ garbled \in BOOLEAN /\ unchoked \in BOOLEAN

PartsTyped == SendTyped /\ FetchTyped /\ BoardTyped /\ RestTyped

LEMMA TypeParts == TypeOK <=> PartsTyped /\ hashes \in Hashes
BY DEF TypeOK, PartsTyped, SendTyped, FetchTyped, BoardTyped, RestTyped

\* The piece that completes the count stops the loop: without it the counter could
\* pass the total, and TypeOK would not be inductive.
CountStops == pieces_downloaded = TotalPieces => stopped \/ TotalPieces = 0

\* The requests that are out.
out == asked \o late

\* What request_block adds goes to the end of what is out, or, on a closed socket,
\* nowhere.
LEMMA Sent ==
  ASSUME SendTyped, NEW q \in Seq(Request), NEW reqs \in Seq(Request),
         request_blocks(q, reqs)
  PROVE  /\ SendTyped'
         /\ socket = "open" => out' = (q \o late) \o reqs
         /\ socket # "open" => out' = q \o late
<1>1. /\ Len(reqs) \in Nat /\ MaxWrites \in Nat
      /\ writes \in Nat /\ doomed \in Nat
  BY LenProperties, PeerAssumption DEF SendTyped
<1>2. CASE socket = "open"
  <2>1. /\ writes + Len(reqs) <= MaxWrites /\ writes' = writes + Len(reqs)
        /\ doomed' = doomed
    BY <1>2 DEF request_blocks
  <2>2. PICK k \in 0 .. Len(reqs) :
          /\ late # << >> => k = 0
          /\ asked' = q \o SubSeq(reqs, 1, k)
          /\ late' = late \o SubSeq(reqs, k + 1, Len(reqs))
    BY <1>2 DEF request_blocks
  <2> DEFINE x == SubSeq(reqs, 1, k)
             y == SubSeq(reqs, k + 1, Len(reqs))
  <2>3. /\ x \in Seq(Request) /\ y \in Seq(Request)
    <3>1. /\ \A i \in 1 .. k : reqs[i] \in Request
          /\ \A i \in k + 1 .. Len(reqs) : reqs[i] \in Request
      <4>1. \A i \in 1 .. Len(reqs) : reqs[i] \in Request
        BY LenProperties
      <4> QED
        BY <1>1, <4>1
    <3> QED
      BY <1>1, <3>1, SubSeqProperties
  <2>4. x \o y = reqs
    <3>1. SubSeq(reqs, 1, k) \o SubSeq(reqs, k + 1, Len(reqs)) =
            SubSeq(reqs, 1, Len(reqs))
      <4>1. /\ 1 \in 1 .. Len(reqs) + 1 /\ k \in 1 - 1 .. Len(reqs)
            /\ Len(reqs) \in k .. Len(reqs)
        BY <1>1
      <4> QED
        BY <4>1, ConcatAdjacentSubSeq
    <3> QED
      BY <3>1, SubSeqFull
  <2>5. late \in Seq(Request)
    BY DEF SendTyped
  <2>6. (q \o x) \o (late \o y) = (q \o late) \o reqs
    <3>1. CASE late = << >>
      <4>1. late \o y = y /\ q \o late = q
        BY <2>3, <3>1, ConcatEmptySeq
      <4>2. (q \o x) \o y = q \o (x \o y)
        <5> HIDE DEF x, y
        <5> QED
          BY <2>3, ConcatAssociative
      <4> QED
        BY <2>4, <4>1, <4>2
    <3>2. CASE late # << >>
      <4>1. x = << >>
        BY <2>2, <3>2, SubSeqEmpty
      <4>2. q \o x = q /\ y = reqs
        <5>1. q \o x = q /\ x \o y = y
          <6> HIDE DEF y, x
          <6> QED
            BY <2>3, <4>1, ConcatEmptySeq
        <5> QED
          BY <2>4, <5>1
      <4>3. (q \o late) \o reqs = q \o (late \o reqs)
        BY <2>5, ConcatAssociative
      <4> QED
        BY <4>2, <4>3
    <3> QED
      BY <3>1, <3>2
  <2> HIDE DEF x, y
  <2>7. q \o x \in Seq(Request) /\ late \o y \in Seq(Request)
    BY <2>3, <2>5, ConcatProperties
  <2>8. asked' = q \o x /\ late' = late \o y
    BY <2>2 DEF x, y
  <2>9. SendTyped'
    <3>1. writes' \in 0 .. MaxWrites
      BY <1>1, <2>1
    <3> QED
      BY <2>1, <2>7, <2>8, <3>1 DEF SendTyped
  <2> QED
    BY <1>2, <2>6, <2>8, <2>9 DEF out
<1>3. CASE socket # "open"
  <2>1. /\ doomed + Len(reqs) <= MaxWrites /\ doomed' = doomed + Len(reqs)
        /\ asked' = q /\ writes' = writes /\ late' = late
    BY <1>3 DEF request_blocks
  <2>2. doomed' \in 0 .. MaxWrites
    BY <1>1, <2>1
  <2> QED
    BY <1>3, <2>1, <2>2 DEF SendTyped, out
<1> QED
  BY <1>2, <1>3

\* The last piece is short and there may be none.
LEMMA PiecesTyped == TotalPieces \in Nat /\ Piece = 0 .. TotalPieces - 1
<1> DEFINE x == TotalLength + PieceLength - 1
<1>1. x \in Nat /\ PieceLength \in Nat \ {0}
  BY PeerAssumption
<1> HIDE DEF x
<1>2. x \div PieceLength \in Nat
  BY <1>1, Division
<1> QED
  BY <1>2 DEF TotalPieces, Piece, x

\* request_work keeps the types, and stops the loop when the count is complete.
LEMMA WorkTyped ==
  ASSUME SendTyped, FetchTyped, stopped = FALSE,
         NEW list \in [Piece -> BOOLEAN], NEW from \in 0 .. PieceLength,
         NEW got \in 0 .. PieceLength + MaxBlockLength - 1,
         NEW buf \in [Byte -> {"zero", "good", "bad"}],
         NEW q \in Seq(Request), NEW first \in Seq(Request),
         request_work(list, from, got, buf, q, first),
         on_disk' \subseteq Piece, theirs' \subseteq Piece,
         pieces_downloaded' \in 0 .. TotalPieces
  PROVE  SendTyped' /\ FetchTyped' /\ BoardTyped' /\ CountStops'
<1>1. CASE /\ stopped' = (pieces_downloaded' = TotalPieces)
           /\ piece_checklist' = list
           /\ active_piece' = NoPiece
           /\ bytes_requested' = from
           /\ bytes_downloaded' = got /\ current_piece_buffer' = buf
           /\ UNCHANGED current_piece_length
           /\ request_blocks(q, first)
  <2>1. SendTyped'
    BY <1>1, Sent
  <2>2. FetchTyped'
    BY <1>1 DEF FetchTyped
  <2>3. BoardTyped' /\ CountStops'
    BY <1>1 DEF BoardTyped, CountStops
  <2> QED
    BY <2>1, <2>2, <2>3
<1>2. CASE /\ pieces_downloaded' # TotalPieces
           /\ stopped' = stopped
           /\ \E p \in Missing(list) :
                LET window == Ask(p, LengthOf(p), from, MaxBlockWindow) IN
                /\ piece_checklist' = [list EXCEPT ![p] = TRUE]
                /\ active_piece' = p
                /\ current_piece_length' = LengthOf(p)
                /\ bytes_downloaded' = 0
                /\ current_piece_buffer' = Zeros
                /\ bytes_requested' = window.upto
                /\ request_blocks(q, first \o window.requests)
  <2> DEFINE reqs(p) == Ask(p, LengthOf(p), from, MaxBlockWindow).requests
             upto(p) == Ask(p, LengthOf(p), from, MaxBlockWindow).upto
  <2>1. PICK p \in Piece :
          /\ piece_checklist' = [list EXCEPT ![p] = TRUE]
          /\ active_piece' = p
          /\ current_piece_length' = LengthOf(p)
          /\ bytes_downloaded' = 0
          /\ current_piece_buffer' = Zeros
          /\ bytes_requested' = upto(p)
          /\ request_blocks(q, first \o reqs(p))
    BY <1>2 DEF Missing
  <2>2. /\ LengthOf(p) \in 1 .. PieceLength /\ PieceLength \in Nat
        /\ MaxBlockWindow \in Nat \ {0}
    BY LengthTyped, PeerAssumption
  <2>3. reqs(p) \in Seq(Request) /\ upto(p) \in 0 .. PieceLength
    <3>1. LengthOf(p) \in 0 .. PieceLength
      BY <2>2
    <3> QED
      BY <2>2, <3>1, AskTyped
  <2> HIDE DEF reqs, upto
  <2>4. SendTyped'
    <3>1. first \o reqs(p) \in Seq(Request)
      BY <2>3, ConcatProperties
    <3> QED
      BY <2>1, <3>1, Sent
  <2>5. FetchTyped'
    <3>1. /\ 0 \in 0 .. PieceLength + MaxBlockLength - 1
          /\ Zeros \in [Byte -> {"zero", "good", "bad"}]
      BY <2>2, PeerAssumption DEF Zeros
    <3>2. LengthOf(p) \in 0 .. PieceLength /\ 0 < LengthOf(p)
      BY <2>2
    <3> QED
      BY <2>1, <2>3, <3>1, <3>2 DEF FetchTyped
  <2>6. BoardTyped' /\ CountStops'
    <3>1. [list EXCEPT ![p] = TRUE] \in [Piece -> BOOLEAN]
      OBVIOUS
    <3> QED
      BY <1>2, <2>1, <3>1 DEF BoardTyped, CountStops
  <2> QED
    BY <2>4, <2>5, <2>6
<1> QED
  BY <1>1, <1>2 DEF request_work

\* Giving the piece back keeps the checklist a checklist.
LEMMA RequeuedTyped ==
  ASSUME BoardTyped
  PROVE  Requeued \in [Piece -> BOOLEAN]
<1>1. \A p \in Piece : (piece_checklist[p] /\ p # active_piece) \in BOOLEAN
  OBVIOUS
<1> QED
  BY <1>1 DEF Requeued

\* disconnect, in a handler that leaves the fetch and what is sent typed.
LEMMA DisconnectTyped ==
  ASSUME BoardTyped, RestTyped, CountStops, NEW r, disconnect(r),
         r \in {"none", "connect", "handshake", "header", "payload", "dead"},
         UNCHANGED <<theirs, peer_bitfield, garbled, unchoked>>
  PROVE  BoardTyped' /\ RestTyped' /\ CountStops'
BY RequeuedTyped DEF disconnect, BoardTyped, RestTyped, CountStops

\* submit_piece keeps the types: as the loop runs, there is a piece left to count.
LEMMA SubmitTyped ==
  ASSUME TypeOK, CountStops, stopped = FALSE, active_piece \in Piece,
         NEW got \in 0 .. PieceLength + MaxBlockLength - 1,
         NEW buf \in [Byte -> {"zero", "good", "bad"}],
         NEW q \in Seq(Request), NEW first \in Seq(Request),
         submit_piece(got, buf, q, first),
         UNCHANGED <<theirs, garbled, peer_bitfield, unchoked>>
  PROVE  PartsTyped' /\ CountStops'
<1>1. SendTyped /\ FetchTyped /\ BoardTyped /\ RestTyped
  BY TypeParts DEF PartsTyped
<1>2. /\ TotalPieces \in Nat /\ TotalPieces # 0
      /\ pieces_downloaded + 1 \in 0 .. TotalPieces
      /\ piece_checklist \in [Piece -> BOOLEAN] /\ Requeued \in [Piece -> BOOLEAN]
      /\ 0 \in 0 .. PieceLength
  <2>1. TotalPieces \in Nat /\ TotalPieces # 0
    BY PiecesTyped
  <2>2. pieces_downloaded # TotalPieces
    BY <2>1 DEF CountStops
  <2>3. pieces_downloaded \in 0 .. TotalPieces
    BY <1>1 DEF BoardTyped
  <2> QED
    BY <1>1, <2>1, <2>2, <2>3, RequeuedTyped, PeerAssumption DEF BoardTyped
<1>3. ASSUME NEW list \in [Piece -> BOOLEAN],
             request_work(list, 0, got, buf, q, first),
             Then("header"), UNCHANGED <<socket, thrown, disconnects>>,
             on_disk' \subseteq Piece, pieces_downloaded' \in 0 .. TotalPieces
      PROVE  PartsTyped' /\ CountStops'
  <2>1. theirs' \subseteq Piece
    BY <1>1 DEF BoardTyped
  <2>2. SendTyped' /\ FetchTyped' /\ BoardTyped' /\ CountStops'
    BY <1>1, <1>2, <1>3, <2>1, WorkTyped
  <2>3. RestTyped'
    BY <1>1, <1>3 DEF RestTyped, Then
  <2> QED
    BY <2>2, <2>3 DEF PartsTyped
<1>4. CASE /\ pieces_downloaded' = pieces_downloaded + 1
           /\ on_disk' = on_disk \cup {active_piece}
           /\ request_work(piece_checklist, 0, got, buf, q, first)
           /\ Then("header")
           /\ UNCHANGED <<socket, thrown, disconnects>>
  BY <1>1, <1>2, <1>3, <1>4 DEF BoardTyped
<1>5. CASE /\ UNCHANGED <<pieces_downloaded, on_disk>>
           /\ request_work(Requeued, 0, got, buf, q, first)
           /\ Then("header")
           /\ UNCHANGED <<socket, thrown, disconnects>>
  BY <1>1, <1>2, <1>3, <1>5 DEF BoardTyped
<1>6. CASE /\ active_piece' = NoPiece
           /\ bytes_requested' = 0
           /\ bytes_downloaded' = got /\ current_piece_buffer' = buf
           /\ UNCHANGED current_piece_length
           /\ request_blocks(q, first)
           /\ \/ disconnect("dead")
              \/ thrown' = TRUE /\ UNCHANGED <<socket, chain, manager>>
  <2>1. SendTyped'
    BY <1>1, <1>6, Sent
  <2>2. FetchTyped'
    BY <1>1, <1>2, <1>6 DEF FetchTyped
  <2>3. BoardTyped' /\ RestTyped' /\ CountStops'
    <3>1. CASE disconnect("dead")
      BY <1>1, <1>6, <3>1, DisconnectTyped
    <3>2. CASE thrown' = TRUE /\ UNCHANGED <<socket, chain, manager>>
      BY <1>1, <3>2 DEF manager, BoardTyped, RestTyped, CountStops
    <3> QED
      BY <1>6, <3>1, <3>2
  <2> QED
    BY <2>1, <2>2, <2>3 DEF PartsTyped
<1> QED
  BY <1>4, <1>5, <1>6 DEF submit_piece

\* What a piece message finds: the peer without the request it answers.
LEMMA BlockTyped ==
  ASSUME TypeOK, CountStops,
         NEW i \in DOMAIN asked, NEW quality \in {"good", "bad"}, Block(i, quality)
  PROVE  PartsTyped' /\ CountStops'
<1> DEFINE r == asked[i]
           q == SubSeq(asked, 1, i - 1) \o SubSeq(asked, i + 1, Len(asked))
           next == Ask(active_piece, current_piece_length, bytes_requested, 1)
<1>1. SendTyped /\ FetchTyped /\ BoardTyped /\ RestTyped
  BY TypeParts DEF PartsTyped
<1>2. /\ i \in 1 .. Len(asked) /\ r \in Request /\ q \in Seq(Request)
  <2>1. asked \in Seq(Request)
    BY <1>1 DEF SendTyped
  <2>2. i \in 1 .. Len(asked)
    BY <2>1, LenProperties
  <2>3. r \in Request
    BY <2>1, <2>2, ElementOfSeq
  <2> QED
    BY <2>1, <2>2, <2>3, CutOut
<1>3. /\ Runs /\ stopped = FALSE
      /\ UNCHANGED <<theirs, garbled, peer_bitfield, unchoked>>
  <2>1. stopped \in BOOLEAN
    BY <1>1 DEF BoardTyped
  <2> QED
    BY <2>1 DEF Block, Message, Runs
<1>4. \/ /\ asked' = q
         /\ Then("header")
         /\ UNCHANGED <<socket, thrown, writes, doomed, late, fetch, manager>>
      \/ /\ r.piece = active_piece /\ ~ Completes(r)
         /\ bytes_downloaded' = Counted(r)
         /\ current_piece_buffer' = Copied(r, quality)
         /\ bytes_requested' = next.upto
         /\ request_blocks(q, next.requests)
         /\ Then("header")
         /\ UNCHANGED <<socket, thrown, active_piece, current_piece_length, manager>>
      \/ /\ r.piece = active_piece
         /\ submit_piece(Counted(r), Copied(r, quality), q, next.requests)
  BY DEF Block
<1>5. r.piece = active_piece =>
        /\ active_piece \in Piece
        /\ next.requests \in Seq(Request) /\ next.upto \in 0 .. PieceLength
  <2> SUFFICES ASSUME r.piece = active_piece
               PROVE  /\ active_piece \in Piece
                      /\ next.requests \in Seq(Request)
                      /\ next.upto \in 0 .. PieceLength
    OBVIOUS
  <2>1. active_piece \in Piece
    BY <1>2 DEF Request
  <2> QED
    BY <1>1, <2>1, AskTyped DEF FetchTyped
<1>6. r.piece = active_piece => Counted(r) \in 0 .. PieceLength + MaxBlockLength - 1
  <2>1. r.length \in 1 .. MaxBlockLength /\ MaxBlockLength \in Nat \ {0}
    BY <1>2, PeerAssumption DEF Request
  <2>2. /\ bytes_downloaded \in 0 .. PieceLength + MaxBlockLength - 1
        /\ PieceLength \in Nat /\ current_piece_length \in 0 .. PieceLength
    BY <1>1, PeerAssumption DEF FetchTyped
  <2>3. r.piece = active_piece => bytes_downloaded < current_piece_length
    <3>1. NoPiece \notin Piece
      BY PiecesTyped DEF NoPiece
    <3> QED
      BY <1>1, <1>5, <3>1 DEF FetchTyped
  <2> HIDE DEF r
  <2> QED
    BY <2>1, <2>2, <2>3 DEF Counted
<1>7. Copied(r, quality) \in [Byte -> {"zero", "good", "bad"}]
  BY <1>1 DEF Copied, FetchTyped
<1> HIDE DEF r, q, next
<1>8. CASE /\ asked' = q
           /\ Then("header")
           /\ UNCHANGED <<socket, thrown, writes, doomed, late, fetch, manager>>
  <2>1. SendTyped' /\ FetchTyped' /\ BoardTyped' /\ CountStops'
    BY <1>1, <1>2, <1>3, <1>8
    DEF SendTyped, FetchTyped, BoardTyped, CountStops, fetch, manager
  <2>2. RestTyped'
    BY <1>1, <1>3, <1>8 DEF RestTyped, Then, manager
  <2> QED
    BY <2>1, <2>2 DEF PartsTyped
<1>9. CASE /\ r.piece = active_piece /\ ~ Completes(r)
           /\ bytes_downloaded' = Counted(r)
           /\ current_piece_buffer' = Copied(r, quality)
           /\ bytes_requested' = next.upto
           /\ request_blocks(q, next.requests)
           /\ Then("header")
           /\ UNCHANGED <<socket, thrown, active_piece, current_piece_length, manager>>
  <2>1. SendTyped'
    BY <1>1, <1>2, <1>5, <1>9, Sent
  <2>2. FetchTyped'
    <3>1. Counted(r) < current_piece_length
      <4>1. Counted(r) \in Nat /\ current_piece_length \in Nat
        BY <1>1, <1>6, <1>9, PeerAssumption DEF FetchTyped
      <4> QED
        BY <1>9, <4>1 DEF Completes
    <3> QED
      BY <1>1, <1>5, <1>6, <1>7, <1>9, <3>1 DEF FetchTyped
  <2>3. BoardTyped' /\ CountStops'
    BY <1>1, <1>3, <1>9 DEF BoardTyped, CountStops, manager
  <2>4. RestTyped'
    BY <1>1, <1>3, <1>9 DEF RestTyped, Then, manager
  <2> QED
    BY <2>1, <2>2, <2>3, <2>4 DEF PartsTyped
<1>10. CASE /\ r.piece = active_piece
            /\ submit_piece(Counted(r), Copied(r, quality), q, next.requests)
  BY <1>2, <1>3, <1>5, <1>6, <1>7, <1>10, SubmitTyped
<1> QED
  BY <1>4, <1>8, <1>9, <1>10

\* Every step keeps the types.
LEMMA StepTyped ==
  ASSUME TypeOK, CountStops, [Next]_vars
  PROVE  PartsTyped' /\ CountStops'
<1>1. SendTyped /\ FetchTyped /\ BoardTyped /\ RestTyped
  BY TypeParts DEF PartsTyped
<1>2. stopped \in BOOLEAN
  BY <1>1 DEF BoardTyped
<1>3. ASSUME UNCHANGED vars
      PROVE  PartsTyped' /\ CountStops'
  BY <1>1, <1>3 DEF vars, conn, sending, fetch, manager, remote, CountStops,
                    PartsTyped, SendTyped, FetchTyped, BoardTyped, RestTyped
<1>4. ASSUME SendTyped', FetchTyped', BoardTyped', RestTyped'
      PROVE  PartsTyped'
  BY <1>4 DEF PartsTyped
<1>5. ASSUME start \/ handle_connect \/ HandshakeWriteThrows \/ handle_handshake_read
             \/ handle_message_header \/ OtherMessage
      PROVE  PartsTyped' /\ CountStops'
  <2>1. UNCHANGED <<sending, fetch, peer_bitfield, manager, theirs, remote>>
    BY <1>5 DEF start, handle_connect, HandshakeWriteThrows, handle_handshake_read,
                handle_message_header, OtherMessage, Message, remote
  <2>2. /\ socket' \in {"none", "open", "closed"}
        /\ chain' \in {"none", "connect", "handshake", "header", "payload", "dead"}
        /\ thrown' \in BOOLEAN
    BY <1>1, <1>5
    DEF start, handle_connect, HandshakeWriteThrows, handle_handshake_read,
        handle_message_header, OtherMessage, Message, Then, RestTyped
  <2>3. SendTyped' /\ FetchTyped' /\ BoardTyped' /\ CountStops'
    BY <1>1, <2>1 DEF sending, fetch, manager, SendTyped, FetchTyped, BoardTyped,
                      CountStops
  <2>4. RestTyped'
    BY <1>1, <2>1, <2>2 DEF manager, remote, RestTyped
  <2> QED
    BY <1>4, <2>3, <2>4
<1>6. CASE ReadFails
  <2>1. /\ disconnect("none")
        /\ UNCHANGED <<sending, fetch, peer_bitfield, theirs, remote>>
    BY <1>6 DEF ReadFails
  <2>2. SendTyped' /\ FetchTyped'
    BY <1>1, <2>1 DEF sending, fetch, SendTyped, FetchTyped
  <2>3. BoardTyped' /\ RestTyped' /\ CountStops'
    BY <1>1, <2>1, DisconnectTyped DEF remote
  <2> QED
    BY <1>4, <2>2, <2>3
<1>7. ASSUME NEW n \in 0 .. Len(asked), Choke(n)
      PROVE  PartsTyped' /\ CountStops'
  <2>1. asked \in Seq(Request) /\ Len(asked) \in Nat
    BY <1>1, LenProperties DEF SendTyped
  <2>2. SubSeq(asked, n + 1, Len(asked)) \in Seq(Request)
    <3>1. \A i \in n + 1 .. Len(asked) : asked[i] \in Request
      BY <2>1, ElementOfSeq
    <3> QED
      BY <2>1, <3>1, SubSeqProperties
  <2>3. SendTyped' /\ FetchTyped'
    BY <1>1, <1>7, <2>2 DEF Choke, SendTyped, FetchTyped
  <2>4. BoardTyped' /\ CountStops'
    BY <1>1, <1>7, RequeuedTyped DEF Choke, Message, BoardTyped, CountStops
  <2>5. RestTyped'
    BY <1>1, <1>7 DEF Choke, Message, Then, RestTyped
  <2> QED
    BY <1>4, <2>3, <2>4, <2>5
<1>8. CASE Unchoke
  <2>1. RestTyped'
    BY <1>1, <1>8 DEF Unchoke, Message, Then, RestTyped
  <2>2. CASE active_piece = NoPiece
    <3>1. /\ request_work(piece_checklist, bytes_requested, bytes_downloaded,
                          current_piece_buffer, asked, << >>)
          /\ on_disk' = on_disk /\ theirs' = theirs
          /\ pieces_downloaded' = pieces_downloaded
          /\ stopped = FALSE
      BY <1>2, <1>8, <2>2 DEF Unchoke, Message, Runs
    <3>2. /\ << >> \in Seq(Request) /\ asked \in Seq(Request)
          /\ piece_checklist \in [Piece -> BOOLEAN]
          /\ bytes_requested \in 0 .. PieceLength
          /\ bytes_downloaded \in 0 .. PieceLength + MaxBlockLength - 1
          /\ current_piece_buffer \in [Byte -> {"zero", "good", "bad"}]
      BY <1>1 DEF SendTyped, FetchTyped, BoardTyped
    <3>3. /\ on_disk' \subseteq Piece /\ theirs' \subseteq Piece
          /\ pieces_downloaded' \in 0 .. TotalPieces
      BY <1>1, <3>1 DEF BoardTyped
    <3>4. SendTyped' /\ FetchTyped' /\ BoardTyped' /\ CountStops'
      BY <1>1, <3>1, <3>2, <3>3, WorkTyped
    <3> QED
      BY <1>4, <2>1, <3>4
  <2>3. CASE active_piece # NoPiece
    <3>1. /\ UNCHANGED <<fetch, sending, piece_checklist, stopped>>
          /\ UNCHANGED <<pieces_downloaded, on_disk, theirs>>
      BY <1>8, <2>3 DEF Unchoke, Message
    <3>2. SendTyped' /\ FetchTyped' /\ BoardTyped' /\ CountStops'
      BY <1>1, <3>1 DEF sending, fetch, SendTyped, FetchTyped, BoardTyped, CountStops
    <3> QED
      BY <1>4, <2>1, <3>2
  <2> QED
    BY <2>2, <2>3
<1>9. ASSUME \/ \E i \in Haves : Have(i)
             \/ \E bits \in Bitfields : Bitfield(bits)
      PROVE  PartsTyped' /\ CountStops'
  <2>1. UNCHANGED <<socket, sending, fetch, manager, thrown, theirs, remote>>
    BY <1>9 DEF Have, Bitfield, Message, remote
  <2>2. SendTyped' /\ FetchTyped' /\ BoardTyped' /\ CountStops'
    BY <1>1, <2>1 DEF sending, fetch, manager, SendTyped, FetchTyped, BoardTyped,
                      CountStops
  <2>3. peer_bitfield' \in Seq(BOOLEAN)
    <3>1. ASSUME NEW i \in Haves, Have(i)
          PROVE  peer_bitfield' \in Seq(BOOLEAN)
      <4>1. peer_bitfield \in Seq(BOOLEAN) /\ Len(peer_bitfield) \in Nat /\ i \in Nat
        BY <1>1, PeerAssumption, LenProperties DEF RestTyped
      <4>2. CASE i < Len(peer_bitfield)
        <5> DEFINE b == SubSeq(peer_bitfield, 1, i + 1)
        <5>1. b \in Seq(BOOLEAN) /\ Len(b) = i + 1
          <6>1. \A k \in 1 .. i + 1 : peer_bitfield[k] \in BOOLEAN
            BY <4>1, <4>2, ElementOfSeq
          <6>2. /\ SubSeq(peer_bitfield, 1, i + 1) \in Seq(BOOLEAN)
                /\ Len(SubSeq(peer_bitfield, 1, i + 1)) =
                     IF 1 <= i + 1 THEN i + 1 - 1 + 1 ELSE 0
            BY <4>1, <6>1, SubSeqProperties
          <6> QED
            BY <4>1, <6>2
        <5>2. peer_bitfield' = [b EXCEPT ![i + 1] = TRUE]
          BY <3>1, <4>2 DEF Have
        <5> HIDE DEF b
        <5>3. i + 1 \in 1 .. Len(b) /\ TRUE \in BOOLEAN
          BY <4>1, <5>1
        <5> QED
          BY <5>1, <5>2, <5>3, ExceptSeq
      <4>3. CASE ~ (i < Len(peer_bitfield))
        BY <3>1, <4>1, <4>3 DEF Have
      <4> QED
        BY <4>2, <4>3
    <3>2. ASSUME NEW bits \in Bitfields, Bitfield(bits)
          PROVE  peer_bitfield' \in Seq(BOOLEAN)
      BY <3>2, PeerAssumption DEF Bitfield
    <3> QED
      BY <1>9, <3>1, <3>2
  <2>4. chain' \in {"none", "connect", "handshake", "header", "payload", "dead"}
    BY <1>9 DEF Have, Bitfield, Then
  <2>5. RestTyped'
    BY <1>1, <2>1, <2>3, <2>4 DEF manager, remote, RestTyped
  <2> QED
    BY <1>4, <2>2, <2>5
<1>10. CASE RequestWritten
  <2>1. /\ writes > Len(late) /\ writes' = writes - 1
        /\ UNCHANGED <<conn, doomed, asked, late, fetch, peer_bitfield, manager,
                       theirs, remote>>
    BY <1>10 DEF RequestWritten
  <2>2. writes' \in 0 .. MaxWrites
    <3>1. Len(late) \in Nat
      BY <1>1, LenProperties DEF SendTyped
    <3> QED
      BY <1>1, <2>1, <3>1, PeerAssumption DEF SendTyped
  <2>3. SendTyped' /\ FetchTyped' /\ BoardTyped' /\ CountStops' /\ RestTyped'
    BY <1>1, <2>1, <2>2
    DEF conn, fetch, manager, remote, SendTyped, FetchTyped, BoardTyped, RestTyped,
        CountStops
  <2> QED
    BY <1>4, <2>3
<1>11. CASE RequestFails
  <2>1. /\ disconnect(chain)
        /\ UNCHANGED <<asked, fetch, peer_bitfield, theirs, remote>>
        /\ \/ /\ writes > 0 /\ writes' = writes - 1
              /\ late' = IF late = << >> THEN late ELSE Tail(late)
              /\ UNCHANGED doomed
           \/ /\ doomed > 0 /\ doomed' = doomed - 1
              /\ UNCHANGED <<writes, late>>
    BY <1>11 DEF RequestFails
  <2>2. late' \in Seq(Request)
    BY <1>1, <2>1, HeadTailProperties DEF SendTyped
  <2>3. writes' \in 0 .. MaxWrites /\ doomed' \in 0 .. MaxWrites
    BY <1>1, <2>1, PeerAssumption DEF SendTyped
  <2>4. SendTyped' /\ FetchTyped'
    BY <1>1, <2>1, <2>2, <2>3 DEF fetch, SendTyped, FetchTyped
  <2>5. chain \in {"none", "connect", "handshake", "header", "payload", "dead"}
    BY <1>1 DEF RestTyped
  <2>6. BoardTyped' /\ RestTyped' /\ CountStops'
    BY <1>1, <2>1, <2>5, DisconnectTyped DEF remote
  <2> QED
    BY <1>4, <2>4, <2>6
<1>12. CASE LateWrite
  <2>1. /\ late # << >> /\ late' = Tail(late)
        /\ \/ asked' = Append(asked, Head(late)) /\ UNCHANGED garbled
           \/ garbled' = TRUE /\ UNCHANGED asked
        /\ UNCHANGED <<conn, writes, doomed, fetch, peer_bitfield, manager, theirs,
                       unchoked>>
    BY <1>12 DEF LateWrite
  <2>2. late' \in Seq(Request) /\ asked' \in Seq(Request)
    BY <1>1, <2>1, HeadTakenOut DEF SendTyped
  <2>3. SendTyped' /\ FetchTyped' /\ BoardTyped' /\ CountStops'
    BY <1>1, <2>1, <2>2
    DEF fetch, manager, SendTyped, FetchTyped, BoardTyped, CountStops
  <2>4. RestTyped'
    BY <1>1, <2>1 DEF conn, manager, RestTyped
  <2> QED
    BY <1>4, <2>3, <2>4
<1>13. ASSUME NEW p \in Piece, OthersWork(p)
       PROVE  PartsTyped' /\ CountStops'
  <2>1. /\ \/ /\ piece_checklist' = [piece_checklist EXCEPT ![p] = TRUE]
              /\ theirs' = theirs \cup {p}
              /\ UNCHANGED <<on_disk, pieces_downloaded>>
           \/ /\ piece_checklist' = [piece_checklist EXCEPT ![p] = FALSE]
              /\ theirs' = theirs \ {p}
              /\ UNCHANGED <<on_disk, pieces_downloaded>>
           \/ /\ pieces_downloaded + 1 < TotalPieces
              /\ theirs' = theirs \ {p}
              /\ on_disk' = on_disk \cup {p}
              /\ pieces_downloaded' = pieces_downloaded + 1
              /\ UNCHANGED piece_checklist
        /\ UNCHANGED <<conn, sending, fetch, peer_bitfield, stopped, disconnects,
                       remote>>
    BY <1>13 DEF OthersWork
  <2>2. /\ piece_checklist' \in [Piece -> BOOLEAN]
        /\ on_disk' \subseteq Piece /\ theirs' \subseteq Piece
    BY <1>1, <2>1 DEF BoardTyped
  <2>3. pieces_downloaded' \in 0 .. TotalPieces /\ CountStops'
    <3>1. pieces_downloaded \in Nat /\ TotalPieces \in Nat
      BY <1>1, PiecesTyped DEF BoardTyped
    <3> QED
      BY <1>1, <2>1, <3>1 DEF BoardTyped, CountStops
  <2>4. SendTyped' /\ FetchTyped' /\ RestTyped'
    BY <1>1, <2>1 DEF conn, sending, fetch, remote, SendTyped, FetchTyped, RestTyped
  <2>5. BoardTyped'
    BY <1>1, <2>1, <2>2, <2>3 DEF BoardTyped
  <2> QED
    BY <1>4, <2>3, <2>4, <2>5
<1>14. CASE Silence
  BY <1>3, <1>14 DEF Silence
<1> QED
  BY <1>3, <1>5, <1>6, <1>7, <1>8, <1>9, <1>10, <1>11, <1>12, <1>13, <1>14, BlockTyped
  DEF Next

\* Every variable keeps its type, whatever peer, socket and other workers do. In
\* particular a piece that is still being fetched has fewer bytes counted than it is
\* long, so that the block that completes it takes bytes_downloaded_ past the length
\* by less than a block, even when requests outlive a choke and their blocks overlap;
\* and pieces_downloaded_ stays within the total, though a piece may be stored twice.
THEOREM ConnectionTyped == Spec => [](TypeOK /\ CountStops)
<1>1. Init => TypeOK /\ CountStops
  <2> SUFFICES ASSUME Init
               PROVE  TypeOK /\ CountStops
    OBVIOUS
  <2>1. /\ 0 \in 0 .. MaxWrites /\ 0 \in 0 .. PieceLength /\ 0 \in 0 .. TotalPieces
        /\ 0 \in 0 .. PieceLength + MaxBlockLength - 1
        /\ Zeros \in [Byte -> {"zero", "good", "bad"}]
        /\ << >> \in Seq(Request) /\ << >> \in Seq(BOOLEAN)
    BY PeerAssumption, PiecesTyped DEF Zeros
  <2>2. TypeOK
    BY <2>1 DEF Init, TypeOK
  <2>3. CountStops
    BY DEF Init, CountStops
  <2> QED
    BY <2>2, <2>3
<1>2. TypeOK /\ CountStops /\ [Next]_vars => PartsTyped' /\ CountStops'
  BY StepTyped
<1>3. hashes \in Hashes /\ [Next]_vars => (hashes \in Hashes)'
  BY DEF Next, vars
<1> QED
  BY <1>1, <1>2, <1>3, TypeParts, PTL DEF Spec

-----------------------------------------------------------------------------
(* The fetch from a peer that does not choke.                              *)

\* The inductive invariant. Between two pieces nothing is out. While a piece is being
\* fetched what is out, counted, requested and in the buffer fits together, even on a
\* connection that is closed; and on an open one nothing is forgotten and the window
\* is full.
FetchInv ==
  /\ socket = "none" => chain = "none" /\ active_piece = NoPiece
  /\ active_piece = NoPiece => bytes_requested = 0 /\ out = << >>
  /\ active_piece # NoPiece =>
       /\ current_piece_length = LengthOf(active_piece)
       /\ FetchFacts(out, active_piece, current_piece_length, bytes_downloaded,
                     bytes_requested, current_piece_buffer)
  /\ Fetching =>
       /\ Covered(out, current_piece_length, bytes_requested, current_piece_buffer)
       /\ Window(out, current_piece_length, bytes_downloaded, bytes_requested)
\* A fetch goes on untouched while the connection can only get worse.
LEMMA FetchFrame ==
  ASSUME FetchInv, UNCHANGED <<asked, late, fetch>>,
         socket' = socket \/ socket' = "closed" \/ (socket = "none" /\ chain' # "none"),
         socket' = "none" => chain' = chain,
         (Runs' /\ ~ garbled') => (Runs /\ ~ garbled)
  PROVE  FetchInv'
<1> DEFINE IdleFacts == bytes_requested = 0 /\ out = << >>
           BusyFacts ==
             /\ current_piece_length = LengthOf(active_piece)
             /\ FetchFacts(out, active_piece, current_piece_length, bytes_downloaded,
                           bytes_requested, current_piece_buffer)
           OpenFacts ==
             /\ Covered(out, current_piece_length, bytes_requested,
                        current_piece_buffer)
             /\ Window(out, current_piece_length, bytes_downloaded, bytes_requested)
<1>1. /\ active_piece' = active_piece
      /\ out' = out
      /\ current_piece_length' = current_piece_length
      /\ bytes_downloaded' = bytes_downloaded /\ bytes_requested' = bytes_requested
      /\ current_piece_buffer' = current_piece_buffer
  BY DEF fetch, out
<1>2. IdleFacts' = IdleFacts /\ BusyFacts' = BusyFacts /\ OpenFacts' = OpenFacts
  BY <1>1 DEF FetchFacts, Covered, Window
<1>3. Fetching' => Fetching
  BY <1>1 DEF Fetching, FetchInv
<1>4. socket' = "none" => chain' = "none" /\ active_piece' = NoPiece
  BY <1>1 DEF FetchInv
<1>5. active_piece' = NoPiece => IdleFacts'
  BY <1>1, <1>2 DEF FetchInv
<1>6. active_piece' # NoPiece => BusyFacts'
  BY <1>1, <1>2 DEF FetchInv
<1>7. Fetching' => OpenFacts'
  BY <1>2, <1>3 DEF FetchInv
<1> QED
  BY <1>4, <1>5, <1>6, <1>7 DEF FetchInv

\* request_work with nothing out and bytes_requested_ reset: it takes up no piece, or
\* begins one as it should.
LEMMA WorkBegins ==
  ASSUME SendTyped, NEW list, NEW got, NEW buf,
         NEW q \in Seq(Request), q \o late = << >>,
         request_work(list, 0, got, buf, q, << >>), socket' = socket, socket # "none"
  PROVE  FetchInv'
<1>1. /\ << >> \in Seq(Request) /\ q \o late \in Seq(Request)
      /\ NoPiece \notin Piece
  BY ConcatProperties, PiecesTyped DEF SendTyped, NoPiece
<1>2. CASE /\ active_piece' = NoPiece /\ bytes_requested' = 0
           /\ request_blocks(q, << >>)
  <2>1. out' = << >>
    <3>1. /\ socket = "open" => out' = << >> \o << >>
          /\ socket # "open" => out' = << >>
      BY <1>1, <1>2, Sent
    <3> QED
      BY <1>1, <3>1, ConcatEmptySeq
  <2> QED
    BY <1>2, <2>1 DEF FetchInv, Fetching
<1>3. CASE \E p \in Missing(list) :
             LET window == Ask(p, LengthOf(p), 0, MaxBlockWindow) IN
             /\ active_piece' = p
             /\ current_piece_length' = LengthOf(p)
             /\ bytes_downloaded' = 0
             /\ current_piece_buffer' = Zeros
             /\ bytes_requested' = window.upto
             /\ request_blocks(q, << >> \o window.requests)
  <2> DEFINE len(p)  == LengthOf(p)
             reqs(p) == Ask(p, len(p), 0, MaxBlockWindow).requests
             upto(p) == Ask(p, len(p), 0, MaxBlockWindow).upto
  <2>1. PICK p \in Piece :
          /\ active_piece' = p
          /\ current_piece_length' = len(p)
          /\ bytes_downloaded' = 0
          /\ current_piece_buffer' = Zeros
          /\ bytes_requested' = upto(p)
          /\ request_blocks(q, << >> \o reqs(p))
    BY <1>3 DEF Missing
  <2>2. /\ reqs(p) \in Seq(Request)
        /\ FetchFacts(reqs(p), p, len(p), 0, upto(p), Zeros)
        /\ FetchFacts(<< >>, p, len(p), 0, upto(p), Zeros)
        /\ Covered(reqs(p), len(p), upto(p), Zeros)
        /\ Window(reqs(p), len(p), 0, upto(p))
    BY Begun
  <2>3. len(p) = LengthOf(p)
    OBVIOUS
  <2> HIDE DEF len, reqs, upto
  <2>4. << >> \o reqs(p) = reqs(p)
    BY <2>2, ConcatEmptySeq
  <2>5. /\ socket = "open" => out' = reqs(p)
        /\ socket # "open" => out' = << >>
    <3>1. /\ socket = "open" => out' = << >> \o reqs(p)
          /\ socket # "open" => out' = << >>
      BY <2>1, <2>2, <2>4, Sent
    <3> QED
      BY <2>4, <3>1
  <2>6. active_piece' # NoPiece
    BY <1>1, <2>1
  <2>7. FetchFacts(out', active_piece', current_piece_length', bytes_downloaded',
                   bytes_requested', current_piece_buffer')
    BY <2>1, <2>2, <2>5
  <2>8. ASSUME Fetching'
        PROVE  /\ Covered(out', current_piece_length', bytes_requested',
                          current_piece_buffer')
               /\ Window(out', current_piece_length', bytes_downloaded',
                         bytes_requested')
    <3>1. socket = "open"
      BY <2>8 DEF Fetching
    <3> QED
      BY <2>1, <2>2, <2>5, <3>1
  <2>9. current_piece_length' = LengthOf(active_piece')
    BY <2>1, <2>3
  <2>10. socket' # "none"
    OBVIOUS
  <2>11. LengthOf(active_piece)' = LengthOf(active_piece')
    BY DEF LengthOf
  <2>12. FetchFacts(out, active_piece, current_piece_length, bytes_downloaded,
                    bytes_requested, current_piece_buffer)'
    BY <2>7 DEF FetchFacts, Arrived, Apart, Covers
  <2>13. Fetching' =>
           /\ Covered(out, current_piece_length, bytes_requested,
                      current_piece_buffer)'
           /\ Window(out, current_piece_length, bytes_downloaded, bytes_requested)'
    BY <2>8 DEF Covered, Covers, Window, AllFull, OneShort
  <2> QED
    BY <2>6, <2>9, <2>10, <2>11, <2>12, <2>13 DEF FetchInv
<1> QED
  BY <1>2, <1>3 DEF request_work

\* FetchInv after a handler that goes on with the piece.
LEMMA FetchGoesOn ==
  ASSUME socket # "none", socket' = socket, NEW p \in Piece,
         active_piece' = p, current_piece_length' = LengthOf(p),
         FetchFacts(out', p, LengthOf(p), bytes_downloaded', bytes_requested',
                    current_piece_buffer'),
         Fetching' =>
           /\ Covered(out', LengthOf(p), bytes_requested', current_piece_buffer')
           /\ Window(out', LengthOf(p), bytes_downloaded', bytes_requested')
  PROVE  FetchInv'
<1>1. active_piece' # NoPiece
  BY PiecesTyped DEF NoPiece
<1>2. LengthOf(active_piece)' = LengthOf(p)
  BY DEF LengthOf
<1>3. FetchFacts(out, active_piece, current_piece_length, bytes_downloaded,
                 bytes_requested, current_piece_buffer)'
  BY DEF FetchFacts, Arrived, Apart, Covers
<1>4. Fetching' =>
        /\ Covered(out, current_piece_length, bytes_requested, current_piece_buffer)'
        /\ Window(out, current_piece_length, bytes_downloaded, bytes_requested)'
  BY DEF Covered, Covers, Window, AllFull, OneShort
<1> QED
  BY <1>1, <1>2, <1>3, <1>4 DEF FetchInv

\* A block arrives: the fetch goes on with the next request, or the piece is complete,
\* and then nothing is out.
LEMMA BlockFetch ==
  ASSUME TypeOK, FetchInv,
         NEW i \in DOMAIN asked, NEW quality \in {"good", "bad"}, Block(i, quality)
  PROVE  FetchInv'
<1> DEFINE r == asked[i]
           q == SubSeq(asked, 1, i - 1) \o SubSeq(asked, i + 1, Len(asked))
           next == Ask(active_piece, current_piece_length, bytes_requested, 1)
           p == active_piece
           len == current_piece_length
           t == q \o late
           new == Copied(r, quality)
<1>1. SendTyped /\ FetchTyped
  BY TypeParts DEF PartsTyped
<1>2. /\ asked \in Seq(Request) /\ late \in Seq(Request)
      /\ i \in 1 .. Len(asked) /\ r \in Request /\ q \in Seq(Request)
      /\ t \in Seq(Request) /\ out \in Seq(Request) /\ Len(out) \in Nat
      /\ i \in 1 .. Len(out) /\ out[i] = r /\ Without(t, out, i)
  <2>1. asked \in Seq(Request) /\ late \in Seq(Request)
    BY <1>1 DEF SendTyped
  <2>2. i \in 1 .. Len(asked)
    BY <2>1, LenProperties
  <2>3. r \in Request
    BY <2>1, <2>2, ElementOfSeq
  <2>4. /\ q \in Seq(Request) /\ Len(q) = Len(asked) - 1
        /\ \A k \in 1 .. Len(asked) - 1 :
             q[k] = IF k < i THEN asked[k] ELSE asked[k + 1]
    BY <2>1, <2>2, CutOut
  <2> HIDE DEF q
  <2>5. /\ q \o late \in Seq(Request) /\ asked \o late \in Seq(Request)
        /\ (asked \o late)[i] = asked[i] /\ i \in 1 .. Len(asked \o late)
        /\ Without(q \o late, asked \o late, i)
    BY <2>1, <2>2, <2>4, TakenOut
  <2>6. Len(asked \o late) \in Nat
    BY <2>5, LenProperties
  <2> QED
    BY <2>1, <2>2, <2>3, <2>4, <2>5, <2>6 DEF out
<1>3. /\ active_piece # NoPiece /\ socket # "none"
      /\ len = LengthOf(p)
      /\ FetchFacts(out, p, len, bytes_downloaded, bytes_requested,
                    current_piece_buffer)
      /\ p = r.piece /\ p \in Piece
  <2>1. out # << >>
    BY <1>2, EmptySeq
  <2>2. active_piece # NoPiece
    BY <2>1 DEF FetchInv
  <2>3. socket # "none"
    BY <2>2 DEF FetchInv
  <2>4. /\ len = LengthOf(p)
        /\ FetchFacts(out, p, len, bytes_downloaded, bytes_requested,
                      current_piece_buffer)
    BY <2>2 DEF FetchInv
  <2>5. out[i].piece = p
    BY <1>2, <2>4 DEF FetchFacts
  <2>6. r.piece \in Piece
    BY <1>2 DEF Request
  <2> QED
    BY <1>2, <2>2, <2>3, <2>4, <2>5, <2>6
<1>4. /\ len \in 0 .. PieceLength /\ len \in Nat
      /\ bytes_requested \in 0 .. PieceLength /\ bytes_requested \in Nat
      /\ current_piece_buffer \in [Byte -> {"zero", "good", "bad"}]
      /\ r.length \in Nat /\ bytes_requested <= len
      /\ Fits(r) /\ Counted(r) = bytes_downloaded + r.length
  <2>1. /\ len \in 0 .. PieceLength /\ len \in Nat
        /\ bytes_requested \in 0 .. PieceLength /\ bytes_requested \in Nat
        /\ current_piece_buffer \in [Byte -> {"zero", "good", "bad"}]
    BY <1>1, PeerAssumption DEF FetchTyped
  <2>2. r.length \in Nat /\ r.offset \in Nat
    BY <1>2, PeerAssumption DEF Request, Byte
  <2>3. r.offset + r.length <= bytes_requested /\ bytes_requested <= len
    BY <1>2, <1>3 DEF FetchFacts
  <2>4. Fits(r)
    <3> HIDE DEF r
    <3> QED
      BY <2>1, <2>2, <2>3 DEF Fits
  <2> QED
    BY <2>1, <2>2, <2>3, <2>4 DEF Counted
<1>5. Filled(new, current_piece_buffer, out[i], quality)
  BY <1>2, <1>4 DEF Copied, Covers, Filled
<1>6. /\ bytes_downloaded \in Nat /\ bytes_downloaded + r.length <= len
      /\ FetchFacts(t, p, len, bytes_downloaded + r.length, bytes_requested, new)
      /\ Covered(out, len, bytes_requested, current_piece_buffer)
           => Covered(t, len, bytes_requested, new)
      /\ bytes_downloaded + r.length >= len => (Len(t) = 0 /\ bytes_requested = len)
  <2> DEFINE dl == bytes_downloaded
             br == bytes_requested
             buf == current_piece_buffer
  <2> HIDE DEF t, q, new, r, len, p
  <2>1. /\ out \in Seq(Request) /\ i \in 1 .. Len(out) /\ Without(t, out, i)
        /\ len \in 0 .. PieceLength /\ br \in 0 .. PieceLength
        /\ buf \in [Byte -> {"zero", "good", "bad"}]
        /\ FetchFacts(out, p, len, dl, br, buf)
        /\ Filled(new, buf, out[i], quality)
    BY <1>2, <1>3, <1>4, <1>5
  <2> HIDE DEF dl, br, buf
  <2>2. Arrival(out, t, p, len, dl, br, buf, new, out[i].length)
    BY <2>1, Arrives
  <2>3. Arrival(out, t, p, len, dl, br, buf, new, r.length)
    BY <1>2, <2>2
  <2> QED
    BY <2>3 DEF Arrival, dl, br, buf
<1> DEFINE reqs == next.requests
           upto == next.upto
<1>7. NextBlocks(reqs, p, len, bytes_requested, 1, upto)
  BY <1>3, <1>4, AskFacts
<1>8. /\ Block(i, quality)
      /\ \/ /\ bytes_downloaded' = Counted(r)
            /\ current_piece_buffer' = new
            /\ bytes_requested' = upto
            /\ request_blocks(q, reqs)
            /\ UNCHANGED <<socket, thrown, active_piece, current_piece_length, manager>>
         \/ /\ Counted(r) >= len
            /\ submit_piece(Counted(r), new, q, reqs)
  BY <1>3 DEF Block, Completes
<1>9. Message /\ garbled' = garbled
  BY DEF Block, Message
<1> HIDE DEF r, q, next, p, len, t, new, reqs, upto
<1>10. CASE /\ bytes_downloaded' = Counted(r)
            /\ current_piece_buffer' = new
            /\ bytes_requested' = upto
            /\ request_blocks(q, reqs)
            /\ UNCHANGED <<socket, thrown, active_piece, current_piece_length, manager>>
  <2>1. /\ t \o reqs \in Seq(Request)
        /\ FetchFacts(t \o reqs, p, len, Counted(r), upto, new)
        /\ FetchFacts(t, p, len, Counted(r), upto, new)
        /\ Covered(t, len, bytes_requested, new) => Covered(t \o reqs, len, upto, new)
    BY <1>2, <1>3, <1>4, <1>6, <1>7, Extended
  <2>2. reqs \in Seq(Request)
    BY <1>7 DEF NextBlocks
  <2>3. /\ socket = "open" => out' = t \o reqs
        /\ socket # "open" => out' = t
    BY <1>1, <1>2, <1>10, <2>2, Sent DEF t
  <2>4. FetchFacts(out', p, len, bytes_downloaded', bytes_requested',
                   current_piece_buffer')
    BY <1>10, <2>1, <2>3
  <2>5. ASSUME Fetching'
        PROVE  /\ Covered(out', len, bytes_requested', current_piece_buffer')
               /\ Window(out', len, bytes_downloaded', bytes_requested')
    <3>1. socket = "open" /\ Fetching
      BY <1>3, <1>9, <1>10, <2>5 DEF Fetching, Message
    <3>2. /\ Covered(out, len, bytes_requested, current_piece_buffer)
          /\ Window(out, len, bytes_downloaded, bytes_requested)
      BY <3>1 DEF FetchInv, len
    <3>3. Covered(t \o reqs, len, upto, new)
      BY <1>6, <2>1, <3>2
    <3>4. Window(t \o reqs, len, bytes_downloaded + out[i].length, upto)
      BY <1>2, <1>4, <1>6, <1>7, <3>2, WindowKept
    <3> QED
      BY <1>2, <1>4, <1>10, <2>3, <3>1, <3>3, <3>4
  <2>6. active_piece' = p /\ current_piece_length' = LengthOf(p)
    BY <1>3, <1>10 DEF p, len
  <2> QED
    BY <1>3, <1>10, <2>4, <2>5, <2>6, FetchGoesOn
<1>11. CASE Counted(r) >= len /\ submit_piece(Counted(r), new, q, reqs)
  <2>1. Len(t) = 0 /\ bytes_requested = len
    BY <1>4, <1>6, <1>11
  <2>2. t = << >>
    BY <1>2, <2>1, EmptySeq
  <2>3. reqs = << >>
    BY <1>7, <2>1 DEF NextBlocks
  <2>4. ASSUME NEW list, request_work(list, 0, Counted(r), new, q, reqs),
               socket' = socket
        PROVE  FetchInv'
    <3>1. q \o late = << >>
      BY <2>2 DEF t
    <3> QED
      BY <1>1, <1>2, <1>3, <2>3, <2>4, <3>1, WorkBegins
  <2>5. CASE /\ active_piece' = NoPiece /\ bytes_requested' = 0
             /\ request_blocks(q, reqs)
             /\ disconnect("dead") \/ UNCHANGED socket
    <3>1. << >> \in Seq(Request)
      OBVIOUS
    <3>2. out' = << >>
      <4>1. /\ socket = "open" => out' = t \o << >>
            /\ socket # "open" => out' = t
        BY <1>1, <1>2, <2>3, <2>5, <3>1, Sent DEF t
      <4> QED
        BY <1>2, <2>2, <4>1, ConcatEmptySeq
    <3>3. socket' # "none"
      BY <1>3, <2>5 DEF disconnect
    <3> QED
      BY <2>5, <3>2, <3>3 DEF FetchInv, Fetching
  <2> QED
    BY <1>11, <2>4, <2>5 DEF submit_piece
<1> QED
  BY <1>8, <1>10, <1>11

\* Every step keeps FetchInv, as long as the peer does not choke.
LEMMA StepFetch ==
  ASSUME "chokes" \notin Env, TypeOK, FetchInv, [Next]_vars
  PROVE  FetchInv'
<1>1. SendTyped /\ FetchTyped /\ BoardTyped /\ RestTyped
  BY TypeParts DEF PartsTyped
<1>2. asked \in Seq(Request) /\ late \in Seq(Request)
  BY <1>1 DEF SendTyped
<1>3. ASSUME UNCHANGED vars
      PROVE  FetchInv'
  BY <1>3, FetchFrame DEF vars, conn, sending, manager, remote, Runs
<1>4. ASSUME \/ start \/ handle_connect \/ HandshakeWriteThrows \/ handle_handshake_read
             \/ handle_message_header \/ OtherMessage
             \/ \E i \in Haves : Have(i)
             \/ \E bits \in Bitfields : Bitfield(bits)
      PROVE  FetchInv'
  <2>1. /\ UNCHANGED <<asked, late, fetch, stopped, garbled>>
        /\ socket' = socket \/ (socket = "none" /\ chain' # "none" /\ socket' # "none")
        /\ socket' = "none" => chain' = chain
        /\ thrown' = thrown \/ thrown'
    BY <1>4
    DEF start, handle_connect, HandshakeWriteThrows, handle_handshake_read,
        handle_message_header, OtherMessage, Have, Bitfield, Message, sending, manager,
        remote, FetchInv
  <2>2. (Runs' /\ ~ garbled') => (Runs /\ ~ garbled)
    <3>1. thrown' = thrown \/ thrown' = TRUE
      BY <1>4
      DEF start, handle_connect, HandshakeWriteThrows, handle_handshake_read,
          handle_message_header, OtherMessage, Have, Bitfield, Message
    <3> QED
      BY <2>1, <3>1 DEF Runs
  <2> QED
    BY <2>1, <2>2, FetchFrame
<1>5. CASE ReadFails
  <2>1. /\ UNCHANGED <<asked, late, fetch, stopped, garbled, thrown>>
        /\ socket' = "closed"
    BY <1>5 DEF ReadFails, disconnect, sending, remote
  <2> QED
    BY <2>1, FetchFrame DEF Runs
<1>6. CASE Unchoke
  <2>1. socket # "none" /\ socket' = socket /\ garbled' = garbled /\ thrown' = thrown
    BY <1>6 DEF Unchoke, Message, FetchInv
  <2>2. CASE active_piece = NoPiece
    <3>1. /\ request_work(piece_checklist, 0, bytes_downloaded, current_piece_buffer,
                          asked, << >>)
          /\ asked \o late = << >>
      BY <1>6, <2>2 DEF Unchoke, FetchInv, out
    <3> QED
      BY <1>1, <1>2, <2>1, <3>1, WorkBegins
  <2>3. CASE active_piece # NoPiece
    <3>1. UNCHANGED <<asked, late, fetch, stopped>>
      BY <1>6, <2>3 DEF Unchoke, sending
    <3> QED
      BY <2>1, <3>1, FetchFrame DEF Runs
  <2> QED
    BY <2>2, <2>3
<1>7. CASE RequestWritten
  <2>1. UNCHANGED <<asked, late, fetch, stopped, garbled, thrown, socket, chain>>
    BY <1>7 DEF RequestWritten, conn, manager, remote
  <2> QED
    BY <2>1, FetchFrame DEF Runs
<1>8. ASSUME UNCHANGED fetch, socket' # "none", ~ Fetching',
             NEW k \in 1 .. Len(out), Without(out', out, k), Len(out) \in Nat
      PROVE  FetchInv'
  <2>1. out # << >>
    BY <1>8, EmptySeq
  <2>2. active_piece # NoPiece
    BY <2>1 DEF FetchInv
  <2>3. /\ current_piece_length = LengthOf(active_piece)
        /\ FetchFacts(out, active_piece, current_piece_length, bytes_downloaded,
                      bytes_requested, current_piece_buffer)
    BY <2>2 DEF FetchInv
  <2>4. FetchFacts(out', active_piece, current_piece_length, bytes_downloaded,
                   bytes_requested, current_piece_buffer)
    BY <1>8, <2>3, Lost
  <2>5. LengthOf(active_piece)' = LengthOf(active_piece)
    BY <1>8 DEF fetch, LengthOf
  <2>6. FetchFacts(out, active_piece, current_piece_length, bytes_downloaded,
                   bytes_requested, current_piece_buffer)'
    BY <1>8, <2>4 DEF fetch, FetchFacts, Arrived, Apart, Covers
  <2> QED
    BY <1>8, <2>2, <2>3, <2>5, <2>6 DEF FetchInv, fetch
<1>9. late # << >> =>
        /\ Len(asked) + 1 \in 1 .. Len(out) /\ Len(out) \in Nat
        /\ Without(asked \o Tail(late), out, Len(asked) + 1)
        /\ Append(asked, Head(late)) \o Tail(late) = out
  <2> SUFFICES ASSUME late # << >>
               PROVE  /\ Len(asked) + 1 \in 1 .. Len(out) /\ Len(out) \in Nat
                      /\ Without(asked \o Tail(late), out, Len(asked) + 1)
                      /\ Append(asked, Head(late)) \o Tail(late) = out
    OBVIOUS
  <2>1. /\ Len(asked) + 1 \in 1 .. Len(asked \o late)
        /\ Without(asked \o Tail(late), asked \o late, Len(asked) + 1)
        /\ Append(asked, Head(late)) \o Tail(late) = asked \o late
    BY <1>2, HeadTakenOut
  <2>2. Len(asked \o late) \in Nat
    BY <1>2, ConcatProperties, LenProperties
  <2> QED
    BY <2>1, <2>2 DEF out
<1>10. CASE RequestFails
  <2>1. /\ UNCHANGED <<asked, fetch, stopped, thrown, garbled>>
        /\ socket' = "closed"
        /\ late' = late \/ (late # << >> /\ late' = Tail(late))
    BY <1>10 DEF RequestFails, disconnect, remote
  <2>2. CASE late' = late
    BY <2>1, <2>2, FetchFrame DEF Runs
  <2>3. CASE late # << >> /\ late' = Tail(late)
    <3>1. out' = asked \o Tail(late) /\ ~ Fetching'
      BY <2>1, <2>3 DEF out, Fetching
    <3> QED
      BY <1>8, <1>9, <2>1, <2>3, <3>1
  <2> QED
    BY <2>1, <2>2, <2>3
<1>11. CASE LateWrite
  <2>1. /\ late # << >> /\ late' = Tail(late) /\ socket = "open"
        /\ UNCHANGED <<conn, fetch, manager>>
        /\ \/ asked' = Append(asked, Head(late)) /\ UNCHANGED garbled
           \/ garbled' = TRUE /\ UNCHANGED asked
    BY <1>11 DEF LateWrite
  <2>2. CASE asked' = Append(asked, Head(late)) /\ UNCHANGED garbled
    <3>1. out' = out
      BY <1>9, <2>1, <2>2 DEF out
    <3>2. /\ UNCHANGED <<fetch, socket, chain, stopped, thrown, garbled>>
      BY <2>1, <2>2 DEF conn, manager
    <3>3. Fetching' = Fetching
      BY <3>2 DEF Fetching, Runs, fetch
    <3>4. active_piece = NoPiece =>
            (bytes_requested = 0 /\ out = << >>)' = (bytes_requested = 0 /\ out = << >>)
      BY <3>1, <3>2 DEF fetch
    <3>5. /\ FetchFacts(out, active_piece, current_piece_length, bytes_downloaded,
                        bytes_requested, current_piece_buffer)' =
             FetchFacts(out, active_piece, current_piece_length, bytes_downloaded,
                        bytes_requested, current_piece_buffer)
          /\ Covered(out, current_piece_length, bytes_requested,
                     current_piece_buffer)' =
             Covered(out, current_piece_length, bytes_requested, current_piece_buffer)
          /\ Window(out, current_piece_length, bytes_downloaded, bytes_requested)' =
             Window(out, current_piece_length, bytes_downloaded, bytes_requested)
      BY <3>1, <3>2 DEF fetch, FetchFacts, Covered, Window
    <3>6. LengthOf(active_piece)' = LengthOf(active_piece)
      BY <3>2 DEF LengthOf, fetch
    <3> QED
      BY <3>2, <3>3, <3>4, <3>5, <3>6 DEF FetchInv, fetch
  <2>3. CASE garbled' = TRUE /\ UNCHANGED asked
    <3>1. out' = asked \o Tail(late) /\ ~ Fetching' /\ socket' # "none"
      BY <2>1, <2>3 DEF out, Fetching, conn
    <3> QED
      BY <1>8, <1>9, <2>1, <3>1
  <2> QED
    BY <2>1, <2>2, <2>3
<1>12. ASSUME NEW p \in Piece, OthersWork(p)
       PROVE  FetchInv'
  <2>1. UNCHANGED <<asked, late, fetch, stopped, garbled, thrown, socket, chain>>
    BY <1>12 DEF OthersWork, conn, sending, remote
  <2> QED
    BY <2>1, FetchFrame DEF Runs
<1>13. CASE Silence
  BY <1>3, <1>13 DEF Silence
<1>14. \A n \in 0 .. Len(asked) : ~ Choke(n)
  BY DEF Choke
<1> QED
  BY <1>3, <1>4, <1>5, <1>6, <1>7, <1>10, <1>11, <1>12, <1>13, <1>14, BlockFetch
  DEF Next

\* FetchInv holds of every behaviour in which the peer never chokes. Once it may, a
\* request can outlive the fetch it was for, and FetchFacts fails.
LEMMA FetchInvariance == "chokes" \notin Env /\ Spec => []FetchInv
<1> SUFFICES ASSUME "chokes" \notin Env
             PROVE  Spec => []FetchInv
  OBVIOUS
<1>1. Init => FetchInv
  <2>1. << >> \o << >> = << >>
    BY ConcatEmptySeq, EmptySeq
  <2>2. NoPiece \in Int
    BY DEF NoPiece
  <2> QED
    BY <2>1, <2>2 DEF Init, FetchInv, Fetching, out
<1>2. TypeOK /\ FetchInv /\ [Next]_vars => FetchInv'
  BY StepFetch
<1> QED
  BY <1>1, <1>2, ConnectionTyped, PTL DEF Spec

\* What is out counts what is in asked and in late.
LEMMA OutLength ==
  ASSUME TypeOK
  PROVE  /\ out \in Seq(Request) /\ Len(out) \in Nat
         /\ Len(out) = Len(asked) + Len(late)
         /\ \A i \in 1 .. Len(out) : out[i] \in Outstanding
<1>1. asked \in Seq(Request) /\ late \in Seq(Request)
  BY TypeParts DEF PartsTyped, SendTyped
<1>2. /\ Len(asked) \in Nat /\ Len(late) \in Nat
      /\ DOMAIN asked = 1 .. Len(asked) /\ DOMAIN late = 1 .. Len(late)
  BY <1>1, LenProperties
<1>3. /\ asked \o late \in Seq(Request)
      /\ Len(asked \o late) = Len(asked) + Len(late)
      /\ \A i \in 1 .. Len(asked) + Len(late) :
           (asked \o late)[i] = IF i <= Len(asked) THEN asked[i]
                                ELSE late[i - Len(asked)]
  BY <1>1, ConcatProperties
<1>4. ASSUME NEW i \in 1 .. Len(asked) + Len(late)
      PROVE  (asked \o late)[i] \in Outstanding
  <2>1. CASE i <= Len(asked)
    <3>1. i \in DOMAIN asked /\ (asked \o late)[i] = asked[i]
      BY <1>2, <1>3, <2>1
    <3> QED
      BY <3>1 DEF Outstanding
  <2>2. CASE ~ (i <= Len(asked))
    <3>1. i - Len(asked) \in DOMAIN late /\ (asked \o late)[i] = late[i - Len(asked)]
      BY <1>2, <1>3, <2>2
    <3> QED
      BY <3>1 DEF Outstanding
  <2> QED
    BY <2>1, <2>2
<1> QED
  BY <1>2, <1>3, <1>4 DEF out

\* Every byte of the piece being fetched has arrived, or is asked for by a request
\* that is out, or is yet to be asked for: for every piece and block length and every
\* window, as long as the peer does not choke.
THEOREM BytesAskedFor == "chokes" \notin Env /\ Spec => []EveryByteAskedFor
<1>1. TypeOK /\ FetchInv => EveryByteAskedFor
  <2> SUFFICES ASSUME TypeOK, FetchInv, Fetching,
                      NEW b \in 0 .. current_piece_length - 1,
                      current_piece_buffer[b] = "zero", ~ (b >= bytes_requested)
               PROVE  \E r \in Outstanding :
                        /\ r.piece = active_piece
                        /\ r.offset <= b /\ b < r.offset + r.length
    BY DEF EveryByteAskedFor
  <2>1. PICK i \in 1 .. Len(out) : Covers(out[i], b)
    BY DEF FetchInv, Covered
  <2>2. out[i].piece = active_piece
    BY DEF FetchInv, FetchFacts, Fetching
  <2>3. out[i] \in Outstanding
    BY OutLength
  <2> QED
    BY <2>1, <2>2, <2>3 DEF Covers
<1> QED
  BY <1>1, FetchInvariance, ConnectionTyped, PTL

\* The pipeline is as full as the window and the rest of the piece allow, and never
\* fuller.
THEOREM WindowIsFull == "chokes" \notin Env /\ Spec => []PipelineFull
<1>1. TypeOK /\ FetchInv => PipelineFull
  <2> SUFFICES ASSUME TypeOK, FetchInv, Fetching
               PROVE  Len(asked) + Len(late) =
                        Least(MaxBlockWindow,
                              BlocksFrom(bytes_downloaded, current_piece_length))
    BY DEF PipelineFull
  <2>1. FetchTyped
    BY TypeParts DEF PartsTyped
  <2>2. /\ current_piece_length \in Nat /\ bytes_requested \in Nat
    BY <2>1, PeerAssumption DEF FetchTyped
  <2>3. /\ bytes_downloaded = Cardinality(Arrived(current_piece_length,
                                                  current_piece_buffer))
        /\ bytes_requested <= current_piece_length
        /\ Window(out, current_piece_length, bytes_downloaded, bytes_requested)
    BY DEF FetchInv, FetchFacts, Fetching
  <2>4. bytes_downloaded \in Nat
    BY <2>1, PeerAssumption DEF FetchTyped
  <2>5. out \in Seq(Request) /\ Len(out) = Len(asked) + Len(late)
    BY OutLength
  <2>6. Len(out) = Least(MaxBlockWindow,
                         BlocksFrom(bytes_downloaded, current_piece_length))
    BY <2>2, <2>3, <2>4, <2>5, WindowCount
  <2> QED
    BY <2>5, <2>6
<1> QED
  BY <1>1, FetchInvariance, ConnectionTyped, PTL

\* bytes_downloaded_ is exactly the number of bytes of the piece that have arrived.
THEOREM BytesCount == "chokes" \notin Env /\ Spec => []BytesCountedOnce
<1>1. TypeOK /\ FetchInv => BytesCountedOnce
  <2> SUFFICES ASSUME TypeOK, FetchInv, active_piece # NoPiece
               PROVE  bytes_downloaded <=
                        Cardinality({b \in 0 .. current_piece_length - 1 :
                                       current_piece_buffer[b] # "zero"})
    BY DEF BytesCountedOnce
  <2>1. bytes_downloaded = Cardinality({b \in 0 .. current_piece_length - 1 :
                                          current_piece_buffer[b] # "zero"})
    BY DEF FetchInv, FetchFacts, Arrived
  <2>2. bytes_downloaded \in Nat
    BY TypeParts, PeerAssumption DEF PartsTyped, FetchTyped
  <2> DEFINE c == Cardinality({b \in 0 .. current_piece_length - 1 :
                                 current_piece_buffer[b] # "zero"})
  <2> HIDE DEF c
  <2>3. bytes_downloaded <= c
    BY <2>1, <2>2 DEF c
  <2> QED
    BY <2>3 DEF c
<1> QED
  BY <1>1, FetchInvariance, ConnectionTyped, PTL
=============================================================================
