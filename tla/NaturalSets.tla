---------------------------- MODULE NaturalSets -----------------------------
(***************************************************************************)
(* Facts about naturals that the proofs lean on: a set of them that is not *)
(* empty has a least element, and one that holds 0 and every successor     *)
(* holds all of them.  The second is induction, with a set in the place of *)
(* the predicate.  Then what a product and a division are bounded by.      *)
(***************************************************************************)
EXTENDS Integers, FiniteSetTheorems, TLAPS

\* A set of naturals that is not empty has a least element.
THEOREM LeastNatural ==
  ASSUME NEW S, S \subseteq Nat, S # {}
  PROVE  \E x \in S : \A y \in S : x <= y
<1> DEFINE Upto(x) == {y \in S : y <= x}
           T == {Upto(x) : x \in S}
           R == StrictSubsetOrdering(Nat)
<1>1. T \subseteq FiniteSubsetsOf(Nat)
  <2> SUFFICES ASSUME NEW x \in S
               PROVE  Upto(x) \in FiniteSubsetsOf(Nat)
    OBVIOUS
  <2>1. Upto(x) \in SUBSET Nat /\ x \in Nat /\ \A y \in Upto(x) : y <= x
    OBVIOUS
  <2>2. IsFiniteSet(Upto(x))
    BY <2>1, FS_BoundedSetOfNaturals
  <2> QED
    BY <2>1, <2>2 DEF FiniteSubsetsOf
<1>2. IsWellFoundedOn(R, FiniteSubsetsOf(Nat))
  BY FS_StrictSubsetOrderingWellFounded
<1>3. T # {}
  OBVIOUS
<1>4. PICK U \in T : \A V \in T : ~ (<<V, U>> \in R)
  <2> HIDE DEF T, R
  <2> QED
    BY <1>1, <1>2, <1>3, WFMin
<1>5. PICK x \in S : U = Upto(x)
  OBVIOUS
<1>6. ASSUME NEW y \in S, y < x
      PROVE  FALSE
  <2>1. /\ x \in Nat /\ y \in Nat
        /\ \A z \in S : z \in Nat
    OBVIOUS
  <2>2. /\ \A z \in Upto(y) : z \in S /\ z <= x
        /\ x \in Upto(x)
        /\ x \notin Upto(y)
    BY <2>1, <1>6
  <2>3. Upto(y) \subseteq U /\ x \in U /\ x \notin Upto(y)
    BY <2>2, <1>5
  <2>4. <<Upto(y), U>> \in R
    BY <2>3, <1>5 DEF StrictSubsetOrdering
  <2> QED
    BY <2>4, <1>4
<1>7. \A y \in S : x <= y
  BY <1>6
<1> QED
  BY <1>7

\* Induction over a set of naturals.
THEOREM SetInduction ==
  ASSUME NEW S, 0 \in S, \A n \in Nat : n \in S => n + 1 \in S
  PROVE  Nat \subseteq S
<1> SUFFICES ASSUME Nat \ S # {}
             PROVE  FALSE
  OBVIOUS
<1>1. PICK m \in Nat \ S : \A k \in Nat \ S : m <= k
  <2> DEFINE T == Nat \ S
  <2>1. T \subseteq Nat /\ T # {}
    OBVIOUS
  <2> HIDE DEF T
  <2>2. \E x \in T : \A y \in T : x <= y
    BY <2>1, LeastNatural
  <2> QED
    BY <2>2 DEF T
<1>2. m \in Nat /\ m # 0 /\ m - 1 \in Nat /\ m - 1 + 1 = m
  OBVIOUS
<1>3. m - 1 \in S
  BY <1>1, <1>2
<1> QED
  BY <1>2, <1>3

-----------------------------------------------------------------------------
\* Multiples keep the order of what they are multiples of.
LEMMA TimesMonotone ==
  ASSUME NEW a \in Nat, NEW b \in Nat, NEW c \in Nat, a <= b
  PROVE  a * c \in Nat /\ a * c <= b * c
OBVIOUS

\* The quotient and the remainder of a division.
LEMMA Division ==
  ASSUME NEW x \in Nat, NEW d \in Nat \ {0}
  PROVE  /\ x \div d \in Nat /\ x % d \in 0 .. d - 1
         /\ x = d * (x \div d) + (x % d)
OBVIOUS
=============================================================================
