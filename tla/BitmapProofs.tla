---------------------------- MODULE BitmapProofs ----------------------------
(* What find_first_zero answers, for every bitmap and every size of it.    *)
EXTENDS Bitmap, FiniteSetTheorems, TLAPS

\* Every non-empty set of numbers has a least one.  The order of the numbers
\* is carried over to the initial segments 0 .. i, for which the library
\* knows that strict inclusion is well-founded.
LEMMA LeastNumber ==
  ASSUME NEW S \in SUBSET Nat, S # {}
  PROVE  \E i \in S : \A j \in S : i <= j
  <1> DEFINE T == {0 .. i : i \in S}
  <1> DEFINE R == StrictSubsetOrdering(Nat)
  <1> DEFINE F == FiniteSubsetsOf(Nat)
  <1>1. IsWellFoundedOn(R, F)
    BY FS_StrictSubsetOrderingWellFounded
  <1>2. T \subseteq F
    <2>1. ASSUME NEW i \in S
          PROVE  0 .. i \in F
      <3>1. IsFiniteSet(0 .. i)
        BY FS_Interval
      <3>2. 0 .. i \in SUBSET Nat
        OBVIOUS
      <3>3. QED
        BY <3>1, <3>2 DEF FiniteSubsetsOf
    <2>2. QED
      BY <2>1
  <1>3. T # {}
    OBVIOUS
  <1>4. \E x \in T : \A y \in T : <<y, x>> \notin R
    <2> HIDE DEF T, R, F
    <2> QED
      BY <1>1, <1>2, <1>3, WFMin
  <1>5. PICK i \in S : \A j \in S : <<0 .. j, 0 .. i>> \notin R
    BY <1>4
  <1>6. ASSUME NEW j \in S
        PROVE  i <= j
    <2>1. SUFFICES ASSUME j < i
                   PROVE  FALSE
      OBVIOUS
    <2>2. /\ 0 .. j \in SUBSET Nat
          /\ 0 .. i \in SUBSET Nat
          /\ 0 .. j \subseteq 0 .. i
          /\ i \in 0 .. i
          /\ i \notin 0 .. j
      BY <2>1
    <2>3. <<0 .. j, 0 .. i>> \in R
      BY <2>2 DEF StrictSubsetOrdering
    <2>4. QED
      BY <2>3, <1>5
  <1>7. QED
    BY <1>6

\* bitmap.c:153: the scan answers an index whose bit is zero, or bit_count
\* exactly when no index has a zero bit.
LEMMA FindFirstZero ==
  ASSUME NEW n \in Nat \ {0}, NEW ones \in SUBSET Bits(n)
  PROVE  /\ find_first_zero(ones, n) \in Bits(n) \cup {n}
         /\ find_first_zero(ones, n) \notin ones
         /\ find_first_zero(ones, n) = n <=> ones = Bits(n)
  <1> DEFINE zs == Bits(n) \ ones
  <1> DEFINE first == CHOOSE i \in zs : \A j \in zs : i <= j
  <1>0. n \notin Bits(n) /\ zs \subseteq Nat
    BY DEF Bits
  <1>1. CASE zs = {}
    BY <1>0, <1>1 DEF find_first_zero
  <1>2. CASE zs # {}
    <2>1. \E i \in zs : \A j \in zs : i <= j
      BY <1>0, <1>2, LeastNumber
    <2>2. first \in zs
      BY <2>1
    <2>3. find_first_zero(ones, n) = first
      BY <1>2 DEF find_first_zero
    <2>4. QED
      BY <1>0, <2>2, <2>3
  <1>3. QED
    BY <1>1, <1>2
=============================================================================
