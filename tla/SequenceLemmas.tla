--------------------------- MODULE SequenceLemmas ---------------------------
(***************************************************************************)
(* Lemmas about numbers, sequences and sums that the proofs about several  *)
(* components need.                                                        *)
(***************************************************************************)
EXTENDS Integers, Sequences, FiniteSets, FiniteSetsExt, Sums, TLAPS,
        SequenceTheorems, FiniteSetTheorems, WellFoundedInduction

---------------------------------------------------------------------------
(***************************************************************************)
(* Greatest and least numbers; induction.                                  *)
(***************************************************************************)

\* A finite set of numbers has a greatest one: the set of the elements above
\* some element is minimal for inclusion only if it is empty.
LEMMA MaxIsIn ==
    ASSUME NEW S \in SUBSET Int, S # {}, IsFiniteSet(S)
    PROVE  Max(S) \in S /\ \A m \in S : m <= Max(S)
  <1> DEFINE Above(least) == {i \in S : i > least}
             T == {Above(least) : least \in S}
  <1>1. IsWellFoundedOn(StrictSubsetOrdering(S), SUBSET S)
    BY FS_StrictSubsetOrderingWellFounded, FS_FiniteSubsetsOfFinite
  <1>2. T \subseteq SUBSET S /\ T # {}
    OBVIOUS
  <1>3. PICK x \in T : \A y \in T : <<y, x>> \notin StrictSubsetOrdering(S)
    <2> HIDE DEF T
    <2> QED
      BY <1>1, <1>2, WFMin
  <1>4. PICK m \in S : x = Above(m)
    BY <1>3
  <1>5. ASSUME NEW k \in S, k > m PROVE FALSE
    <2>0. k \in Int /\ m \in Int /\ S \subseteq Int
      OBVIOUS
    <2>1. k \in Above(m) /\ k \notin Above(k)
      BY <1>5, <2>0
    <2>2. ASSUME NEW i \in S, i > k PROVE i > m
      BY <1>5, <2>0, <2>2
    <2>3. <<Above(k), Above(m)>> \in StrictSubsetOrdering(S)
      BY <2>1, <2>2 DEF StrictSubsetOrdering
    <2> QED
      BY <1>3, <1>4, <2>3
  <1>6. \A k \in S : k <= m
    BY <1>5
  <1> QED
    BY <1>6 DEF Max

\* The greater and the smaller of two numbers.
LEMMA ExtremesOfTwo ==
    ASSUME NEW a \in Int, NEW b \in Int
    PROVE  /\ Max({a, b}) = IF a >= b THEN a ELSE b
           /\ Min({a, b}) = IF a <= b THEN a ELSE b
  BY DEF Max, Min

\* The ends of a set of places that has the first and the last.
LEMMA ExtremesAtEnds ==
    ASSUME NEW n \in Nat, NEW S \in SUBSET (1..n), 1 \in S, n \in S
    PROVE  Min(S) = 1 /\ Max(S) = n
  <1>1. \A i \in S : 1 <= i /\ i <= n /\ i \in Nat
    OBVIOUS
  <1>2. Min(S) = 1
    <2>1. \A x \in S : (\A y \in S : x <= y) => x = 1
      BY <1>1
    <2> QED
      BY <1>1, <2>1 DEF Min
  <1>3. Max(S) = n
    <2>1. \A x \in S : (\A y \in S : x >= y) => x = n
      BY <1>1
    <2>2. \A y \in S : n >= y
      BY <1>1
    <2> QED
      BY <2>1, <2>2 DEF Max
  <1> QED
    BY <1>2, <1>3

\* Induction up to n, over a set: what holds of 0, and of i + 1 if it holds of
\* i, holds of n.
LEMMA InductionUpTo ==
    ASSUME NEW n \in Nat, NEW S, 0 \in S,
           \A i \in 0..n : i < n /\ i \in S => i + 1 \in S
    PROVE  n \in S
  <1> DEFINE T == {i \in 0..n : i \in S}
             U == {i \in 0..n : \A j \in 0..i : j \in S}
  <1>1. 0 \in U /\ U \in SUBSET Int
    OBVIOUS
  <1>2. IsFiniteSet(U)
    <2>1. IsFiniteSet(0..n)
      BY FS_Interval
    <2>2. U \subseteq 0..n
      OBVIOUS
    <2> QED
      BY <2>1, <2>2, FS_Subset
  <1>3. Max(U) \in U /\ \A m \in U : m <= Max(U)
    BY <1>1, <1>2, MaxIsIn
  <1>4. PICK m \in U : \A k \in U : k <= m
    BY <1>3
  <1>5. ASSUME m < n PROVE FALSE
    <2>1. m \in 0..n /\ m \in S /\ \A j \in 0..m : j \in S
      OBVIOUS
    <2>2. m + 1 \in S
      BY <1>5, <2>1
    <2>3. m + 1 \in U
      BY <1>5, <2>1, <2>2
    <2> QED
      BY <1>4, <2>3, <2>1
  <1> QED
    BY <1>5

\* A set of natural numbers has a least one.
LEMMA LeastExists ==
    ASSUME NEW S \in SUBSET Nat, S # {}
    PROVE  \E m \in S : \A k \in S : m <= k
  <1>1. PICK x \in S : TRUE
    OBVIOUS
  <1> DEFINE T == {i \in 0..x : \A k \in S : i <= k}
  <1>2. 0 \in T /\ T \in SUBSET Int
    BY <1>1
  <1>3. IsFiniteSet(T)
    <2>1. IsFiniteSet(0..x)
      BY FS_Interval
    <2>2. T \subseteq 0..x
      OBVIOUS
    <2> QED
      BY <2>1, <2>2, FS_Subset
  <1>4. PICK m \in T : \A i \in T : i <= m
    <2> HIDE DEF T
    <2> QED
      BY <1>2, <1>3, MaxIsIn
  <1>5. m \in Nat /\ m <= x /\ \A k \in S : m <= k
    BY <1>1
  <1>6. ASSUME m \notin S PROVE FALSE
    <2>1. \A k \in S : k \in Nat /\ m <= k /\ m # k
      BY <1>5, <1>6
    <2>2. \A k \in S : m + 1 <= k
      BY <1>5, <2>1
    <2>3. m + 1 \in T
      BY <1>1, <1>5, <2>2
    <2> QED
      BY <1>4, <1>5, <2>3
  <1> QED
    BY <1>5, <1>6

---------------------------------------------------------------------------
(***************************************************************************)
(* Sequences.                                                              *)
(***************************************************************************)

\* The first parts of a sequence grow by one element at a time, up to all of it.
LEMMA PrefixGrows ==
    ASSUME NEW S, NEW s \in Seq(S)
    PROVE  /\ SubSeq(s, 1, 0) = <<>>
           /\ SubSeq(s, 1, Len(s)) = s
           /\ \A i \in 0..Len(s) : SubSeq(s, 1, i) \in Seq(S)
           /\ \A i \in 0..Len(s) - 1 : SubSeq(s, 1, i + 1) = Append(SubSeq(s, 1, i), s[i + 1])
  <1>1. Len(s) \in Nat /\ \A i \in 1..Len(s) : s[i] \in S
    BY LenProperties, ElementOfSeq
  <1>2. SubSeq(s, 1, 0) = <<>> /\ SubSeq(s, 1, Len(s)) = s
    BY SubSeqEmpty, SubSeqFull
  <1>3. ASSUME NEW i \in 0..Len(s) PROVE SubSeq(s, 1, i) \in Seq(S)
    <2>1. i \in Int /\ 1 \in Int /\ \A j \in 1..i : s[j] \in S
      BY <1>1
    <2> QED
      BY <2>1, SubSeqProperties
  <1>4. ASSUME NEW i \in 0..Len(s) - 1
        PROVE  SubSeq(s, 1, i + 1) = Append(SubSeq(s, 1, i), s[i + 1])
    <2>1. 1 \in 1..Len(s) /\ i + 1 \in 1..Len(s) /\ (i + 1) - 1 = i /\ i \in 0..Len(s)
      BY <1>1
    <2>2. SubSeq(s, 1, i + 1) = SubSeq(s, 1, i) \o <<s[i + 1]>>
      BY <2>1, SubSeqRecursiveSecond
    <2>3. SubSeq(s, 1, i) \in Seq(S) /\ s[i + 1] \in S
      BY <1>1, <1>3, <2>1
    <2> QED
      BY <2>2, <2>3, AppendIsConcat
  <1> QED
    BY <1>2, <1>3, <1>4

\* Two sequences of one element make one of two.
LEMMA TwoOnes ==
    ASSUME NEW S, NEW a \in S, NEW b \in S
    PROVE  <<a>> \o <<b>> = <<a, b>>
  <1>1. <<a>> \in Seq(S) /\ <<b>> \in Seq(S) /\ <<a, b>> \in Seq(S)
    OBVIOUS
  <1>2. Len(<<a>>) = 1 /\ Len(<<b>>) = 1 /\ Len(<<a, b>>) = 2 /\ <<a>>[1] = a /\ <<b>>[1] = b
        /\ <<a, b>>[1] = a /\ <<a, b>>[2] = b
    OBVIOUS
  <1>3. /\ <<a>> \o <<b>> \in Seq(S) /\ Len(<<a>> \o <<b>>) = 2
        /\ \A i \in 1..2 : (<<a>> \o <<b>>)[i] = IF i <= 1 THEN <<a>>[i] ELSE <<b>>[i - 1]
    BY <1>1, <1>2, ConcatProperties
  <1>4. \A i \in 1..2 : (<<a>> \o <<b>>)[i] = <<a, b>>[i]
    <2>1. \A i \in 1..2 : i = 1 \/ i = 2
      OBVIOUS
    <2> QED
      BY <1>2, <1>3, <2>1
  <1> QED
    BY <1>1, <1>2, <1>3, <1>4, SeqEqual

\* A sequence that is not empty has a first and a last element.
LEMMA NotEmpty ==
    ASSUME NEW S, NEW s \in Seq(S), s # <<>>
    PROVE  Len(s) \in Nat /\ Len(s) >= 1 /\ 1 \in 1..Len(s) /\ Len(s) \in 1..Len(s)
  <1>1. Len(s) \in Nat
    BY LenProperties
  <1>2. Len(s) \in Nat \ {0}
    BY EmptySeq
  <1> QED
    BY <1>1, <1>2

\* The first and the last element of a concatenation.
LEMMA FirstOfConcat ==
    ASSUME NEW S, NEW a \in Seq(S), NEW b \in Seq(S), a # <<>>
    PROVE  a \o b # <<>> /\ (a \o b)[1] = a[1]
  <1> DEFINE ab == a \o b
  <1>1. Len(a) \in Nat /\ Len(a) >= 1 /\ Len(b) \in Nat
    BY NotEmpty, LenProperties
  <1>2. /\ ab \in Seq(S) /\ Len(ab) = Len(a) + Len(b)
        /\ \A i \in 1..Len(a) + Len(b) : ab[i] = IF i <= Len(a) THEN a[i] ELSE b[i - Len(a)]
    BY ConcatProperties
  <1> HIDE DEF ab
  <1>3. 1 \in 1..Len(a) + Len(b) /\ 1 <= Len(a) /\ Len(ab) # 0
    BY <1>1, <1>2
  <1> QED
    BY <1>2, <1>3, EmptySeq DEF ab

LEMMA LastOfConcat ==
    ASSUME NEW S, NEW a \in Seq(S), NEW b \in Seq(S), b # <<>>
    PROVE  a \o b # <<>> /\ (a \o b)[Len(a \o b)] = b[Len(b)]
  <1> DEFINE ab == a \o b
  <1>1. Len(b) \in Nat /\ Len(b) >= 1 /\ Len(a) \in Nat
    BY NotEmpty, LenProperties
  <1>2. /\ ab \in Seq(S) /\ Len(ab) = Len(a) + Len(b)
        /\ \A i \in 1..Len(a) + Len(b) : ab[i] = IF i <= Len(a) THEN a[i] ELSE b[i - Len(a)]
    BY ConcatProperties
  <1> HIDE DEF ab
  <1>3. /\ Len(ab) \in 1..Len(a) + Len(b) /\ ~(Len(ab) <= Len(a)) /\ Len(ab) # 0
        /\ Len(ab) - Len(a) = Len(b)
    BY <1>1, <1>2
  <1> QED
    BY <1>2, <1>3, EmptySeq DEF ab

---------------------------------------------------------------------------
(***************************************************************************)
(* Sums.                                                                   *)
(***************************************************************************)

\* The recursive function PartialSums is well defined.
LEMMA PartialSumsAre ==
    ASSUME NEW s \in Seq(Nat)
    PROVE  /\ PartialSums(s) \in [0..Len(s) -> Nat]
           /\ PartialSums(s)[0] = 0
           /\ \A i \in 1..Len(s) : PartialSums(s)[i] = PartialSums(s)[i - 1] + s[i]
  <1> DEFINE Sums(g, n) == /\ g \in [0..n -> Nat]
                           /\ g[0] = 0
                           /\ \A i \in 1..n : g[i] = g[i - 1] + s[i]
             Def(g) == [i \in 0..Len(s) |-> IF i = 0 THEN 0 ELSE g[i - 1] + s[i]]
             S == {n \in 0..Len(s) : \E g : Sums(g, n)}
  <1>1. Len(s) \in Nat /\ \A i \in 1..Len(s) : s[i] \in Nat
    BY ElementOfSeq, LenProperties
  <1>2. 0 \in S
    <2>1. Sums([i \in 0..0 |-> 0], 0)
      OBVIOUS
    <2> HIDE DEF Sums
    <2>2. 0 \in 0..Len(s) /\ \E g : Sums(g, 0)
      BY <1>1, <2>1
    <2> QED
      BY <2>2
  <1>3. ASSUME NEW n \in 0..Len(s), n < Len(s), n \in S
        PROVE  n + 1 \in S
    <2>1. PICK g : Sums(g, n)
      BY <1>3
    <2> DEFINE h == [i \in 0..n + 1 |-> IF i <= n THEN g[i] ELSE g[n] + s[n + 1]]
    <2>2. h \in [0..n + 1 -> Nat]
      BY <1>1, <1>3, <2>1
    <2>3. h[0] = 0
      BY <2>1
    <2>4. ASSUME NEW i \in 1..n + 1
          PROVE  h[i] = h[i - 1] + s[i]
      <3>1. CASE i = n + 1
        BY <1>1, <1>3, <2>1, <3>1
      <3>2. CASE i \in 1..n
        <4>1. h[i] = g[i] /\ h[i - 1] = g[i - 1]
          BY <1>1, <1>3, <3>2
        <4>2. g[i] = g[i - 1] + s[i]
          BY <2>1, <3>2
        <4> QED
          BY <4>1, <4>2
      <3> QED
        BY <1>1, <1>3, <3>1, <3>2
    <2>5. Sums(h, n + 1)
      BY <2>2, <2>3, <2>4
    <2>6. n + 1 \in 0..Len(s) /\ \E k : Sums(k, n + 1)
      <3> HIDE DEF h, Sums
      <3> QED
        BY <1>1, <1>3, <2>5
    <2> HIDE DEF Sums
    <2> QED
      BY <2>6
  <1>4. Len(s) \in S
    <2> HIDE DEF S
    <2> QED
      BY <1>1, <1>2, <1>3, InductionUpTo
  <1>5. PICK g : Sums(g, Len(s))
    BY <1>4
  <1>6. \E h : h = Def(h)
    <2>1. g = Def(g)
      <3>1. /\ g = [i \in 0..Len(s) |-> g[i]]
            /\ \A i \in 0..Len(s) : g[i] = IF i = 0 THEN 0 ELSE g[i - 1] + s[i]
        BY <1>1, <1>5
      <3> QED
        BY <3>1
    <2> QED
      BY <2>1
  <1>7. PartialSums(s) = Def(PartialSums(s))
    <2>1. PartialSums(s) = CHOOSE h : h = Def(h)
      BY DEF PartialSums
    <2> HIDE DEF Def
    <2> QED
      BY <1>6, <2>1
  <1> DEFINE p == PartialSums(s)
  <1>8. /\ p = [i \in 0..Len(s) |-> p[i]]
        /\ p[0] = 0
        /\ \A i \in 1..Len(s) : p[i] = p[i - 1] + s[i]
    <2> HIDE DEF p
    <2>1. p = Def(p)
      BY <1>7 DEF p
    <2> QED
      BY <1>1, <2>1
  <1> HIDE DEF p
  <1>9. ASSUME NEW n \in 0..Len(s) PROVE p[n] \in Nat
    <2> DEFINE W == {k \in 0..Len(s) : p[k] \in Nat}
    <2>1. 0 \in W
      BY <1>1, <1>8
    <2>2. ASSUME NEW k \in 0..n, k < n, k \in W PROVE k + 1 \in W
      <3>1. k + 1 \in 1..Len(s) /\ (k + 1) - 1 = k
        BY <1>1, <2>2
      <3>2. p[k + 1] = p[k] + s[k + 1]
        BY <1>8, <3>1
      <3> QED
        BY <1>1, <2>2, <3>1, <3>2
    <2>3. n \in W
      <3> HIDE DEF W
      <3> QED
        BY <2>1, <2>2, InductionUpTo
    <2> QED
      BY <2>3
  <1> QED
    BY <1>8, <1>9 DEF p

LEMMA TotalIsNat ==
    ASSUME NEW s \in Seq(Nat)
    PROVE  Total(s) \in Nat
  BY PartialSumsAre, LenProperties DEF Total

LEMMA TotalOfNone == Total(<<>>) = 0
  <1>1. <<>> \in Seq(Nat) /\ Len(<<>>) = 0
    OBVIOUS
  <1> QED
    BY <1>1, PartialSumsAre DEF Total

\* Where t runs along s from place k on, so do its sums.
LEMMA ShiftedSums ==
    ASSUME NEW s \in Seq(Nat), NEW t \in Seq(Nat), NEW k \in Nat, NEW n \in Nat,
           k + n <= Len(s), n <= Len(t),
           \A i \in 1..n : t[i] = s[k + i]
    PROVE  PartialSums(s)[k + n] = PartialSums(s)[k] + PartialSums(t)[n]
  <1> DEFINE S == {i \in 0..n : PartialSums(s)[k + i] = PartialSums(s)[k] + PartialSums(t)[i]}
  <1>1. /\ Len(s) \in Nat /\ Len(t) \in Nat
        /\ \A i \in 1..Len(s) : s[i] \in Nat
        /\ \A i \in 1..Len(t) : t[i] \in Nat
    BY LenProperties, ElementOfSeq
  <1>2. /\ \A i \in 0..Len(s) : PartialSums(s)[i] \in Nat
        /\ \A i \in 1..Len(s) : PartialSums(s)[i] = PartialSums(s)[i - 1] + s[i]
    BY PartialSumsAre
  <1>3. /\ \A i \in 0..Len(t) : PartialSums(t)[i] \in Nat
        /\ PartialSums(t)[0] = 0
        /\ \A i \in 1..Len(t) : PartialSums(t)[i] = PartialSums(t)[i - 1] + t[i]
    BY PartialSumsAre
  <1>4. 0 \in S
    <2>1. k + 0 = k /\ k \in 0..Len(s) /\ 0 \in 0..n
      BY <1>1
    <2>2. PartialSums(s)[k] \in Nat
      BY <1>2, <2>1
    <2>3. PartialSums(s)[k + 0] = PartialSums(s)[k] + PartialSums(t)[0]
      BY <1>3, <2>1, <2>2
    <2> QED
      BY <2>1, <2>3
  <1>5. ASSUME NEW i \in 0..n, i < n, i \in S PROVE i + 1 \in S
    <2>1. /\ i + 1 \in 1..n /\ i + 1 \in 1..Len(t) /\ k + (i + 1) \in 1..Len(s)
          /\ (i + 1) - 1 = i /\ (k + (i + 1)) - 1 = k + i
          /\ i \in 0..Len(t) /\ k + i \in 0..Len(s) /\ k \in 0..Len(s)
      BY <1>1, <1>5
    <2>2. PartialSums(t)[i + 1] = PartialSums(t)[i] + t[i + 1]
      BY <1>3, <2>1
    <2>3. PartialSums(s)[k + (i + 1)] = PartialSums(s)[k + i] + s[k + (i + 1)]
      BY <1>2, <2>1
    <2>4. t[i + 1] = s[k + (i + 1)] /\ t[i + 1] \in Nat
      BY <1>1, <2>1
    <2>5. PartialSums(s)[k + i] = PartialSums(s)[k] + PartialSums(t)[i]
      BY <1>5
    <2>6. /\ PartialSums(s)[k] \in Nat
          /\ PartialSums(t)[i] \in Nat
      BY <1>2, <1>3, <2>1
    <2>7. PartialSums(s)[k + (i + 1)] = PartialSums(s)[k] + PartialSums(t)[i + 1]
      BY <2>2, <2>3, <2>4, <2>5, <2>6
    <2> QED
      BY <2>1, <2>7
  <1>6. n \in S
    <2> HIDE DEF S
    <2> QED
      BY <1>4, <1>5, InductionUpTo
  <1> QED
    BY <1>6

LEMMA TotalOfConcat ==
    ASSUME NEW s \in Seq(Nat), NEW t \in Seq(Nat)
    PROVE  Total(s \o t) = Total(s) + Total(t)
  <1>1. /\ s \o t \in Seq(Nat)
        /\ Len(s \o t) = Len(s) + Len(t)
        /\ \A i \in 1..Len(s) : s[i] = (s \o t)[0 + i]
        /\ \A i \in 1..Len(t) : t[i] = (s \o t)[Len(s) + i]
        /\ Len(s) \in Nat /\ Len(t) \in Nat
    <2>1. /\ s \o t \in Seq(Nat)
          /\ Len(s \o t) = Len(s) + Len(t)
          /\ \A i \in 1..Len(s) + Len(t) :
                (s \o t)[i] = IF i <= Len(s) THEN s[i] ELSE t[i - Len(s)]
          /\ Len(s) \in Nat /\ Len(t) \in Nat
      BY ConcatProperties, LenProperties
    <2>2. \A i \in 1..Len(s) : s[i] = (s \o t)[0 + i]
      BY <2>1
    <2>3. ASSUME NEW i \in 1..Len(t) PROVE t[i] = (s \o t)[Len(s) + i]
      <3>1. Len(s) + i \in 1..Len(s) + Len(t) /\ ~(Len(s) + i <= Len(s)) /\ (Len(s) + i) - Len(s) = i
        BY <2>1
      <3> QED
        BY <2>1, <3>1
    <2> QED
      BY <2>1, <2>2, <2>3
  <1>2. PartialSums(s \o t)[0 + Len(s)] = PartialSums(s \o t)[0] + PartialSums(s)[Len(s)]
    <2>1. /\ 0 \in Nat /\ 0 + Len(s) <= Len(s \o t) /\ Len(s) <= Len(s)
      BY <1>1
    <2> QED
      BY ONLY <1>1, <2>1, ShiftedSums
  <1>3. PartialSums(s \o t)[Len(s) + Len(t)] = PartialSums(s \o t)[Len(s)] + PartialSums(t)[Len(t)]
    <2>1. Len(s) + Len(t) <= Len(s \o t) /\ Len(t) <= Len(t)
      BY <1>1
    <2> QED
      BY ONLY <1>1, <2>1, ShiftedSums
  <1>4. PartialSums(s \o t)[0] = 0 /\ Total(s) \in Nat /\ Total(t) \in Nat
    BY <1>1, PartialSumsAre, TotalIsNat
  <1>5. 0 + Len(s) = Len(s)
    BY <1>1
  <1> QED
    BY <1>1, <1>2, <1>3, <1>4, <1>5 DEF Total

\* A sequence of one size.
LEMMA TotalOfOne ==
    ASSUME NEW n \in Nat
    PROVE  Total(<<n>>) = n
  <1>1. <<n>> \in Seq(Nat) /\ Len(<<n>>) = 1 /\ <<n>>[1] = n
    OBVIOUS
  <1>2. /\ PartialSums(<<n>>)[0] = 0
        /\ \A i \in 1..1 : PartialSums(<<n>>)[i] = PartialSums(<<n>>)[i - 1] + <<n>>[i]
    BY <1>1, PartialSumsAre
  <1>3. PartialSums(<<n>>)[1] = n
    BY <1>1, <1>2
  <1> QED
    BY <1>1, <1>3 DEF Total

\* The sum of a sequence is that of a first part and of the rest.
LEMMA TotalOfParts ==
    ASSUME NEW s \in Seq(Nat), NEW front \in Seq(Nat), NEW rest \in Seq(Nat),
           Len(s) = Len(front) + Len(rest),
           \A i \in 1..Len(front) : front[i] = s[i],
           \A i \in 1..Len(rest) : rest[i] = s[Len(front) + i]
    PROVE  Total(s) = Total(front) + Total(rest)
  <1>1. Len(s) \in Nat /\ Len(front) \in Nat /\ Len(rest) \in Nat
    BY LenProperties
  <1>2. \A i \in 1..Len(front) : front[i] = s[0 + i]
    <2>1. \A i \in 1..Len(front) : 0 + i = i
      BY <1>1
    <2> QED
      BY <2>1
  <1>3. 0 + Len(front) <= Len(s) /\ Len(front) <= Len(front) /\ 0 \in Nat
    BY <1>1
  <1>4. PartialSums(s)[0 + Len(front)] = PartialSums(s)[0] + PartialSums(front)[Len(front)]
    BY <1>1, <1>2, <1>3, ShiftedSums
  <1>5. PartialSums(s)[0] = 0 /\ PartialSums(front)[Len(front)] \in Nat
    <2>1. PartialSums(s)[0] = 0
      BY PartialSumsAre
    <2>2. Total(front) \in Nat
      BY TotalIsNat
    <2> QED
      BY <2>1, <2>2 DEF Total
  <1>6. 0 + Len(front) = Len(front)
    BY <1>1
  <1>7. PartialSums(s)[Len(front)] = PartialSums(front)[Len(front)]
    BY <1>4, <1>5, <1>6
  <1>8. Len(front) + Len(rest) <= Len(s) /\ Len(rest) <= Len(rest)
    BY <1>1
  <1>9. PartialSums(s)[Len(front) + Len(rest)]
           = PartialSums(s)[Len(front)] + PartialSums(rest)[Len(rest)]
    BY <1>1, <1>8, ShiftedSums
  <1> QED
    BY <1>7, <1>9 DEF Total

---------------------------------------------------------------------------
(***************************************************************************)
(* Recursive functions.                                                    *)
(***************************************************************************)

\* The values reached from a first one by n steps.
Iterates(g, n, S, first, step) ==
    /\ g \in [0..n -> S]
    /\ g[0] = first
    /\ \A i \in 1..n : g[i] = step[i][g[i - 1]]

\* Steps taken one after the other from a first value lead somewhere.
LEMMA IterationExists ==
    ASSUME NEW n \in Nat, NEW S, NEW first \in S, NEW step \in [1..n -> [S -> S]]
    PROVE  \E g : Iterates(g, n, S, first, step)
  <1> DEFINE Steps(g, m) == /\ g \in [0..m -> S]
                            /\ g[0] = first
                            /\ \A i \in 1..m : g[i] = step[i][g[i - 1]]
             T == {m \in 0..n : \E g : Steps(g, m)}
  <1>1. 0 \in T
    <2>1. Steps([i \in 0..0 |-> first], 0)
      OBVIOUS
    <2> HIDE DEF Steps
    <2>2. 0 \in 0..n /\ \E g : Steps(g, 0)
      BY <2>1
    <2> QED
      BY <2>2
  <1>2. ASSUME NEW m \in 0..n, m < n, m \in T
        PROVE  m + 1 \in T
    <2>1. PICK g : Steps(g, m)
      BY <1>2
    <2> DEFINE h == [i \in 0..m + 1 |-> IF i <= m THEN g[i] ELSE step[m + 1][g[m]]]
    <2>2. g[m] \in S /\ step[m + 1] \in [S -> S]
      BY <1>2, <2>1
    <2>3. h \in [0..m + 1 -> S]
      BY <2>1, <2>2
    <2>4. h[0] = first
      BY <2>1
    <2>5. ASSUME NEW i \in 1..m + 1
          PROVE  h[i] = step[i][h[i - 1]]
      <3>1. CASE i = m + 1
        <4>1. h[m + 1] = step[m + 1][g[m]] /\ h[m] = g[m] /\ (m + 1) - 1 = m
          OBVIOUS
        <4> HIDE DEF h
        <4> QED
          BY <3>1, <4>1
      <3>2. CASE i \in 1..m
        <4>1. h[i] = g[i] /\ h[i - 1] = g[i - 1]
          BY <3>2
        <4>2. g[i] = step[i][g[i - 1]]
          BY <2>1, <3>2
        <4> QED
          BY <4>1, <4>2
      <3> QED
        BY <3>1, <3>2
    <2>6. Steps(h, m + 1)
      BY <2>3, <2>4, <2>5
    <2>7. m + 1 \in 0..n /\ \E k : Steps(k, m + 1)
      <3> HIDE DEF h, Steps
      <3> QED
        BY <1>2, <2>6
    <2> HIDE DEF Steps
    <2> QED
      BY <2>7
  <1>3. n \in T
    <2> HIDE DEF T
    <2> QED
      BY <1>1, <1>2, InductionUpTo
  <1>4. PICK g : Steps(g, n)
    BY <1>3
  <1> QED
    BY <1>4 DEF Iterates
=============================================================================
