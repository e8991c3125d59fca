----------------------------- MODULE Induction ------------------------------
(***************************************************************************)
(* What the proofs about numbers, finite sets and sequences rest on.  An   *)
(* induction is over the set of the numbers, or of the sets, that a        *)
(* statement is true of.                                                   *)
(***************************************************************************)
EXTENDS Integers, SequencesExt, SequenceTheorems, FiniteSetTheorems,
        WellFoundedInduction, TLAPS

\* A smaller set comes before a larger one in the order of inclusion.
LEMMA SmallerComesBefore ==
  ASSUME NEW S, NEW A \in SUBSET S, NEW B \in SUBSET S, A \subseteq B, A # B
  PROVE  <<A, B>> \in StrictSubsetOrdering(S)
<1> DEFINE p == <<A, B>>
<1>1. p \in (SUBSET S) \X (SUBSET S) /\ p[1] = A /\ p[2] = B
  OBVIOUS
<1> HIDE DEF p
<1>2. p \in StrictSubsetOrdering(S)
  BY <1>1 DEF StrictSubsetOrdering
<1>3. QED
  BY <1>2 DEF p

\* A set of natural numbers has a least one: that order is well founded on the
\* intervals from 0.
LEMMA LeastNumber ==
  ASSUME NEW T \in SUBSET Nat, T # {}
  PROVE  \E m \in T : \A n \in T : m <= n
<1> DEFINE D == {0..n : n \in T}
<1>1. D \subseteq FiniteSubsetsOf(Nat)
  <2>1. ASSUME NEW n \in T PROVE IsFiniteSet(0..n) /\ 0..n \subseteq Nat
    BY FS_Interval
  <2>2. QED
    BY <2>1 DEF FiniteSubsetsOf
<1>2. D # {}
  OBVIOUS
<1>3. \E x \in D : \A y \in D : <<y, x>> \notin StrictSubsetOrdering(Nat)
  <2> HIDE DEF D
  <2> QED
    BY <1>1, <1>2, WFMin, FS_StrictSubsetOrderingWellFounded
<1>4. PICK m \in T : \A n \in T : <<0..n, 0..m>> \notin StrictSubsetOrdering(Nat)
  BY <1>3
<1>5. ASSUME NEW n \in T, n < m PROVE FALSE
  <2>1. 0..n \subseteq 0..m /\ m \in 0..m /\ m \notin 0..n /\ 0..m \subseteq Nat
    BY <1>5
  <2>2. QED
    BY <1>4, <2>1, SmallerComesBefore
<1>6. QED
  BY <1>5

\* What is true of 0 and of each successor of a number it is true of is true of
\* every natural number.
LEMMA NumbersByInduction ==
  ASSUME NEW T \in SUBSET Nat, 0 \in T, \A n \in T : n + 1 \in T
  PROVE  T = Nat
<1> SUFFICES ASSUME Nat \ T # {}
             PROVE  FALSE
  OBVIOUS
<1>1. PICK m \in Nat \ T : \A n \in Nat \ T : m <= n
  BY LeastNumber
<1>2. m - 1 \in Nat /\ m - 1 \in T
  BY <1>1
<1>3. QED
  BY <1>1, <1>2

\* What is true of the empty set, and stays true when an element is added, is true
\* of every finite set.
LEMMA SetsByInduction ==
  ASSUME NEW S, IsFiniteSet(S), NEW T \in SUBSET (SUBSET S), {} \in T,
         \A A \in T : \A x \in S \ A : A \cup {x} \in T
  PROVE  S \in T
<1> SUFFICES ASSUME S \notin T
             PROVE  FALSE
  OBVIOUS
<1> DEFINE D == (SUBSET S) \ T
<1>1. D \subseteq FiniteSubsetsOf(S)
  BY FS_Subset DEF FiniteSubsetsOf
<1>2. \E A \in D : \A B \in D : <<B, A>> \notin StrictSubsetOrdering(S)
  <2>1. S \in D
    OBVIOUS
  <2> HIDE DEF D
  <2>2. QED
    BY <1>1, <2>1, WFMin, FS_StrictSubsetOrderingWellFounded
<1>3. PICK A \in D : \A B \in D : <<B, A>> \notin StrictSubsetOrdering(S)
  BY <1>2
<1>4. PICK x \in A : TRUE
  OBVIOUS
<1>5. A \ {x} \in T
  BY <1>3, <1>4, SmallerComesBefore
<1>6. (A \ {x}) \cup {x} = A
  OBVIOUS
<1>7. QED
  BY <1>5, <1>6

-----------------------------------------------------------------------------
(***************************************************************************)
(* The order a sequence keeps is a relation between each of its elements   *)
(* and those behind it.                                                    *)
(***************************************************************************)
InOrder(R, s) == \A j, k \in DOMAIN s : j < k => <<s[j], s[k]>> \in R

\* A sequence of one element, and one without any.
LEMMA ShortSequences ==
  /\ ToSet(<<>>) = {} /\ \A R : InOrder(R, <<>>)
  /\ \A x : ToSet(<<x>>) = {x} /\ \A R : InOrder(R, <<x>>)
BY DEF ToSet, InOrder

\* The elements of two sequences put together.
LEMMA ElementsOfBoth ==
  ASSUME NEW S, NEW s \in Seq(S), NEW t \in Seq(S)
  PROVE  ToSet(s \o t) = ToSet(s) \cup ToSet(t)
<1>1. /\ Len(s) \in Nat /\ Len(t) \in Nat
      /\ DOMAIN s = 1..Len(s) /\ DOMAIN t = 1..Len(t)
      /\ DOMAIN (s \o t) = 1..Len(s) + Len(t)
      /\ \A k \in 1..Len(s) : (s \o t)[k] = s[k]
      /\ \A k \in 1..Len(t) : (s \o t)[Len(s) + k] = t[k]
  OBVIOUS
<1> DEFINE c == s \o t
<1> HIDE DEF c
<1>2. ASSUME NEW x \in ToSet(c)
      PROVE  x \in ToSet(s) \cup ToSet(t)
  <2>1. PICK k \in 1..Len(s) + Len(t) : x = c[k]
    BY <1>1, <1>2 DEF ToSet, c
  <2>2. CASE k <= Len(s)
    BY <1>1, <2>1, <2>2 DEF ToSet, c
  <2>3. CASE ~(k <= Len(s))
    <3>1. k - Len(s) \in 1..Len(t) /\ k = Len(s) + (k - Len(s))
      BY <1>1, <2>1, <2>3
    <3>2. QED
      BY <1>1, <2>1, <3>1 DEF ToSet, c
  <2>4. QED
    BY <2>2, <2>3
<1>3. ASSUME NEW x \in ToSet(s) \cup ToSet(t)
      PROVE  x \in ToSet(c)
  <2>1. CASE x \in ToSet(s)
    BY <1>1, <2>1 DEF ToSet, c
  <2>2. CASE x \in ToSet(t)
    <3>1. PICK k \in 1..Len(t) : x = t[k]
      BY <1>1, <2>2 DEF ToSet
    <3>2. Len(s) + k \in 1..Len(s) + Len(t)
      BY <1>1
    <3>3. QED
      BY <1>1, <3>1, <3>2 DEF ToSet, c
  <2>3. QED
    BY <1>3, <2>1, <2>2
<1>4. QED
  BY <1>2, <1>3 DEF c

\* Two sequences put together keep an order if both do, and what is in the first
\* may come before what is in the second.
LEMMA OrderOfBoth ==
  ASSUME NEW S, NEW s \in Seq(S), NEW t \in Seq(S), NEW R
  PROVE  InOrder(R, s \o t) <=>
           InOrder(R, s) /\ InOrder(R, t) /\ ToSet(s) \X ToSet(t) \subseteq R
<1>1. /\ Len(s) \in Nat /\ Len(t) \in Nat
      /\ DOMAIN s = 1..Len(s) /\ DOMAIN t = 1..Len(t)
      /\ DOMAIN (s \o t) = 1..Len(s) + Len(t)
      /\ \A k \in 1..Len(s) : (s \o t)[k] = s[k]
      /\ \A k \in 1..Len(t) : (s \o t)[Len(s) + k] = t[k]
  OBVIOUS
<1> DEFINE c == s \o t
<1> HIDE DEF c
<1>2. ASSUME InOrder(R, c)
      PROVE  InOrder(R, s) /\ InOrder(R, t) /\ ToSet(s) \X ToSet(t) \subseteq R
  <2>1. InOrder(R, s)
    <3>1. ASSUME NEW j \in 1..Len(s), NEW k \in 1..Len(s), j < k
          PROVE  <<s[j], s[k]>> \in R
      <4>1. j \in DOMAIN c /\ k \in DOMAIN c
        BY <1>1 DEF c
      <4>2. <<c[j], c[k]>> \in R
        BY <1>2, <3>1, <4>1 DEF InOrder
      <4>3. QED
        BY <1>1, <4>2 DEF c
    <3>2. QED
      BY <1>1, <3>1 DEF InOrder
  <2>2. InOrder(R, t)
    <3>1. ASSUME NEW j \in 1..Len(t), NEW k \in 1..Len(t), j < k
          PROVE  <<t[j], t[k]>> \in R
      <4>1. Len(s) + j \in DOMAIN c /\ Len(s) + k \in DOMAIN c /\ Len(s) + j < Len(s) + k
        BY <1>1, <3>1 DEF c
      <4>2. <<c[Len(s) + j], c[Len(s) + k]>> \in R
        BY <1>2, <4>1 DEF InOrder
      <4>3. QED
        BY <1>1, <4>2 DEF c
    <3>2. QED
      BY <1>1, <3>1 DEF InOrder
  <2>3. ASSUME NEW x \in ToSet(s), NEW y \in ToSet(t)
        PROVE  <<x, y>> \in R
    <3>1. PICK j \in 1..Len(s) : x = s[j]
      BY <1>1 DEF ToSet
    <3>2. PICK k \in 1..Len(t) : y = t[k]
      BY <1>1 DEF ToSet
    <3>3. j \in DOMAIN c /\ Len(s) + k \in DOMAIN c /\ j < Len(s) + k
      BY <1>1 DEF c
    <3>4. <<c[j], c[Len(s) + k]>> \in R
      BY <1>2, <3>3 DEF InOrder
    <3>5. QED
      BY <1>1, <3>1, <3>2, <3>4 DEF c
  <2>4. QED
    BY <2>1, <2>2, <2>3
<1>3. ASSUME InOrder(R, s), InOrder(R, t), ToSet(s) \X ToSet(t) \subseteq R
      PROVE  InOrder(R, c)
  <2> SUFFICES ASSUME NEW j \in 1..Len(s) + Len(t), NEW k \in 1..Len(s) + Len(t), j < k
               PROVE  <<c[j], c[k]>> \in R
    BY <1>1 DEF InOrder, c
  <2>1. CASE k <= Len(s)
    <3>1. j \in DOMAIN s /\ k \in DOMAIN s /\ c[j] = s[j] /\ c[k] = s[k]
      BY <1>1, <2>1 DEF c
    <3>2. QED
      BY <1>3, <3>1 DEF InOrder
  <2>2. CASE ~(k <= Len(s))
    <3>1. k - Len(s) \in 1..Len(t) /\ k = Len(s) + (k - Len(s))
      BY <1>1, <2>2
    <3>2. c[k] = t[k - Len(s)]
      BY <1>1, <3>1 DEF c
    <3>3. CASE j <= Len(s)
      <4>1. c[j] \in ToSet(s) /\ c[k] \in ToSet(t)
        BY <1>1, <3>1, <3>2, <3>3, SMTT(30) DEF ToSet, c
      <4>2. QED
        BY <1>3, <4>1
    <3>4. CASE ~(j <= Len(s))
      <4>1. j - Len(s) \in 1..Len(t) /\ j = Len(s) + (j - Len(s)) /\ j - Len(s) < k - Len(s)
        BY <1>1, <3>4
      <4>2. c[j] = t[j - Len(s)]
        BY <1>1, <4>1 DEF c
      <4>3. QED
        BY <1>1, <1>3, <3>1, <3>2, <4>1, <4>2 DEF InOrder
    <3>5. QED
      BY <3>3, <3>4
  <2>3. QED
    BY <2>1, <2>2
<1>4. QED
  BY <1>2, <1>3 DEF c

\* A sequence is what is in front of a cut and what is behind it.
LEMMA CutInTwo ==
  ASSUME NEW S, NEW s \in Seq(S), NEW c \in 0..Len(s)
  PROVE  /\ SubSeq(s, 1, c) \in Seq(S) /\ Len(SubSeq(s, 1, c)) = c
         /\ \A k \in 1..c : SubSeq(s, 1, c)[k] = s[k]
         /\ SubSeq(s, c + 1, Len(s)) \in Seq(S) /\ Len(SubSeq(s, c + 1, Len(s))) = Len(s) - c
         /\ \A k \in 1..Len(s) - c : SubSeq(s, c + 1, Len(s))[k] = s[c + k]
         /\ SubSeq(s, 1, c) \o SubSeq(s, c + 1, Len(s)) = s
<1> DEFINE f == SubSeq(s, 1, c)
           b == SubSeq(s, c + 1, Len(s))
<1>1. Len(s) \in Nat /\ c \in Nat /\ c <= Len(s) /\ \A k \in 1..Len(s) : s[k] \in S
  OBVIOUS
<1>2. f \in Seq(S) /\ Len(f) = c /\ \A k \in 1..c : f[k] = s[k]
  <2>1. \A k \in 1..c : s[k] \in S
    BY <1>1
  <2>2. /\ f \in Seq(S) /\ Len(f) = (IF 1 <= c THEN c - 1 + 1 ELSE 0)
        /\ \A k \in 1..c - 1 + 1 : f[k] = s[1 + k - 1]
    BY <1>1, <2>1, SubSeqProperties
  <2> HIDE DEF f
  <2>3. QED
    BY <1>1, <2>2
<1>3. b \in Seq(S) /\ Len(b) = Len(s) - c /\ \A k \in 1..Len(s) - c : b[k] = s[c + k]
  <2>1. \A k \in c + 1..Len(s) : s[k] \in S
    BY <1>1
  <2>2. /\ b \in Seq(S) /\ Len(b) = (IF c + 1 <= Len(s) THEN Len(s) - (c + 1) + 1 ELSE 0)
        /\ \A k \in 1..Len(s) - (c + 1) + 1 : b[k] = s[c + 1 + k - 1]
    BY <1>1, <2>1, SubSeqProperties
  <2> HIDE DEF b
  <2>3. QED
    BY <1>1, <2>2
<1> HIDE DEF f, b
<1>4. f \o b = s
  <2>1. /\ f \o b \in Seq(S) /\ Len(f \o b) = Len(s)
        /\ \A k \in 1..Len(s) : (f \o b)[k] = IF k <= c THEN f[k] ELSE b[k - c]
    BY <1>1, <1>2, <1>3, ConcatProperties
  <2> DEFINE w == f \o b
  <2> HIDE DEF w
  <2>2. ASSUME NEW k \in 1..Len(s) PROVE w[k] = s[k]
    <3>1. CASE k <= c
      BY <1>1, <1>2, <2>1, <3>1 DEF w
    <3>2. CASE ~(k <= c)
      <4>1. k - c \in 1..Len(s) - c /\ c + (k - c) = k
        BY <1>1, <3>2
      <4>2. QED
        BY <1>3, <2>1, <3>2, <4>1 DEF w
    <3>3. QED
      BY <3>1, <3>2
  <2>3. w \in Seq(S) /\ Len(w) = Len(s)
    BY <2>1 DEF w
  <2>4. w = s
    BY <2>2, <2>3, SeqEqual
  <2>5. QED
    BY <2>4 DEF w
<1>5. QED
  BY <1>2, <1>3, <1>4 DEF f, b

-----------------------------------------------------------------------------
(***************************************************************************)
(* Sums over finite sets, of a function's values.                          *)
(***************************************************************************)
Total(f, S) == MapThenSumSet(LAMBDA x : f[x], S)

\* The element a sum takes first.
First(A) == CHOOSE x \in A : TRUE

\* F is the sum over every subset of S.
IsSums(F, f, S) ==
  F = [A \in SUBSET S |-> IF A = {} THEN 0 ELSE f[First(A)] + F[A \ {First(A)}]]

LEMMA TotalIsSums ==
  ASSUME NEW f, NEW S
  PROVE  Total(f, S) = (CHOOSE F : IsSums(F, f, S))[S]
BY DEF Total, IsSums, First, MapThenSumSet, MapThenFoldSet

\* Taking away an element makes a finite set smaller by one.
LEMMA OneLess ==
  ASSUME NEW A, IsFiniteSet(A), NEW x \in A
  PROVE  /\ IsFiniteSet(A \ {x}) /\ Cardinality(A) \in Nat \ {0}
         /\ Cardinality(A \ {x}) = Cardinality(A) - 1
         /\ Cardinality(A \ {x}) \in Nat
<1>1. Cardinality(A) \in Nat /\ Cardinality(A) # 0
  BY FS_CardinalityType, FS_EmptySet
<1>2. IsFiniteSet(A \ {x}) /\ Cardinality(A \ {x}) = Cardinality(A) - 1
  BY FS_RemoveElement
<1>3. QED
  BY <1>1, <1>2

LEMMA FirstIsIn ==
  ASSUME NEW A, A # {}
  PROVE  First(A) \in A
BY DEF First

LEMMA SumsExist ==
  ASSUME NEW f, NEW S, IsFiniteSet(S)
  PROVE  \E F : IsSums(F, f, S)
<1> DEFINE Rest(A) == A \ {First(A)}
           UpTo(F, n) ==
             \A A \in SUBSET S :
               Cardinality(A) <= n =>
                 F[A] = IF A = {} THEN 0 ELSE f[First(A)] + F[Rest(A)]
           T == {n \in Nat : \E F : UpTo(F, n)}
<1>1. \A A \in SUBSET S : IsFiniteSet(A) /\ Cardinality(A) \in Nat
  BY FS_Subset, FS_CardinalityType
<1>2. \A A \in SUBSET S : A # {} => /\ Rest(A) \in SUBSET S
                                   /\ Cardinality(Rest(A)) = Cardinality(A) - 1
                                   /\ Cardinality(A) # 0
  <2>1. ASSUME NEW A \in SUBSET S, A # {}
        PROVE  Rest(A) \in SUBSET S /\ Cardinality(Rest(A)) = Cardinality(A) - 1
               /\ Cardinality(A) # 0
    <3>1. First(A) \in A
      BY <2>1, FirstIsIn
    <3>2. QED
      BY <1>1, <3>1, OneLess
  <2>2. QED
    BY <2>1
<1>3. Cardinality({}) = 0
  BY FS_EmptySet
<1> HIDE DEF Rest
<1>4. 0 \in T
  <2>1. UpTo([A \in SUBSET S |-> 0], 0)
    <3>1. ASSUME NEW A \in SUBSET S, Cardinality(A) <= 0
          PROVE  A = {}
      BY <1>1, <3>1, FS_EmptySet
    <3>2. QED
      BY <3>1
  <2> HIDE DEF UpTo
  <2>2. QED
    BY <2>1
<1>5. ASSUME NEW n \in T
      PROVE  n + 1 \in T
  <2>1. PICK F : UpTo(F, n)
    OBVIOUS
  <2> DEFINE G == [A \in SUBSET S |->
                     IF A = {} THEN 0
                     ELSE IF Cardinality(A) <= n THEN F[A]
                     ELSE f[First(A)] + F[Rest(A)]]
  <2>2. ASSUME NEW A \in SUBSET S, Cardinality(A) <= n + 1
        PROVE  G[A] = IF A = {} THEN 0 ELSE f[First(A)] + G[Rest(A)]
    <3>1. CASE A = {}
      BY <3>1
    <3>2. CASE A # {}
      <4>1. Rest(A) \in SUBSET S /\ Cardinality(Rest(A)) <= n
        BY <1>1, <1>2, <2>2, <3>2
      <4>2. G[Rest(A)] = F[Rest(A)]
        <5>1. CASE Rest(A) = {}
          <6>1. Cardinality({}) <= n
            BY <1>3
          <6>2. F[{}] = 0
            BY <2>1, <6>1
          <6>3. QED
            BY <5>1, <6>2
        <5>2. CASE Rest(A) # {}
          BY <4>1, <5>2
        <5>3. QED
          BY <5>1, <5>2
      <4>3. G[A] = f[First(A)] + F[Rest(A)]
        BY <2>1, <3>2
      <4>4. QED
        BY <3>2, <4>2, <4>3
    <3>3. QED
      BY <3>1, <3>2
  <2>3. UpTo(G, n + 1)
    BY <2>2
  <2> HIDE DEF UpTo, G
  <2>4. QED
    BY <2>3
<1>6. T = Nat
  <2>1. T \subseteq Nat
    OBVIOUS
  <2> HIDE DEF T
  <2>2. QED
    BY <1>4, <1>5, <2>1, NumbersByInduction
<1>7. PICK F : UpTo(F, Cardinality(S))
  <2>1. Cardinality(S) \in Nat
    BY FS_CardinalityType
  <2> HIDE DEF UpTo
  <2>2. QED
    BY <1>6, <2>1
<1> DEFINE H == [A \in SUBSET S |-> F[A]]
<1>8. ASSUME NEW A \in SUBSET S
      PROVE  H[A] = IF A = {} THEN 0 ELSE f[First(A)] + H[Rest(A)]
  <2>1. Cardinality(A) <= Cardinality(S)
    BY FS_Subset
  <2>2. F[A] = IF A = {} THEN 0 ELSE f[First(A)] + F[Rest(A)]
    BY <1>7, <2>1
  <2>3. QED
    BY <1>2, <2>2
<1>9. H = [A \in SUBSET S |-> IF A = {} THEN 0 ELSE f[First(A)] + H[Rest(A)]]
  <2>1. H = [A \in SUBSET S |-> H[A]]
    OBVIOUS
  <2> HIDE DEF H
  <2>2. QED
    BY <1>8, <2>1
<1> HIDE DEF H
<1>10. IsSums(H, f, S)
  BY <1>9 DEF IsSums, Rest
<1>11. QED
  BY <1>10

\* The sums over the subsets of a set are those over the subsets of a larger one.
LEMMA SumsAgree ==
  ASSUME NEW f, NEW S, IsFiniteSet(S), NEW R \in SUBSET S,
         NEW F, IsSums(F, f, S), NEW G, IsSums(G, f, R)
  PROVE  \A A \in SUBSET R : F[A] = G[A]
<1> DEFINE Agree(n) == \A A \in SUBSET R : Cardinality(A) = n => F[A] = G[A]
           T == {n \in Nat : Agree(n)}
<1>1. \A A \in SUBSET R : /\ A \in SUBSET S /\ IsFiniteSet(A) /\ Cardinality(A) \in Nat
                          /\ Cardinality(A) = 0 <=> A = {}
  BY FS_Subset, FS_CardinalityType, FS_EmptySet
<1>2. \A A \in SUBSET R :
        /\ F[A] = IF A = {} THEN 0 ELSE f[First(A)] + F[A \ {First(A)}]
        /\ G[A] = IF A = {} THEN 0 ELSE f[First(A)] + G[A \ {First(A)}]
  <2>1. \A A \in SUBSET S :
          F[A] = IF A = {} THEN 0 ELSE f[First(A)] + F[A \ {First(A)}]
    BY DEF IsSums
  <2>2. \A A \in SUBSET R :
          G[A] = IF A = {} THEN 0 ELSE f[First(A)] + G[A \ {First(A)}]
    BY DEF IsSums
  <2>3. QED
    BY <1>1, <2>1, <2>2
<1>3. 0 \in T
  <2>1. Agree(0)
    BY <1>1, <1>2
  <2> HIDE DEF Agree
  <2>2. QED
    BY <2>1
<1>4. ASSUME NEW n \in T
      PROVE  n + 1 \in T
  <2>1. Agree(n) /\ n \in Nat
    OBVIOUS
  <2>2. ASSUME NEW A \in SUBSET R, Cardinality(A) = n + 1
        PROVE  F[A] = G[A]
    <3>1. A # {}
      BY <1>1, <2>1, <2>2
    <3>2. First(A) \in A
      BY <3>1, FirstIsIn
    <3>3. Cardinality(A \ {First(A)}) = n
      BY <1>1, <2>1, <2>2, <3>2, OneLess
    <3>4. F[A \ {First(A)}] = G[A \ {First(A)}]
      BY <2>1, <3>3
    <3>5. QED
      BY <1>2, <3>1, <3>4
  <2>3. Agree(n + 1)
    BY <2>2
  <2> HIDE DEF Agree
  <2>4. QED
    BY <2>1, <2>3
<1>5. T = Nat
  <2>1. T \subseteq Nat
    OBVIOUS
  <2> HIDE DEF T
  <2>2. QED
    BY <1>3, <1>4, <2>1, NumbersByInduction
<1>6. \A n \in Nat : Agree(n)
  <2> HIDE DEF Agree
  <2> QED
    BY <1>5
<1>7. QED
  BY <1>1, <1>6

\* A sum over nothing, and the sum taken one element at a time.
LEMMA TotalOfNone ==
  ASSUME NEW f
  PROVE  Total(f, {}) = 0
<1>1. \E F : IsSums(F, f, {})
  BY SumsExist, FS_EmptySet
<1> DEFINE F == CHOOSE F : IsSums(F, f, {})
<1>2. IsSums(F, f, {})
  BY <1>1
<1> HIDE DEF F
<1>3. F[{}] = 0
  BY <1>2 DEF IsSums
<1>4. QED
  BY <1>3, TotalIsSums DEF F

LEMMA TotalFromFirst ==
  ASSUME NEW f, NEW S, IsFiniteSet(S), S # {}
  PROVE  Total(f, S) = f[First(S)] + Total(f, S \ {First(S)})
<1> DEFINE R == S \ {First(S)}
           F == CHOOSE F : IsSums(F, f, S)
           G == CHOOSE G : IsSums(G, f, R)
<1>1. R \in SUBSET S /\ IsFiniteSet(R)
  BY FS_Subset
<1>2. IsSums(F, f, S) /\ IsSums(G, f, R)
  <2>1. (\E F_1 : IsSums(F_1, f, S)) /\ (\E F_1 : IsSums(F_1, f, R))
    BY <1>1, SumsExist
  <2>2. QED
    BY <2>1
<1>3. Total(f, S) = F[S] /\ Total(f, R) = G[R]
  BY TotalIsSums
<1> HIDE DEF F, G
<1>4. F[R] = G[R]
  BY <1>1, <1>2, SumsAgree
<1>5. F[S] = f[First(S)] + F[R]
  BY <1>2 DEF IsSums
<1>6. QED
  BY <1>3, <1>4, <1>5

LEMMA TotalIsNumber ==
  ASSUME NEW S, IsFiniteSet(S), NEW f, \A x \in S : f[x] \in Int
  PROVE  Total(f, S) \in Int
<1> DEFINE Number(n) == \A A \in SUBSET S : Cardinality(A) = n => Total(f, A) \in Int
           T == {n \in Nat : Number(n)}
<1>1. \A A \in SUBSET S : /\ IsFiniteSet(A) /\ Cardinality(A) \in Nat
                          /\ Cardinality(A) = 0 <=> A = {}
  BY FS_Subset, FS_CardinalityType, FS_EmptySet
<1>2. 0 \in T
  <2>1. Number(0)
    BY <1>1, TotalOfNone
  <2> HIDE DEF Number
  <2>2. QED
    BY <2>1
<1>3. ASSUME NEW n \in T
      PROVE  n + 1 \in T
  <2>1. Number(n) /\ n \in Nat
    OBVIOUS
  <2>2. ASSUME NEW A \in SUBSET S, Cardinality(A) = n + 1
        PROVE  Total(f, A) \in Int
    <3>1. A # {} /\ IsFiniteSet(A)
      BY <1>1, <2>1, <2>2
    <3>2. First(A) \in A
      BY <3>1, FirstIsIn
    <3>3. Cardinality(A \ {First(A)}) = n
      BY <1>1, <2>1, <2>2, <3>2, OneLess
    <3>4. Total(f, A \ {First(A)}) \in Int /\ f[First(A)] \in Int
      BY <2>1, <3>2, <3>3
    <3>5. QED
      BY <3>1, <3>4, TotalFromFirst
  <2>3. Number(n + 1)
    BY <2>2
  <2> HIDE DEF Number
  <2>4. QED
    BY <2>1, <2>3
<1>4. T = Nat
  <2>1. T \subseteq Nat
    OBVIOUS
  <2> HIDE DEF T
  <2>2. QED
    BY <1>2, <1>3, <2>1, NumbersByInduction
<1>5. \A n \in Nat : Number(n)
  <2> HIDE DEF Number
  <2> QED
    BY <1>4
<1>6. QED
  BY <1>1, <1>5

\* The order of taking the elements makes no difference.
LEMMA TotalFromAny ==
  ASSUME NEW S, IsFiniteSet(S), NEW f, \A x \in S : f[x] \in Int, NEW y \in S
  PROVE  Total(f, S) = f[y] + Total(f, S \ {y})
<1> DEFINE Swaps(n) ==
             \A A \in SUBSET S : Cardinality(A) = n =>
               \A x \in A : Total(f, A) = f[x] + Total(f, A \ {x})
           T == {n \in Nat : Swaps(n)}
<1>1. \A A \in SUBSET S : /\ IsFiniteSet(A) /\ Cardinality(A) \in Nat
                          /\ Cardinality(A) = 0 <=> A = {}
                          /\ \A x \in A : f[x] \in Int
                          /\ Total(f, A) \in Int
  <2>1. ASSUME NEW A \in SUBSET S
        PROVE  /\ IsFiniteSet(A) /\ \A x \in A : f[x] \in Int
    BY FS_Subset
  <2>2. ASSUME NEW A \in SUBSET S
        PROVE  /\ Cardinality(A) \in Nat
               /\ Cardinality(A) = 0 <=> A = {}
               /\ Total(f, A) \in Int
    BY <2>1, FS_CardinalityType, FS_EmptySet, TotalIsNumber
  <2>3. QED
    BY <2>1, <2>2
<1>2. 0 \in T
  <2>1. Swaps(0)
    BY <1>1
  <2> HIDE DEF Swaps
  <2>2. QED
    BY <2>1
<1>3. ASSUME NEW n \in T
      PROVE  n + 1 \in T
  <2>1. Swaps(n) /\ n \in Nat
    OBVIOUS
  <2>2. ASSUME NEW A \in SUBSET S, Cardinality(A) = n + 1, NEW x \in A
        PROVE  Total(f, A) = f[x] + Total(f, A \ {x})
    <3> DEFINE z == First(A)
               rest == A \ {z}
    <3>1. z \in A /\ IsFiniteSet(A) /\ A # {} /\ rest \in SUBSET S
          /\ A \ {x} \in SUBSET S
      BY <1>1, FirstIsIn
    <3>2. Total(f, A) = f[z] + Total(f, rest)
      BY <3>1, TotalFromFirst
    <3> HIDE DEF z
    <3>3. CASE x = z
      BY <3>2, <3>3
    <3>4. CASE x # z
      <4>1. Cardinality(rest) = n /\ Cardinality(A \ {x}) = n
        BY <1>1, <2>1, <2>2, <3>1, OneLess
      <4>2. Total(f, rest) = f[x] + Total(f, rest \ {x})
        BY <2>1, <3>1, <3>4, <4>1
      <4>3. Total(f, A \ {x}) = f[z] + Total(f, (A \ {x}) \ {z})
        BY <2>1, <3>1, <3>4, <4>1
      <4>4. rest \ {x} = (A \ {x}) \ {z} /\ rest \ {x} \in SUBSET S
        OBVIOUS
      <4> DEFINE t == Total(f, rest \ {x})
      <4>5. f[x] \in Int /\ f[z] \in Int /\ t \in Int
        BY <1>1, <3>1, <4>4
      <4>6. Total(f, A \ {x}) = f[z] + t /\ Total(f, A) = f[z] + (f[x] + t)
        BY <3>2, <4>2, <4>3, <4>4
      <4> HIDE DEF t
      <4>7. f[z] + (f[x] + t) = f[x] + (f[z] + t)
        BY <4>5
      <4>8. QED
        BY <4>6, <4>7
    <3>5. QED
      BY <3>3, <3>4
  <2>3. Swaps(n + 1)
    BY <2>2
  <2> HIDE DEF Swaps
  <2>4. QED
    BY <2>1, <2>3
<1>4. T = Nat
  <2>1. T \subseteq Nat
    OBVIOUS
  <2> HIDE DEF T
  <2>2. QED
    BY <1>2, <1>3, <2>1, NumbersByInduction
<1>5. \A n \in Nat : Swaps(n)
  <2> HIDE DEF Swaps
  <2> QED
    BY <1>4
<1>6. QED
  BY <1>1, <1>5

\* An element is added.
LEMMA TotalWithOneMore ==
  ASSUME NEW S, IsFiniteSet(S), NEW f, \A x \in S : f[x] \in Int,
         NEW A \in SUBSET S, NEW y \in S \ A
  PROVE  /\ Total(f, A \cup {y}) = f[y] + Total(f, A)
         /\ Total(f, A) \in Int /\ f[y] \in Int
<1>1. A \cup {y} \in SUBSET S /\ (A \cup {y}) \ {y} = A
  OBVIOUS
<1>2. IsFiniteSet(A \cup {y}) /\ IsFiniteSet(A)
  BY <1>1, FS_Subset
<1>3. \A x \in A \cup {y} : f[x] \in Int
  BY <1>1
<1>4. Total(f, A) \in Int
  BY <1>2, <1>3, TotalIsNumber
<1>5. Total(f, A \cup {y}) = f[y] + Total(f, (A \cup {y}) \ {y})
  BY <1>2, <1>3, TotalFromAny
<1>6. QED
  BY <1>1, <1>4, <1>5

LEMMA TotalGrows ==
  ASSUME NEW S, IsFiniteSet(S), NEW f, \A x \in S : f[x] \in Int
  PROVE  \A A \in SUBSET S : \A x \in S \ A :
           /\ Total(f, A \cup {x}) = f[x] + Total(f, A)
           /\ Total(f, A) \in Int
<1> TAKE A \in SUBSET S
<1> TAKE x \in S \ A
<1> QED
  BY TotalWithOneMore

\* A sum of smaller values is no larger.
LEMMA TotalCompares ==
  ASSUME NEW S, IsFiniteSet(S), NEW f, \A x \in S : f[x] \in Int,
         NEW g, \A x \in S : g[x] \in Int, \A x \in S : f[x] <= g[x]
  PROVE  Total(f, S) <= Total(g, S)
<1> DEFINE T == {A \in SUBSET S : Total(f, A) <= Total(g, A)}
<1>1. {} \in T
  BY TotalOfNone
<1>2. ASSUME NEW A \in T, NEW y \in S \ A
      PROVE  A \cup {y} \in T
  <2>1. /\ Total(f, A \cup {y}) = f[y] + Total(f, A)
        /\ Total(g, A \cup {y}) = g[y] + Total(g, A)
        /\ Total(f, A) \in Int /\ Total(g, A) \in Int /\ f[y] \in Int /\ g[y] \in Int
    BY TotalWithOneMore
  <2> DEFINE x1 == Total(f, A)
             x2 == Total(g, A)
  <2>2. x1 <= x2 /\ f[y] <= g[y]
    OBVIOUS
  <2> HIDE DEF x1, x2
  <2>3. f[y] + x1 <= g[y] + x2
    BY <2>1, <2>2 DEF x1, x2
  <2>4. QED
    BY <2>1, <2>3 DEF x1, x2
<1>3. T \in SUBSET (SUBSET S)
  OBVIOUS
<1> HIDE DEF T
<1>4. S \in T
  BY <1>1, <1>2, <1>3, SetsByInduction
<1>5. QED
  BY <1>4 DEF T

\* A sum of equal values.
LEMMA TotalOfSame ==
  ASSUME NEW S, IsFiniteSet(S), NEW c \in Int, NEW f, \A x \in S : f[x] = c
  PROVE  Total(f, S) = Cardinality(S) * c
<1> DEFINE T == {A \in SUBSET S : Total(f, A) = Cardinality(A) * c}
<1>1. {} \in T
  BY TotalOfNone, FS_EmptySet
<1>2. ASSUME NEW A \in T, NEW y \in S \ A
      PROVE  A \cup {y} \in T
  <2>1. Total(f, A \cup {y}) = f[y] + Total(f, A)
    BY TotalWithOneMore
  <2>2. IsFiniteSet(A)
    BY FS_Subset
  <2>3. Cardinality(A \cup {y}) = Cardinality(A) + 1 /\ Cardinality(A) \in Nat
    BY <2>2, FS_AddElement, FS_CardinalityType
  <2> DEFINE n == Cardinality(A)
  <2> HIDE DEF n
  <2>4. c + n * c = (n + 1) * c
    BY <2>3 DEF n
  <2>5. QED
    BY <2>1, <2>3, <2>4 DEF n
<1>3. T \in SUBSET (SUBSET S)
  OBVIOUS
<1> HIDE DEF T
<1>4. S \in T
  BY <1>1, <1>2, <1>3, SetsByInduction
<1>5. QED
  BY <1>4 DEF T

\* A set in two parts.
LEMMA TotalOfParts ==
  ASSUME NEW S, IsFiniteSet(S), NEW f, \A x \in S : f[x] \in Int, NEW R \in SUBSET S
  PROVE  /\ Total(f, S) = Total(f, R) + Total(f, S \ R)
         /\ Total(f, R) \in Int /\ Total(f, S \ R) \in Int
<1> DEFINE D == S \ R
           T == {A \in SUBSET D : Total(f, R \cup A) = Total(f, R) + Total(f, A)}
<1>1. /\ IsFiniteSet(R) /\ IsFiniteSet(D)
      /\ Total(f, R) \in Int /\ Total(f, D) \in Int
  <2>1. IsFiniteSet(R) /\ IsFiniteSet(D)
    BY FS_Subset
  <2>2. QED
    BY <2>1, TotalIsNumber
<1>2. {} \in T
  <2>1. R \cup {} = R
    OBVIOUS
  <2>2. Total(f, R) = Total(f, R) + 0
    BY <1>1
  <2>3. QED
    BY <2>1, <2>2, TotalOfNone
<1>3. ASSUME NEW A \in T, NEW y \in D \ A
      PROVE  A \cup {y} \in T
  <2>1. R \cup (A \cup {y}) = (R \cup A) \cup {y} /\ R \cup A \in SUBSET S
        /\ y \in S \ (R \cup A) /\ A \in SUBSET S /\ y \in S \ A
    OBVIOUS
  <2>2. /\ Total(f, (R \cup A) \cup {y}) = f[y] + Total(f, R \cup A)
        /\ Total(f, A \cup {y}) = f[y] + Total(f, A)
        /\ Total(f, A) \in Int /\ f[y] \in Int
    <3> DEFINE B == R \cup A
    <3>1. B \in SUBSET S /\ y \in S \ B
      BY <2>1
    <3> HIDE DEF B
    <3>2. Total(f, B \cup {y}) = f[y] + Total(f, B)
      BY <3>1, TotalWithOneMore
    <3>3. /\ Total(f, A \cup {y}) = f[y] + Total(f, A)
          /\ Total(f, A) \in Int /\ f[y] \in Int
      BY <2>1, TotalWithOneMore
    <3>4. QED
      BY <3>2, <3>3 DEF B
  <2>3. Total(f, R \cup A) = Total(f, R) + Total(f, A)
    OBVIOUS
  <2> DEFINE x1 == Total(f, R)
             x2 == Total(f, A)
  <2> HIDE DEF x1, x2
  <2>4. f[y] + (x1 + x2) = x1 + (f[y] + x2)
    BY <1>1, <2>2 DEF x1, x2
  <2>5. Total(f, R \cup (A \cup {y})) = Total(f, R) + Total(f, A \cup {y})
    BY <2>1, <2>2, <2>3, <2>4 DEF x1, x2
  <2>6. QED
    BY <2>5
<1>4. T \in SUBSET (SUBSET D)
  OBVIOUS
<1> HIDE DEF T
<1>5. D \in T
  BY <1>1, <1>2, <1>3, <1>4, SetsByInduction
<1>6. R \cup D = S
  OBVIOUS
<1>7. QED
  BY <1>1, <1>5, <1>6 DEF T

-----------------------------------------------------------------------------
(***************************************************************************)
(* The elements of a kind in a sequence, a kind being a set K: that there  *)
(* are none, and that the last one there is lies in G.                     *)
(***************************************************************************)
NoneOf(s, K) == \A n \in DOMAIN s : s[n] \notin K

LastIs(s, K, G) ==
  \E n \in DOMAIN s : s[n] \in K \cap G /\ \A m \in DOMAIN s : m > n => s[m] \notin K

\* Where the elements of two sequences are when they are put together.
LEMMA BothParts ==
  ASSUME NEW S, NEW s \in Seq(S), NEW t \in Seq(S)
  PROVE  /\ s \o t \in Seq(S)
         /\ Len(s) \in Nat /\ DOMAIN s = 1..Len(s) /\ DOMAIN t \subseteq Nat \ {0}
         /\ \A k \in DOMAIN s : k \in DOMAIN (s \o t) /\ (s \o t)[k] = s[k]
         /\ \A k \in DOMAIN t : Len(s) + k \in DOMAIN (s \o t) /\ (s \o t)[Len(s) + k] = t[k]
         /\ \A k \in DOMAIN (s \o t) :
              \/ k \in DOMAIN s
              \/ \E l \in DOMAIN t : k = Len(s) + l
<1>1. /\ Len(s) \in Nat /\ Len(t) \in Nat
      /\ DOMAIN s = 1..Len(s) /\ DOMAIN t = 1..Len(t)
      /\ DOMAIN (s \o t) = 1..Len(s) + Len(t)
      /\ \A k \in 1..Len(s) : (s \o t)[k] = s[k]
      /\ \A k \in 1..Len(t) : (s \o t)[Len(s) + k] = t[k]
      /\ s \o t \in Seq(S)
  OBVIOUS
<1>2. ASSUME NEW k \in DOMAIN (s \o t), k \notin DOMAIN s
      PROVE  k - Len(s) \in DOMAIN t /\ k = Len(s) + (k - Len(s))
  BY <1>1, <1>2
<1>3. \A k \in DOMAIN t : Len(s) + k \in DOMAIN (s \o t)
  BY <1>1
<1>4. QED
  BY <1>1, <1>2, <1>3

\* What is the last of its kind in the second part is; what was in the first still
\* is if there is none in the second.
LEMMA LastOfBoth ==
  ASSUME NEW S, NEW s \in Seq(S), NEW t \in Seq(S), NEW K, NEW G
  PROVE  /\ LastIs(t, K, G) => LastIs(s \o t, K, G)
         /\ LastIs(s, K, G) /\ NoneOf(t, K) => LastIs(s \o t, K, G)
         /\ NoneOf(s, K) /\ NoneOf(t, K) => NoneOf(s \o t, K)
<1> DEFINE r == s \o t
<1>1. /\ Len(s) \in Nat /\ DOMAIN s = 1..Len(s) /\ DOMAIN t \subseteq Nat \ {0}
      /\ \A k \in DOMAIN s : k \in DOMAIN r /\ r[k] = s[k]
      /\ \A k \in DOMAIN t : Len(s) + k \in DOMAIN r /\ r[Len(s) + k] = t[k]
      /\ \A k \in DOMAIN r : k \in DOMAIN s \/ \E l \in DOMAIN t : k = Len(s) + l
  BY BothParts
<1> HIDE DEF r
<1>2. ASSUME LastIs(t, K, G) PROVE LastIs(r, K, G)
  <2>1. PICK n \in DOMAIN t : t[n] \in K \cap G /\ \A m \in DOMAIN t : m > n => t[m] \notin K
    BY <1>2 DEF LastIs
  <2>2. ASSUME NEW m \in DOMAIN r, m > Len(s) + n PROVE r[m] \notin K
    <3>1. PICK l \in DOMAIN t : m = Len(s) + l
      BY <1>1, <2>2
    <3>2. l > n
      BY <1>1, <2>2, <3>1
    <3>3. QED
      BY <1>1, <2>1, <3>1, <3>2
  <2>3. Len(s) + n \in DOMAIN r /\ r[Len(s) + n] \in K \cap G
    BY <1>1, <2>1
  <2>4. QED
    BY <2>2, <2>3 DEF LastIs
<1>3. ASSUME LastIs(s, K, G), NoneOf(t, K) PROVE LastIs(r, K, G)
  <2>1. PICK n \in DOMAIN s : s[n] \in K \cap G /\ \A m \in DOMAIN s : m > n => s[m] \notin K
    BY <1>3 DEF LastIs
  <2>2. ASSUME NEW m \in DOMAIN r, m > n PROVE r[m] \notin K
    BY <1>1, <1>3, <2>1, <2>2 DEF NoneOf
  <2>3. n \in DOMAIN r /\ r[n] \in K \cap G
    BY <1>1, <2>1
  <2>4. QED
    BY <2>2, <2>3 DEF LastIs
<1>4. ASSUME NoneOf(s, K), NoneOf(t, K) PROVE NoneOf(r, K)
  BY <1>1, <1>4 DEF NoneOf
<1>5. QED
  BY <1>2, <1>3, <1>4 DEF r

\* Where there is one of a kind there is a last one.
LEMMA LastOfAll ==
  ASSUME NEW S, NEW s \in Seq(S), NEW K, NEW G,
         ~NoneOf(s, K), \A n \in DOMAIN s : s[n] \in K => s[n] \in G
  PROVE  LastIs(s, K, G)
<1> DEFINE T == {d \in 0..Len(s) : Len(s) - d \in DOMAIN s /\ s[Len(s) - d] \in K}
<1>1. Len(s) \in Nat /\ DOMAIN s = 1..Len(s)
  OBVIOUS
<1>2. PICK n \in DOMAIN s : s[n] \in K
  BY DEF NoneOf
<1>3. T \in SUBSET Nat /\ Len(s) - n \in T
  <2>1. Len(s) - n \in 0..Len(s) /\ Len(s) - (Len(s) - n) = n
    BY <1>1, <1>2
  <2>2. QED
    BY <1>1, <1>2, <2>1
<1>4. PICK d \in T : \A c \in T : d <= c
  BY <1>3, LeastNumber
<1>5. ASSUME NEW m \in DOMAIN s, m > Len(s) - d PROVE s[m] \notin K
  <2>1. Len(s) - m \in 0..Len(s) /\ Len(s) - (Len(s) - m) = m /\ ~(d <= Len(s) - m)
    BY <1>1, <1>3, <1>5, SMTT(30)
  <2>2. QED
    BY <1>4, <2>1
<1>6. Len(s) - d \in DOMAIN s /\ s[Len(s) - d] \in K \cap G
  OBVIOUS
<1>7. QED
  BY <1>5, <1>6 DEF LastIs

\* A larger set holds the last of a kind as well.
LEMMA LastIsMore ==
  ASSUME NEW s, NEW K, NEW G, NEW H, LastIs(s, K, G), \A x \in K \cap G : x \in H
  PROVE  LastIs(s, K, H)
BY DEF LastIs

\* What follows some elements of a kind put at the end of others.
LEMMA KindAtEnd ==
  ASSUME NEW S, NEW s \in Seq(S), NEW t \in Seq(S), NEW K,
         NoneOf(s, K), \A m, n \in DOMAIN t : t[n] \in K /\ m > n => t[m] \in K
  PROVE  \A m, n \in DOMAIN (s \o t) : (s \o t)[n] \in K /\ m > n => (s \o t)[m] \in K
<1> DEFINE r == s \o t
<1>1. /\ Len(s) \in Nat /\ DOMAIN s = 1..Len(s) /\ DOMAIN t \subseteq Nat \ {0}
      /\ \A k \in DOMAIN s : k \in DOMAIN r /\ r[k] = s[k]
      /\ \A k \in DOMAIN t : Len(s) + k \in DOMAIN r /\ r[Len(s) + k] = t[k]
      /\ \A k \in DOMAIN r : k \in DOMAIN s \/ \E l \in DOMAIN t : k = Len(s) + l
  BY BothParts
<1> HIDE DEF r
<1>2. ASSUME NEW m \in DOMAIN r, NEW n \in DOMAIN r, r[n] \in K, m > n PROVE r[m] \in K
  <2>1. n \notin DOMAIN s
    BY <1>1, <1>2 DEF NoneOf
  <2>2. PICK k \in DOMAIN t : n = Len(s) + k
    BY <1>1, <2>1
  <2>3. PICK l \in DOMAIN t : m = Len(s) + l
    BY <1>1, <1>2, <2>2
  <2>4. l > k
    BY <1>1, <1>2, <2>2, <2>3
  <2>5. QED
    BY <1>1, <1>2, <2>2, <2>3, <2>4
<1>3. QED
  BY <1>2 DEF r

\* One element more.
LEMMA OneMore ==
  ASSUME NEW S, NEW s \in Seq(S), NEW x \in S
  PROVE  /\ Append(s, x) = s \o <<x>> /\ <<x>> \in Seq(S)
         /\ DOMAIN <<x>> = {1} /\ <<x>>[1] = x
<1>1. /\ Len(Append(s, x)) = Len(s) + 1 /\ Append(s, x) \in Seq(S)
      /\ Len(s \o <<x>>) = Len(s) + 1 /\ s \o <<x>> \in Seq(S) /\ <<x>> \in Seq(S)
      /\ Len(s) \in Nat
  OBVIOUS
<1>2. \A i \in 1..Len(s) + 1 : Append(s, x)[i] = (s \o <<x>>)[i]
  OBVIOUS
<1>3. Append(s, x) = s \o <<x>>
  BY <1>1, <1>2, SeqEqual
<1>4. QED
  BY <1>1, <1>3

=============================================================================
