----------------------------- MODULE DataLemmas -----------------------------
(***************************************************************************)
(* Induction and what follows from it, stated for sets instead of           *)
(* predicates so that first-order provers can use it: to prove P(n) for     *)
(* every n, apply NatSetInduction to {n \in Nat : P(n)}.                    *)
(***************************************************************************)
EXTENDS Integers, FiniteSetsExt, SequencesExt, FiniteSetTheorems, TLAPS

\* The order of the natural numbers as a set of pairs.
LessThan == {p \in Nat \X Nat : p[1] < p[2]}

\* A set of natural numbers with a member has a least one.
LEMMA LeastNatural ==
  ASSUME NEW S \in SUBSET Nat, S # {}
  PROVE  \E m \in S : \A k \in S : m <= k
<1>1. OpToRel(<, Nat) = LessThan
  BY DEF OpToRel, LessThan
<1>2. IsWellFoundedOn(LessThan, Nat)
  BY <1>1, NatLessThanWellFounded, Zenon
<1>3. PICK m \in S : \A k \in S : ~(<<k, m>> \in LessThan)
  BY <1>2, WFMin, Zenon
<1>4. ASSUME NEW k \in S, k < m
      PROVE  <<k, m>> \in LessThan
  BY <1>4 DEF LessThan
<1>5. \A k \in S : ~(k < m)
  BY <1>3, <1>4, Zenon
<1>6. QED
  BY <1>5

\* A set that holds 0 and, with a number, the next holds every number.
LEMMA NatSetInduction ==
  ASSUME NEW S, 0 \in S, \A n \in Nat : n \in S => n + 1 \in S
  PROVE  \A n \in Nat : n \in S
<1> SUFFICES ASSUME Nat \ S # {}
             PROVE  FALSE
  OBVIOUS
<1>1. PICK m \in Nat \ S : \A k \in Nat \ S : m <= k
  BY LeastNatural
<1>2. m # 0 /\ m - 1 \in Nat
  OBVIOUS
<1>3. m - 1 \in S
  BY <1>1, <1>2
<1>4. QED
  BY <1>2, <1>3

\* The same up to n.
LEMMA IntervalInduction ==
  ASSUME NEW n \in Nat, NEW S, 0 \in S, \A i \in 0..n - 1 : i \in S => i + 1 \in S
  PROVE  \A i \in 0..n : i \in S
<1> DEFINE T == {i \in Nat : i > n \/ i \in S}
<1>1. 0 \in T /\ \A i \in Nat : i \in T => i + 1 \in T
  OBVIOUS
<1>2. \A i \in Nat : i \in T
  <2> HIDE DEF T
  <2> QED
    BY <1>1, NatSetInduction
<1>3. QED
  BY <1>2

\* A finite set of integers with a member has a greatest one.
LEMMA FiniteMaximum ==
  ASSUME NEW S \in SUBSET Int, IsFiniteSet(S), S # {}
  PROVE  \E m \in S : \A k \in S : k <= m
<1>1. PICK f : f \in Bijection(1..Cardinality(S), S)
  BY FS_CardinalityType DEF ExistsBijection
<1> DEFINE n == Cardinality(S)
<1>2. /\ f \in [1..n -> S] /\ n \in Nat /\ \A x \in S : \E i \in 1..n : f[i] = x
  BY <1>1, FS_CardinalityType DEF Bijection, Surjection
<1> DEFINE T == {i \in Nat : i = 0 \/ \E m \in 1..i : \A k \in 1..i : f[k] <= f[m]}
<1>3. ASSUME NEW i \in 0..n - 1, i \in T
      PROVE  i + 1 \in T
  <2>1. CASE i = 0
    <3>1. f[1] \in Int
      <4>1. 1 \in 1..n
        BY <1>2, <1>3
      <4>2. QED
        BY <1>2, <4>1
    <3>2. \A k \in 1..1 : f[k] <= f[1]
      BY <3>1
    <3>3. QED
      BY <2>1, <3>2
  <2>2. CASE i # 0
    <3>1. PICK m \in 1..i : \A k \in 1..i : f[k] <= f[m]
      BY <1>3, <2>2
    <3>2. \A k \in 1..i + 1 : f[k] \in Int
      <4>1. 1..i + 1 \subseteq 1..n
        BY <1>2, <1>3
      <4>2. QED
        BY <1>2, <4>1
    <3>3. CASE f[i + 1] <= f[m]
      BY <3>1, <3>3
    <3>4. CASE ~(f[i + 1] <= f[m])
      <4>1. \A k \in 1..i + 1 : f[k] <= f[i + 1]
        BY <3>1, <3>2, <3>4
      <4>2. QED
        BY <4>1
    <3>5. QED
      BY <3>3, <3>4
  <2>3. QED
    BY <2>1, <2>2
<1>4. 0 \in T
  OBVIOUS
<1>5. n \in T
  <2> HIDE DEF T
  <2>1. \A i \in 0..n : i \in T
    BY <1>2, <1>3, <1>4, IntervalInduction
  <2>2. QED
    BY <1>2, <2>1
<1>6. n # 0
  BY FS_EmptySet
<1>7. PICK m \in 1..n : \A k \in 1..n : f[k] <= f[m]
  BY <1>5, <1>6
<1>8. QED
  BY <1>2, <1>7

\* What Max of the community modules chooses, for finite sets.
LEMMA MaxIsMaximum ==
  ASSUME NEW S \in SUBSET Int, IsFiniteSet(S), S # {}
  PROVE  Max(S) \in S /\ \A k \in S : k <= Max(S)
<1>1. PICK m \in S : \A k \in S : m >= k
  BY FiniteMaximum
<1>2. QED
  BY <1>1 DEF Max

\* A number of the set that none exceeds is the maximum, finite or not.
LEMMA MaxUnique ==
  ASSUME NEW S \in SUBSET Int, NEW m \in S, \A k \in S : k <= m
  PROVE  Max(S) = m
<1>1. \A x \in S : (\A k \in S : x >= k) => x = m
  OBVIOUS
<1>2. QED
  BY <1>1 DEF Max

\* What Min of the community modules chooses, for finite sets.
LEMMA MinIsMinimum ==
  ASSUME NEW S \in SUBSET Int, IsFiniteSet(S), S # {}
  PROVE  Min(S) \in S /\ \A k \in S : Min(S) <= k
<1> DEFINE T == {-k : k \in S}
           f == [k \in S |-> -k]
<1>1. f \in Surjection(S, T)
  BY DEF Surjection
<1>2. IsFiniteSet(T)
  BY <1>1, FS_Surjection
<1>3. PICK m \in T : \A k \in T : k <= m
  BY <1>2, FiniteMaximum
<1>4. -m \in S /\ \A k \in S : -m <= k
  BY <1>3
<1>5. QED
  BY <1>4 DEF Min

\* A finite set that is ordered strictly and totally can be written down in its
\* order: each member at the place after the members that are before it.
LEMMA InStrictOrder ==
  ASSUME NEW S, IsFiniteSet(S), NEW R \in SUBSET (S \X S),
         \A x \in S : <<x, x>> \notin R,
         \A x, y, z \in S : <<x, y>> \in R /\ <<y, z>> \in R => <<x, z>> \in R,
         \A x, y \in S : x = y \/ <<x, y>> \in R \/ <<y, x>> \in R
  PROVE  \E seq \in SetToSeqs(S) :
           \A i, j \in 1..Cardinality(S) : i < j => <<seq[i], seq[j]>> \in R
<1> DEFINE n == Cardinality(S)
           Below(x) == {y \in S : <<y, x>> \in R}
           place == [x \in S |-> Cardinality(Below(x)) + 1]
<1>1. n \in Nat
  BY FS_CardinalityType
<1>2. \A x \in S : IsFiniteSet(Below(x)) /\ Cardinality(Below(x)) \in Nat
  <2>1. \A x \in S : Below(x) \in SUBSET S
    OBVIOUS
  <2> HIDE DEF Below
  <2>2. QED
    BY <2>1, FS_Subset, FS_CardinalityType
<1>3. \A x \in S : place[x] \in 1..n
  <2>1. SUFFICES ASSUME NEW x \in S
                 PROVE  place[x] \in 1..n
    OBVIOUS
  <2>2. Below(x) \in SUBSET (S \ {x})
    OBVIOUS
  <2>3. IsFiniteSet(S \ {x}) /\ Cardinality(S \ {x}) = n - 1
    BY FS_RemoveElement
  <2>4. Cardinality(Below(x)) <= n - 1
    <3> HIDE DEF Below
    <3> QED
      BY <2>2, <2>3, FS_Subset
  <2>5. QED
    <3> HIDE DEF Below
    <3> QED
      BY <1>1, <1>2, <2>4
<1>4. ASSUME NEW x \in S, NEW y \in S, <<x, y>> \in R
      PROVE  place[x] < place[y]
  <2>1. Below(x) \in SUBSET Below(y) /\ Below(x) # Below(y)
    <3>1. x \in Below(y) /\ x \notin Below(x)
      BY <1>4
    <3>2. \A z \in Below(x) : z \in Below(y)
      BY <1>4
    <3>3. QED
      BY <3>1, <3>2
  <2>2. Cardinality(Below(x)) < Cardinality(Below(y))
    <3> HIDE DEF Below
    <3>1. Cardinality(Below(x)) <= Cardinality(Below(y))
      BY <1>2, <2>1, FS_Subset
    <3>2. Cardinality(Below(x)) # Cardinality(Below(y))
      BY <1>2, <2>1, FS_Subset
    <3>3. QED
      BY <1>2, <3>1, <3>2
  <2>3. QED
    <3> HIDE DEF Below
    <3> QED
      BY <1>2, <2>2
<1> HIDE DEF place
<1>5. place \in Injection(S, 1..n)
  <2>1. place \in [S -> 1..n]
    BY <1>3 DEF place
  <2>2. \A x, y \in S : place[x] = place[y] => x = y
    <3>1. SUFFICES ASSUME NEW x \in S, NEW y \in S, x # y
                   PROVE  place[x] # place[y]
      OBVIOUS
    <3>2. place[x] < place[y] \/ place[y] < place[x]
      BY <1>4, <3>1
    <3>3. place[x] \in Nat /\ place[y] \in Nat
      BY <1>1, <1>3
    <3>4. QED
      BY <3>2, <3>3
  <2>3. QED
    BY <2>1, <2>2 DEF Injection, IsInjective
<1>6. place \in Surjection(S, 1..n)
  <2>1. \A m \in Nat : IsFiniteSet(1..m) /\ Cardinality(1..m) = m
    BY FS_Interval
  <2>2. IsFiniteSet(1..n) /\ Cardinality(1..n) = n
    BY <1>1, <2>1
  <2>3. QED
    BY <1>5, <2>2, FS_Injection
<1> DEFINE seq == [i \in 1..n |-> CHOOSE x \in S : place[x] = i]
<1>7. \A i \in 1..n : seq[i] \in S /\ place[seq[i]] = i
  BY <1>6 DEF Surjection
<1>8. seq \in [1..n -> S] /\ DOMAIN seq = 1..n
  BY <1>7
<1> HIDE DEF seq
<1>9. \A i, j \in 1..n : i # j => seq[i] # seq[j]
  BY <1>7
<1>10. ASSUME NEW i \in 1..n, NEW j \in 1..n, i < j
       PROVE  <<seq[i], seq[j]>> \in R
  <2>1. seq[i] \in S /\ seq[j] \in S /\ place[seq[i]] = i /\ place[seq[j]] = j
    BY <1>7
  <2>2. <<seq[j], seq[i]>> \notin R
    BY <1>4, <1>10, <2>1
  <2>3. seq[i] # seq[j]
    BY <2>1, <1>10
  <2>4. QED
    BY <2>1, <2>2, <2>3
<1>11. seq \in SetToSeqs(S)
  BY <1>8, <1>9 DEF SetToSeqs
<1>12. QED
  BY <1>10, <1>11

\* A sequence that has each member of a finite set once has all of them.
LEMMA AllInSequence ==
  ASSUME NEW S, IsFiniteSet(S), NEW seq \in SetToSeqs(S)
  PROVE  /\ Cardinality(S) \in Nat /\ seq \in [1..Cardinality(S) -> S]
         /\ seq \in Seq(S) /\ Len(seq) = Cardinality(S)
         /\ \A i, j \in 1..Cardinality(S) : i # j => seq[i] # seq[j]
         /\ \A x \in S : \E i \in 1..Cardinality(S) : seq[i] = x
<1> DEFINE n == Cardinality(S)
<1>1. n \in Nat
  BY FS_CardinalityType
<1>2. seq \in [1..n -> S] /\ \A i, j \in 1..n : i # j => seq[i] # seq[j]
  BY DEF SetToSeqs
<1>3. seq \in Injection(1..n, S)
  BY <1>2 DEF Injection, IsInjective
<1>4. \A m \in Nat : IsFiniteSet(1..m) /\ Cardinality(1..m) = m
  BY FS_Interval
<1>5. seq \in Surjection(1..n, S)
  BY <1>1, <1>3, <1>4, FS_Injection
<1>6. seq \in Seq(S) /\ Len(seq) = n
  <2> HIDE DEF n
  <2> QED
    BY <1>1, <1>2
<1>7. \A x \in S : \E i \in 1..n : seq[i] = x
  BY <1>5 DEF Surjection
<1>8. QED
  BY <1>1, <1>2, <1>6, <1>7

\* Any finite set can be sorted by a relation that is a strict weak order on it.
LEMMA InWeakOrder ==
  ASSUME NEW S, IsFiniteSet(S), NEW B \in SUBSET (S \X S),
         \A x \in S : <<x, x>> \notin B,
         \A x, y, z \in S : <<x, y>> \in B /\ <<y, z>> \in B => <<x, z>> \in B,
         \A x, y, z \in S : <<x, z>> \in B => <<x, y>> \in B \/ <<y, z>> \in B
  PROVE  \E seq \in SetToSeqs(S) :
           \A i, j \in DOMAIN seq : i < j => <<seq[j], seq[i]>> \notin B
<1> DEFINE n == Cardinality(S)
<1>1. PICK f : f \in Bijection(1..n, S)
  BY FS_CardinalityType DEF ExistsBijection
<1>2. PICK idx \in [S -> 1..n] : \A x, y \in S : idx[x] = idx[y] => x = y
  <2>1. \A x \in S : \E i \in 1..n : f[i] = x
    BY <1>1 DEF Bijection, Surjection
  <2> DEFINE g == [x \in S |-> CHOOSE i \in 1..n : f[i] = x]
  <2>2. \A x \in S : g[x] \in 1..n /\ f[g[x]] = x
    BY <2>1
  <2>3. g \in [S -> 1..n]
    BY <2>2
  <2>4. \A x, y \in S : g[x] = g[y] => x = y
    BY <2>2
  <2>5. QED
    BY <2>3, <2>4
<1>3. /\ \A x \in S : ~(idx[x] < idx[x])
      /\ \A x, y \in S : x = y \/ idx[x] < idx[y] \/ idx[y] < idx[x]
      /\ \A x, y, z \in S : idx[x] < idx[y] /\ idx[y] < idx[z] => idx[x] < idx[z]
  <2>1. \A x \in S : idx[x] \in Int
    BY FS_CardinalityType
  <2>2. QED
    BY <1>2, <2>1
<1> DEFINE R == {p \in S \X S : \/ p \in B
                                \/ <<p[2], p[1]>> \notin B /\ idx[p[1]] < idx[p[2]]}
<1>4. R \in SUBSET (S \X S)
  OBVIOUS
<1>5. \A x, y \in S : <<x, y>> \in R <=> \/ <<x, y>> \in B
                                         \/ <<y, x>> \notin B /\ idx[x] < idx[y]
  OBVIOUS
<1> HIDE DEF R
<1>6. \A x \in S : <<x, x>> \notin R
  BY <1>3, <1>5, Zenon
<1>7. \A x, y \in S : x = y \/ <<x, y>> \in R \/ <<y, x>> \in R
  BY <1>3, <1>5, Zenon
<1>8. ASSUME NEW x \in S, NEW y \in S, NEW z \in S, <<x, y>> \in R, <<y, z>> \in R
      PROVE  <<x, z>> \in R
  <2>1. CASE <<x, y>> \in B
    <3>1. <<x, z>> \in B \/ <<z, y>> \in B
      BY <2>1
    <3>2. <<z, y>> \notin B
      BY <1>5, <1>8
    <3>3. QED
      BY <1>5, <3>1, <3>2
  <2>2. CASE <<y, z>> \in B
    <3>1. <<y, x>> \in B \/ <<x, z>> \in B
      BY <2>2
    <3>2. <<y, x>> \notin B
      BY <1>5, <1>8
    <3>3. QED
      BY <1>5, <3>1, <3>2
  <2>3. CASE <<x, y>> \notin B /\ <<y, z>> \notin B
    <3>1. idx[x] < idx[z]
      BY <1>3, <1>5, <1>8, <2>3, Zenon
    <3>2. <<z, x>> \notin B
      BY <1>5, <1>8, <2>3
    <3>3. QED
      BY <1>5, <3>1, <3>2
  <2>4. QED
    BY <2>1, <2>2, <2>3
<1>9. PICK seq \in SetToSeqs(S) :
        \A i, j \in 1..Cardinality(S) : i < j => <<seq[i], seq[j]>> \in R
  BY <1>4, <1>6, <1>7, <1>8, InStrictOrder
<1>10. /\ DOMAIN seq = 1..n /\ \A i \in 1..n : seq[i] \in S
  BY AllInSequence
<1>11. ASSUME NEW i \in DOMAIN seq, NEW j \in DOMAIN seq, i < j
       PROVE  <<seq[j], seq[i]>> \notin B
  <2>1. <<seq[i], seq[j]>> \in R /\ seq[i] \in S /\ seq[j] \in S
    BY <1>9, <1>10, <1>11
  <2>2. <<seq[i], seq[j]>> \in B => <<seq[j], seq[i]>> \notin B
    BY <2>1
  <2>3. QED
    BY <1>5, <2>1, <2>2
<1>12. QED
  BY <1>11

\* Powers of two from the subsets of 1..n: one more element, twice as many.
LEMMA PowersOfTwo ==
  2^0 = 1 /\ \A n \in Nat : 2^n \in Nat \ {0} /\ 2^(n + 1) = 2 * 2^n
<1>1. ASSUME NEW n \in Nat
      PROVE  2^n \in Nat /\ 2^(n + 1) = 2 * 2^n
  <2> DEFINE A == SUBSET (1..n)
             B == A \X (1..2)
             f == [S \in SUBSET (1..n + 1) |-> <<S \ {n + 1}, IF n + 1 \in S THEN 2 ELSE 1>>]
  <2>1. /\ IsFiniteSet(1..n) /\ Cardinality(1..n) = n
        /\ IsFiniteSet(1..n + 1) /\ Cardinality(1..n + 1) = n + 1
    BY FS_Interval
  <2>2. /\ IsFiniteSet(A) /\ Cardinality(A) = 2^n
        /\ IsFiniteSet(SUBSET (1..n + 1)) /\ Cardinality(SUBSET (1..n + 1)) = 2^(n + 1)
    BY <2>1, FS_SUBSET
  <2>3. IsFiniteSet(1..2) /\ Cardinality(1..2) = 2
    <3>1. \A m \in Nat : IsFiniteSet(1..m) /\ Cardinality(1..m) = m
      BY FS_Interval
    <3>2. QED
      BY <3>1
  <2>4. IsFiniteSet(B) /\ Cardinality(B) = 2^n * 2
    <3> HIDE DEF A
    <3>1. IsFiniteSet(A \X (1..2)) /\ Cardinality(A \X (1..2)) = Cardinality(A) * Cardinality(1..2)
      BY <2>2, <2>3, FS_Product
    <3>2. QED
      BY <2>2, <2>3, <3>1
  <2>5. f \in Bijection(SUBSET (1..n + 1), B)
    <3>1. f \in [SUBSET (1..n + 1) -> B]
      <4>1. \A S \in SUBSET (1..n + 1) : S \ {n + 1} \in A
        OBVIOUS
      <4>2. \A S \in SUBSET (1..n + 1) : <<S \ {n + 1}, IF n + 1 \in S THEN 2 ELSE 1>> \in B
        <5> HIDE DEF A
        <5> QED
          BY <4>1
      <4>3. QED
        BY <4>2
    <3>2. \A S, T \in SUBSET (1..n + 1) : f[S] = f[T] => S = T
      OBVIOUS
    <3>3. ASSUME NEW S \in A, NEW b \in 1..2
          PROVE  \E T \in SUBSET (1..n + 1) : f[T] = <<S, b>>
      <4>1. n + 1 \notin S /\ S \in SUBSET (1..n + 1) /\ S \cup {n + 1} \in SUBSET (1..n + 1)
        OBVIOUS
      <4>2. CASE b = 2
        <5>1. (S \cup {n + 1}) \ {n + 1} = S
          BY <4>1
        <5>2. f[S \cup {n + 1}] = <<S, b>>
          BY <4>1, <4>2, <5>1
        <5>3. QED
          BY <4>1, <5>2
      <4>3. CASE b = 1
        <5>1. S \ {n + 1} = S
          BY <4>1
        <5>2. f[S] = <<S, b>>
          BY <4>1, <4>3, <5>1
        <5>3. QED
          BY <4>1, <5>2
      <4>4. b = 1 \/ b = 2
        OBVIOUS
      <4>5. QED
        BY <4>2, <4>3, <4>4
    <3>4. \A p \in B : \E T \in SUBSET (1..n + 1) : f[T] = p
      <4> HIDE DEF f, A
      <4> QED
        BY <3>3
    <3>5. QED
      BY <3>1, <3>2, <3>4 DEF Bijection, Injection, Surjection, IsInjective
  <2>6. 2^(n + 1) = 2^n * 2
    BY <2>2, <2>4, <2>5, FS_Bijection DEF ExistsBijection
  <2>7. 2^n \in Nat
    BY <2>2, FS_CardinalityType
  <2>8. QED
    BY <2>6, <2>7
<1>2. 2^0 = 1
  OBVIOUS
<1>3. QED
  <2> DEFINE T == {n \in Nat : 2^n # 0}
  <2>1. 0 \in T /\ \A n \in Nat : n \in T => n + 1 \in T
    BY <1>1, <1>2
  <2>2. \A n \in Nat : n \in T
    <3> HIDE DEF T
    <3> QED
      BY <2>1, NatSetInduction
  <2>3. QED
    BY <1>1, <1>2, <2>2

=============================================================================
