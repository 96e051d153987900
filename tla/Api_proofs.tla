---------------------------- MODULE Api_proofs ----------------------------
(***************************************************************************)
(* Proofs about Api for any number of calls, any limits and any queries.    *)
(***************************************************************************)
EXTENDS Api, DataLemmas

-----------------------------------------------------------------------------
(* Rows in their order *)

LEMMA AscendingOrder ==
  ASSUME NEW places \in SUBSET Nat, IsFiniteSet(places)
  PROVE  /\ Ascending(places) \in [1..Cardinality(places) -> places]
         /\ \A i, j \in 1..Cardinality(places) :
              i < j => Ascending(places)[i] < Ascending(places)[j]
         /\ \A x \in places : \E i \in 1..Cardinality(places) : Ascending(places)[i] = x
<1> DEFINE n == Cardinality(places)
           B == {p \in places \X places : p[1] < p[2]}
           at == Ascending(places)
<1>1. \A x, y \in places : <<x, y>> \in B <=> x < y
  OBVIOUS
<1>2. \A x \in places : x \in Int
  OBVIOUS
<1>3. B \in SUBSET (places \X places)
  OBVIOUS
<1> HIDE DEF B
<1>4. PICK seq \in SetToSeqs(places) :
        \A i, j \in DOMAIN seq : i < j => <<seq[j], seq[i]>> \notin B
  <2>1. \A x \in places : <<x, x>> \notin B
    BY <1>1, <1>2
  <2>2. \A x, y, z \in places : <<x, y>> \in B /\ <<y, z>> \in B => <<x, z>> \in B
    <3>1. \A x, y, z \in places : x < y /\ y < z => x < z
      BY <1>2
    <3>2. QED
      BY <1>1, <3>1, Zenon
  <2>3. \A x, y, z \in places : <<x, z>> \in B => <<x, y>> \in B \/ <<y, z>> \in B
    <3>1. \A x, y, z \in places : x < z => x < y \/ y < z
      BY <1>2
    <3>2. QED
      BY <1>1, <3>1, Zenon
  <2>4. QED
    BY <1>3, <2>1, <2>2, <2>3, InWeakOrder
<1>5. \A f \in SetToSeqs(places) :
        DOMAIN f = 1..n /\ \A i \in 1..n : f[i] \in places
  BY DEF SetToSeqs
<1>6. \A i, j \in DOMAIN seq : i < j => ~(seq[j] < seq[i])
  BY <1>1, <1>4, <1>5
<1>7. /\ at \in SetToSeqs(places)
      /\ \A i, j \in DOMAIN at : i < j => ~(at[j] < at[i])
  BY <1>4, <1>6 DEF InOrder, Ascending
<1> HIDE DEF at
<1>9. /\ at \in [1..n -> places]
      /\ \A i, j \in 1..n : i # j => at[i] # at[j]
      /\ \A x \in places : \E i \in 1..n : at[i] = x
  BY <1>7, AllInSequence
<1>10. \A i, j \in 1..n : i < j => at[i] < at[j]
  <2>1. SUFFICES ASSUME NEW i \in 1..n, NEW j \in 1..n, i < j
                 PROVE  at[i] < at[j]
    OBVIOUS
  <2>2. at[i] \in Int /\ at[j] \in Int
    BY <1>2, <1>9
  <2>3. i # j
    <3>1. \A a, b \in Int : a < b => a # b
      OBVIOUS
    <3>2. i \in Int /\ j \in Int
      OBVIOUS
    <3>3. QED
      BY <2>1, <3>1, <3>2, Zenon
  <2>4. at[i] # at[j] /\ ~(at[j] < at[i])
    BY <1>7, <1>9, <2>1, <2>3
  <2>5. QED
    BY <2>2, <2>4
<1>11. QED
  BY <1>9, <1>10 DEF at

LEMMA RowsAtSeq ==
  ASSUME NEW T, NEW rows \in Seq(T), NEW places \in SUBSET (DOMAIN rows)
  PROVE  /\ IsFiniteSet(places) /\ Cardinality(places) \in Nat
         /\ RowsAt(rows, places) \in Seq(T)
         /\ Len(RowsAt(rows, places)) = Cardinality(places)
         /\ Cardinality(places) <= Len(rows)
<1>1. DOMAIN rows = 1..Len(rows) /\ Len(rows) \in Nat
  OBVIOUS
<1>2. \A m \in Nat : IsFiniteSet(1..m) /\ Cardinality(1..m) = m
  BY FS_Interval
<1>3. IsFiniteSet(places) /\ Cardinality(places) <= Len(rows) /\ Cardinality(places) \in Nat
  BY <1>1, <1>2, FS_Subset, FS_CardinalityType
<1>4. places \in SUBSET Nat
  BY <1>1
<1>5. Ascending(places) \in [1..Cardinality(places) -> places]
  BY <1>3, <1>4, AscendingOrder
<1>6. \A i \in 1..Cardinality(places) : rows[Ascending(places)[i]] \in T
  BY <1>1, <1>5
<1>7. QED
  BY <1>3, <1>6 DEF RowsAt

-----------------------------------------------------------------------------
(* The limiter: h are the stamps it holds, a those it admitted in time *)

\* Every stamp of the last period, up to last, has a hit of its own.
Fresh(a, last) == {i \in DOMAIN a : a[i] > last - Period}

Covered(h, a, last) ==
  \E g \in [Fresh(a, last) -> DOMAIN h] :
    /\ \A i, j \in Fresh(a, last) : g[i] = g[j] => i = j
    /\ \A i \in Fresh(a, last) : h[g[i]] = a[i]

InWindow(a, from) == {i \in DOMAIN a : a[i] - from \in 0..Period - 1}
Bounded(a, n) == \A from \in Nat : Cardinality(InWindow(a, from)) <= n

LEMMA CoveredKept ==
  ASSUME NEW h \in Seq(Nat), NEW a \in Seq(Nat), NEW last \in Nat, NEW at \in Nat,
         NEW next \in Nat, last <= next, at <= next, Covered(h, a, last)
  PROVE  /\ InPeriod(h, at) \in Seq(Nat) /\ Len(InPeriod(h, at)) <= Len(h)
         /\ Covered(InPeriod(h, at), a, next)
         /\ \A i \in DOMAIN InPeriod(h, at) : \E j \in DOMAIN h : InPeriod(h, at)[i] = h[j]
<1> DEFINE I == {i \in DOMAIN h : at - h[i] < Period}
           n == Cardinality(I)
           k == InPeriod(h, at)
<1>1. k = RowsAt(h, I)
  BY DEF InPeriod
<1>2. I \in SUBSET (DOMAIN h) /\ I \in SUBSET Nat
  OBVIOUS
<1>3. /\ IsFiniteSet(I) /\ n \in Nat /\ k \in Seq(Nat) /\ Len(k) = n /\ n <= Len(h)
  <2> HIDE DEF I, k
  <2> QED
    BY <1>1, <1>2, RowsAtSeq
<1> DEFINE p == Ascending(I)
<1>4. /\ k = [i \in 1..n |-> h[p[i]]] /\ p \in [1..n -> I]
      /\ \A x \in I : \E i \in 1..n : p[i] = x
  <2> HIDE DEF I, k
  <2> QED
    BY <1>1, <1>2, <1>3, AscendingOrder DEF RowsAt
<1>5. PICK g \in [Fresh(a, last) -> DOMAIN h] :
        /\ \A i, j \in Fresh(a, last) : g[i] = g[j] => i = j
        /\ \A i \in Fresh(a, last) : h[g[i]] = a[i]
  BY DEF Covered
<1>6. ASSUME NEW i \in Fresh(a, next)
      PROVE  i \in Fresh(a, last) /\ g[i] \in I
  <2>1. a[i] \in Nat /\ a[i] > next - Period /\ i \in DOMAIN a
    BY DEF Fresh
  <2>2. i \in Fresh(a, last)
    BY <2>1, NumbersAssumption DEF Fresh
  <2>3. g[i] \in DOMAIN h /\ h[g[i]] = a[i]
    BY <1>5, <2>2
  <2>4. at - h[g[i]] < Period
    BY <2>1, <2>3, NumbersAssumption
  <2>5. QED
    BY <2>2, <2>3, <2>4
<1> HIDE DEF I, k, n, p
<1> DEFINE f == [i \in Fresh(a, next) |-> CHOOSE x \in 1..n : p[x] = g[i]]
<1>7. \A i \in Fresh(a, next) : f[i] \in 1..n /\ p[f[i]] = g[i]
  BY <1>4, <1>6
<1>8. DOMAIN k = 1..n /\ f \in [Fresh(a, next) -> DOMAIN k]
  BY <1>4, <1>7
<1> HIDE DEF f
<1>9. \A i, j \in Fresh(a, next) : f[i] = f[j] => i = j
  BY <1>5, <1>6, <1>7
<1>10. \A i \in Fresh(a, next) : k[f[i]] = a[i]
  BY <1>4, <1>5, <1>6, <1>7
<1>11. Covered(k, a, next)
  BY <1>8, <1>9, <1>10 DEF Covered
<1>12. \A i \in DOMAIN k : \E j \in DOMAIN h : k[i] = h[j]
  BY <1>2, <1>4
<1>13. QED
  BY <1>3, <1>11, <1>12 DEF k

LEMMA CoveredLate ==
  ASSUME NEW h \in Seq(Nat), NEW a \in Seq(Nat), NEW last \in Nat, NEW at \in Nat,
         Covered(h, a, last)
  PROVE  Covered(Append(h, at), a, last)
<1>1. PICK g \in [Fresh(a, last) -> DOMAIN h] :
        /\ \A i, j \in Fresh(a, last) : g[i] = g[j] => i = j
        /\ \A i \in Fresh(a, last) : h[g[i]] = a[i]
  BY DEF Covered
<1>2. \A i \in DOMAIN h : i \in DOMAIN Append(h, at) /\ Append(h, at)[i] = h[i]
  OBVIOUS
<1>3. g \in [Fresh(a, last) -> DOMAIN Append(h, at)]
  BY <1>1, <1>2
<1>4. \A i \in Fresh(a, last) : Append(h, at)[g[i]] = a[i]
  BY <1>1, <1>2
<1>5. QED
  BY <1>1, <1>3, <1>4 DEF Covered

LEMMA CoveredAppend ==
  ASSUME NEW h \in Seq(Nat), NEW a \in Seq(Nat), NEW at \in Nat, Covered(h, a, at)
  PROVE  Covered(Append(h, at), Append(a, at), at)
<1> DEFINE n == Len(a) + 1
           m == Len(h) + 1
           b == Append(a, at)
           k == Append(h, at)
<1>1. PICK g \in [Fresh(a, at) -> DOMAIN h] :
        /\ \A i, j \in Fresh(a, at) : g[i] = g[j] => i = j
        /\ \A i \in Fresh(a, at) : h[g[i]] = a[i]
  BY DEF Covered
<1>2. /\ DOMAIN b = 1..n /\ b[n] = at /\ DOMAIN a = 1..Len(a) /\ Len(a) \in Nat
      /\ \A i \in DOMAIN a : b[i] = a[i]
  OBVIOUS
<1>3. /\ DOMAIN k = 1..m /\ k[m] = at /\ DOMAIN h = 1..Len(h) /\ Len(h) \in Nat
      /\ \A i \in DOMAIN h : k[i] = h[i]
  OBVIOUS
<1> HIDE DEF b, k
<1>4. Fresh(b, at) \subseteq Fresh(a, at) \cup {n}
  BY <1>2 DEF Fresh
<1>5. n \notin DOMAIN a /\ m \notin DOMAIN h /\ m \in DOMAIN k
  BY <1>2, <1>3
<1> HIDE DEF n, m
<1> DEFINE f == [i \in Fresh(b, at) |-> IF i = n THEN m ELSE g[i]]
<1>6. \A i \in Fresh(b, at) : i # n => i \in Fresh(a, at) /\ g[i] \in DOMAIN h /\ i \in DOMAIN a
  BY <1>1, <1>4 DEF Fresh
<1>7. f \in [Fresh(b, at) -> DOMAIN k]
  <2>1. \A i \in DOMAIN h : i \in DOMAIN k
    BY <1>3 DEF m
  <2>2. QED
    BY <1>5, <1>6, <2>1
<1>8. \A i, j \in Fresh(b, at) : f[i] = f[j] => i = j
  BY <1>1, <1>5, <1>6
<1>9. \A i \in Fresh(b, at) : k[f[i]] = b[i]
  BY <1>1, <1>2, <1>3, <1>6
<1> HIDE DEF f
<1>10. Covered(k, b, at)
  BY <1>7, <1>8, <1>9 DEF Covered
<1>11. QED
  BY <1>10 DEF b, k

\* A period that begins after last - Period holds no more stamps than there are
\* hits; one that begins before does not reach the newest stamp.
LEMMA BoundedAppend ==
  ASSUME NEW h \in Seq(Nat), NEW a \in Seq(Nat), NEW at \in Nat, NEW n \in Nat,
         \A i \in DOMAIN a : a[i] <= at,
         Covered(h, Append(a, at), at), Len(h) <= n, Bounded(a, n)
  PROVE  Bounded(Append(a, at), n)
<1> DEFINE b == Append(a, at)
<1>1. /\ DOMAIN b = 1..Len(a) + 1 /\ b[Len(a) + 1] = at /\ DOMAIN a = 1..Len(a)
      /\ Len(a) \in Nat /\ \A i \in DOMAIN a : b[i] = a[i]
      /\ \A i \in DOMAIN b : b[i] \in Nat
  OBVIOUS
<1> HIDE DEF b
<1>2. SUFFICES ASSUME NEW from \in Nat
               PROVE  Cardinality(InWindow(b, from)) <= n
  BY DEF Bounded, b
<1>3. CASE from > at - Period
  <2>1. PICK g \in [Fresh(b, at) -> DOMAIN h] :
          \A i, j \in Fresh(b, at) : g[i] = g[j] => i = j
    BY DEF Covered, b
  <2>2. InWindow(b, from) \subseteq Fresh(b, at)
    BY <1>1, <1>3, NumbersAssumption DEF InWindow, Fresh
  <2>3. [i \in InWindow(b, from) |-> g[i]] \in Injection(InWindow(b, from), 1..Len(h))
    <3>1. DOMAIN h = 1..Len(h)
      OBVIOUS
    <3>2. QED
      BY <2>1, <2>2, <3>1 DEF Injection, IsInjective
  <2>4. IsFiniteSet(1..Len(h)) /\ Cardinality(1..Len(h)) = Len(h)
    <3>1. \A m \in Nat : IsFiniteSet(1..m) /\ Cardinality(1..m) = m
      BY FS_Interval
    <3>2. QED
      BY <3>1
  <2>5. IsFiniteSet(InWindow(b, from)) /\ Cardinality(InWindow(b, from)) <= Len(h)
    BY <2>3, <2>4, FS_Injection
  <2>6. Cardinality(InWindow(b, from)) \in Nat /\ Len(h) \in Nat
    BY <2>5, FS_CardinalityType
  <2>7. QED
    BY <2>5, <2>6
<1>4. CASE ~(from > at - Period)
  <2>1. InWindow(b, from) = InWindow(a, from)
    <3>1. \A i \in DOMAIN b : i = Len(a) + 1 \/ i \in DOMAIN a
      BY <1>1
    <3>2. ~(at - from \in 0..Period - 1)
      BY <1>4, NumbersAssumption
    <3>3. DOMAIN a \subseteq DOMAIN b
      BY <1>1
    <3>4. QED
      BY <1>1, <3>1, <3>2, <3>3 DEF InWindow
  <2>2. QED
    BY <2>1 DEF Bounded
<1>5. QED
  BY <1>3, <1>4

Clock ==
  /\ now \in 0..MaxTime
  /\ pc \in [Threads -> {"idle", "stamped", "admitted"}]
  /\ tier \in [Threads -> Tiers]
  /\ stamp \in [Threads -> 0..MaxTime]
  /\ \A t \in Threads : stamp[t] <= now

Sound(h, a, last, n) ==
  /\ h \in Seq(Nat) /\ a \in Seq(Nat) /\ last \in 0..now
  /\ Len(h) <= n
  /\ \A i \in DOMAIN h : h[i] <= now
  /\ \A i \in DOMAIN a : a[i] <= last
  /\ Covered(h, a, last)
  /\ Bounded(a, n)

Limiters ==
  /\ hits = [r \in Tiers |-> hits[r]]
  /\ latest = [r \in Tiers |-> latest[r]]
  /\ admitted = [r \in Tiers |-> admitted[r]]
  /\ \A r \in Tiers : Sound(hits[r], admitted[r], latest[r], Limit[r])

LEMMA InitLimiters == Init => Clock /\ Limiters
<1> SUFFICES ASSUME Init
             PROVE  Clock /\ Limiters
  OBVIOUS
<1>1. Clock
  BY NumbersAssumption DEF Init, Clock, Tiers
<1>2. Covered(<<>>, <<>>, 0)
  <2>1. Fresh(<<>>, 0) = {}
    BY DEF Fresh
  <2>2. [i \in {} |-> i] \in [Fresh(<<>>, 0) -> DOMAIN <<>>]
    BY <2>1
  <2>3. QED
    BY <2>1, <2>2 DEF Covered
<1>3. ASSUME NEW n \in Nat
      PROVE  Bounded(<<>>, n)
  <2>1. \A from : InWindow(<<>>, from) = {}
    BY DEF InWindow
  <2>2. QED
    BY <2>1, FS_EmptySet DEF Bounded
<1>4. ASSUME NEW r \in Tiers
      PROVE  Sound(<<>>, <<>>, 0, Limit[r])
  <2>1. Limit[r] \in Nat
    BY NumbersAssumption DEF Tiers
  <2>2. QED
    BY <1>2, <1>3, <2>1 DEF Sound, Init
<1>5. QED
  BY <1>1, <1>4 DEF Init, Limiters

LEMMA AppendRows ==
  ASSUME NEW s \in Seq(Nat), NEW x \in Nat
  PROVE  /\ Append(s, x) \in Seq(Nat) /\ Len(Append(s, x)) = Len(s) + 1
         /\ \A i \in DOMAIN Append(s, x) :
              Append(s, x)[i] = x \/ (i \in DOMAIN s /\ Append(s, x)[i] = s[i])
<1> DEFINE b == Append(s, x)
<1>1. b \in Seq(Nat) /\ Len(b) = Len(s) + 1
  OBVIOUS
<1>2. (\A i \in 1..Len(s) : b[i] = s[i]) /\ b[Len(s) + 1] = x
  OBVIOUS
<1>3. DOMAIN b = 1..Len(s) + 1 /\ DOMAIN s = 1..Len(s) /\ Len(s) \in Nat
  OBVIOUS
<1>4. \A i \in 1..Len(s) + 1 : i \in 1..Len(s) \/ i = Len(s) + 1
  BY <1>3
<1> HIDE DEF b
<1>5. ASSUME NEW i \in DOMAIN b
      PROVE  b[i] = x \/ (i \in DOMAIN s /\ b[i] = s[i])
  <2>1. i \in 1..Len(s) \/ i = Len(s) + 1
    BY <1>3, <1>4
  <2>2. CASE i \in 1..Len(s)
    BY <1>2, <1>3, <2>2
  <2>3. CASE i = Len(s) + 1
    BY <1>2, <2>3, Zenon
  <2>4. QED
    BY <2>1, <2>2, <2>3
<1>6. QED
  BY <1>1, <1>5 DEF b

\* What a limiter makes of a call.
LEMMA SoundAllow ==
  ASSUME NEW h, NEW a, NEW last, NEW n \in Nat, Sound(h, a, last, n), now \in Nat,
         NEW at \in 0..now, NEW next \in Nat,
         at >= last => next = at, ~(at >= last) => next = last
  PROVE  /\ Sound(InPeriod(h, at), a, next, n)
         /\ Len(InPeriod(h, at)) < n =>
              /\ ~(at >= last) => Sound(Append(InPeriod(h, at), at), a, next, n)
              /\ at >= last => Sound(Append(InPeriod(h, at), at), Append(a, at), next, n)
<1> DEFINE k == InPeriod(h, at)
           h2 == Append(k, at)
<1> USE DEF Sound
<1>1. /\ at \in Nat /\ last \in Nat /\ at <= now /\ last <= now
      /\ last <= next /\ at <= next /\ next <= now /\ h \in Seq(Nat) /\ a \in Seq(Nat)
  OBVIOUS
<1>2. /\ k \in Seq(Nat) /\ Len(k) <= Len(h) /\ Covered(k, a, next)
      /\ \A i \in DOMAIN k : \E j \in DOMAIN h : k[i] = h[j]
  BY <1>1, CoveredKept
<1> HIDE DEF k
<1>3. /\ Len(k) \in Nat /\ Len(k) <= n
  BY <1>1, <1>2
<1>4. \A i \in DOMAIN k : k[i] <= now
  BY <1>2
<1>5. \A i \in DOMAIN a : a[i] <= next
  BY <1>1
<1>6. Sound(k, a, next, n)
  BY <1>1, <1>2, <1>3, <1>4, <1>5
<1>7. ASSUME Len(k) < n
      PROVE  /\ h2 \in Seq(Nat) /\ Len(h2) <= n
             /\ \A i \in DOMAIN h2 : h2[i] <= now
  <2>1. /\ h2 \in Seq(Nat) /\ Len(h2) = Len(k) + 1
        /\ \A i \in DOMAIN h2 : h2[i] = at \/ (i \in DOMAIN k /\ h2[i] = k[i])
    BY <1>1, <1>2, AppendRows
  <2>2. at <= now /\ Len(k) + 1 <= n
    BY <1>1, <1>3, <1>7
  <2> HIDE DEF h2, Sound
  <2>3. \A i \in DOMAIN h2 : h2[i] <= now
    BY <1>4, <2>1, <2>2
  <2>4. QED
    BY <2>1, <2>2, <2>3
<1>8. ASSUME Len(k) < n, ~(at >= last)
      PROVE  Sound(h2, a, next, n)
  <2>1. Covered(h2, a, next)
    BY <1>1, <1>2, CoveredLate
  <2> HIDE DEF h2
  <2>2. QED
    BY <1>1, <1>5, <1>7, <1>8, <2>1
<1>9. ASSUME Len(k) < n, at >= last
      PROVE  Sound(h2, Append(a, at), next, n)
  <2>1. next = at
    BY <1>9
  <2>2. Covered(h2, Append(a, at), at)
    BY <1>1, <1>2, <2>1, CoveredAppend
  <2> HIDE DEF h2
  <2>3. Bounded(Append(a, at), n)
    BY <1>1, <1>5, <1>7, <1>9, <2>1, <2>2, BoundedAppend
  <2>4. \A i \in DOMAIN Append(a, at) : Append(a, at)[i] <= at
    <3>1. \A i \in DOMAIN Append(a, at) :
            Append(a, at)[i] = at \/ (i \in DOMAIN a /\ Append(a, at)[i] = a[i])
      BY <1>1, AppendRows
    <3>2. QED
      BY <1>1, <1>5, <2>1, <3>1
  <2>5. Append(a, at) \in Seq(Nat)
    BY <1>1
  <2>6. QED
    BY <1>1, <1>7, <1>9, <2>1, <2>2, <2>3, <2>4, <2>5
<1>10. QED
  BY <1>6, <1>8, <1>9 DEF k, h2

LEMMA LaterStamp ==
  ASSUME NEW x \in Int, NEW y \in Int
  PROVE  Max({x, y}) = IF y >= x THEN y ELSE x
<1>1. CASE y >= x
  <2>1. Max({x, y}) = y
    BY <1>1, MaxUnique
  <2>2. QED
    BY <1>1, <2>1
<1>2. CASE ~(y >= x)
  <2>1. Max({x, y}) = x
    BY <1>2, MaxUnique
  <2>2. QED
    BY <1>2, <2>1
<1>3. QED
  BY <1>1, <1>2

LEMMA SmallerOfTwo ==
  ASSUME NEW x \in Int, NEW y \in Int
  PROVE  Min({x, y}) = IF x <= y THEN x ELSE y
<1>1. IsFiniteSet({x, y})
  <2>1. IsFiniteSet({x})
    BY FS_Singleton
  <2>2. IsFiniteSet({x} \cup {y})
    BY <2>1, FS_AddElement, Zenon
  <2>3. {x, y} = {x} \cup {y}
    OBVIOUS
  <2>4. QED
    BY <2>2, <2>3, Zenon
<1>2. Min({x, y}) \in {x, y} /\ \A k \in {x, y} : Min({x, y}) <= k
  BY <1>1, MinIsMinimum
<1>3. QED
  BY <1>2

LEMMA StepLimiters == Clock /\ Limiters /\ [Next]_vars => (Clock /\ Limiters)'
<1> SUFFICES ASSUME Clock, Limiters, [Next]_vars
             PROVE  Clock' /\ Limiters'
  OBVIOUS
<1>t. /\ MaxTime \in Nat /\ now \in Nat /\ {"global", "strict"} \subseteq Tiers
      /\ \A r \in Tiers : Limit[r] \in Nat
  BY NumbersAssumption DEF Clock, Tiers
<1>m. ASSUME now' \in Nat, now <= now', NEW h, NEW a, NEW last, NEW n, Sound(h, a, last, n)
      PROVE  Sound(h, a, last, n)'
  <2>1. \A i \in DOMAIN h : h[i] <= now'
    BY <1>t, <1>m DEF Sound
  <2>2. QED
    BY <1>t, <1>m, <2>1 DEF Sound
<1>l. ASSUME now' \in Nat, now <= now', UNCHANGED <<hits, latest, admitted>>
      PROVE  Limiters'
  <2>1. \A r \in Tiers : Sound(hits[r], admitted[r], latest[r], Limit[r])'
    BY <1>l, <1>m DEF Limiters
  <2>2. QED
    BY <1>l, <2>1 DEF Limiters
<1>1. CASE Tick
  <2>1. now' = now + 1 /\ now < MaxTime /\ UNCHANGED <<pc, tier, stamp, hits, latest, admitted>>
    BY <1>1 DEF Tick
  <2>2. Clock'
    BY <1>t, <2>1 DEF Clock
  <2>3. QED
    BY <1>l, <1>t, <2>1, <2>2
<1>2. ASSUME NEW t \in Threads, NEW r \in Tiers, Arrive(t, r)
      PROVE  Clock' /\ Limiters'
  <2>1. /\ now' = now /\ UNCHANGED <<hits, latest, admitted>>
        /\ pc' = [pc EXCEPT ![t] = "stamped"] /\ tier' = [tier EXCEPT ![t] = r]
        /\ stamp' = [stamp EXCEPT ![t] = now]
    BY <1>2 DEF Arrive
  <2>2. Clock'
    BY <1>t, <2>1 DEF Clock
  <2>3. QED
    BY <1>l, <1>t, <2>1, <2>2
<1>3. ASSUME NEW t \in Threads, Allow(t)
      PROVE  Clock' /\ Limiters'
  <2> DEFINE r == tier[t]
             at == stamp[t]
             k == InPeriod(hits[r], at)
             open == Len(k) < Limit[r]
  <2>1. /\ now' = now
        /\ latest' = [latest EXCEPT ![r] = Max({@, at})]
        /\ stamp' = [stamp EXCEPT ![t] = 0]
        /\ open =>
             /\ pc' = [pc EXCEPT ![t] = "admitted"] /\ tier' = tier
             /\ hits' = [hits EXCEPT ![r] = Append(k, at)]
             /\ admitted' = IF at < latest[r] THEN admitted
                            ELSE [admitted EXCEPT ![r] = Append(@, at)]
        /\ ~open =>
             /\ pc' = [pc EXCEPT ![t] = "idle"] /\ tier' = [tier EXCEPT ![t] = "global"]
             /\ hits' = [hits EXCEPT ![r] = k] /\ admitted' = admitted
    BY <1>3 DEF Allow, Holds
  <2>2. r \in Tiers /\ at \in 0..MaxTime /\ at \in 0..now
    BY <1>t DEF Clock
  <2> HIDE DEF r, at, k
  <2>3. Clock'
    <3>1. /\ pc' = [pc EXCEPT ![t] = "admitted"] \/ pc' = [pc EXCEPT ![t] = "idle"]
          /\ tier' = tier \/ tier' = [tier EXCEPT ![t] = "global"]
          /\ now' = now /\ stamp' = [stamp EXCEPT ![t] = 0]
      BY <2>1
    <3>2. pc' \in [Threads -> {"idle", "stamped", "admitted"}]
      BY <3>1 DEF Clock
    <3>3. tier' \in [Threads -> Tiers]
      BY <1>t, <3>1 DEF Clock
    <3>4. stamp' \in [Threads -> 0..MaxTime] /\ \A u \in Threads : stamp'[u] <= now
      BY <1>t, <3>1 DEF Clock
    <3>5. QED
      BY <3>1, <3>2, <3>3, <3>4 DEF Clock
  <2>4. Sound(hits[r], admitted[r], latest[r], Limit[r]) /\ Limit[r] \in Nat
    BY <1>t, <2>2 DEF Limiters
  <2>5. latest[r] \in Nat
    BY <1>t, <2>4 DEF Sound
  <2>6. latest'[r] = IF at >= latest[r] THEN at ELSE latest[r]
    <3>1. latest'[r] = Max({latest[r], at})
      BY <2>1, <2>2 DEF Limiters
    <3>2. QED
      BY <2>2, <2>5, <3>1, LaterStamp
  <2>7. latest'[r] \in Nat
    BY <2>2, <2>5, <2>6
  <2>8. /\ Sound(k, admitted[r], latest'[r], Limit[r])
        /\ Len(k) < Limit[r] =>
             /\ ~(at >= latest[r]) => Sound(Append(k, at), admitted[r], latest'[r], Limit[r])
             /\ at >= latest[r] => Sound(Append(k, at), Append(admitted[r], at), latest'[r], Limit[r])
    <3>1. PICK next \in Nat : next = latest'[r]
      BY <2>7
    <3>2. at >= latest[r] => next = at
      BY <2>6, <3>1
    <3>3. ~(at >= latest[r]) => next = latest[r]
      BY <2>6, <3>1
    <3> DEFINE a == admitted[r]
               last == latest[r]
               h == hits[r]
               n == Limit[r]
    <3>4. Sound(h, a, last, n) /\ n \in Nat /\ now \in Nat /\ at \in 0..now
      BY <1>t, <2>2, <2>4
    <3> HIDE DEF a, last, h, n
    <3>5. at >= last => next = at
      BY <3>2 DEF last
    <3>6. ~(at >= last) => next = last
      BY <3>3 DEF last
    <3>7. /\ Sound(InPeriod(h, at), a, next, n)
          /\ Len(InPeriod(h, at)) < n =>
               /\ ~(at >= last) => Sound(Append(InPeriod(h, at), at), a, next, n)
               /\ at >= last => Sound(Append(InPeriod(h, at), at), Append(a, at), next, n)
      BY <3>4, <3>5, <3>6, SoundAllow, Zenon
    <3>8. QED
      BY <3>1, <3>7 DEF a, last, h, n, k
  <2>9. ASSUME NEW q \in Tiers
        PROVE  Sound(hits'[q], admitted'[q], latest'[q], Limit[q])
    <3>1. CASE q # r
      <4>1. hits'[q] = hits[q] /\ admitted'[q] = admitted[q] /\ latest'[q] = latest[q]
        BY <2>1, <2>2, <3>1 DEF Limiters
      <4>2. QED
        BY <4>1 DEF Limiters
    <3>2. CASE q = r /\ open
      <4>1. hits'[r] = Append(k, at)
        BY <2>1, <2>2, <3>2 DEF Limiters
      <4>2. CASE at >= latest[r]
        <5>1. ~(at < latest[r])
          BY <2>2, <2>5, <4>2
        <5>2. admitted'[r] = Append(admitted[r], at)
          BY <2>1, <2>2, <3>2, <5>1 DEF Limiters
        <5>3. QED
          BY <2>8, <3>2, <4>1, <4>2, <5>2
      <4>3. CASE ~(at >= latest[r])
        <5>1. at < latest[r]
          BY <2>2, <2>5, <4>3
        <5>2. admitted'[r] = admitted[r]
          BY <2>1, <3>2, <5>1
        <5>3. QED
          BY <2>8, <3>2, <4>1, <4>3, <5>2
      <4>4. QED
        BY <4>2, <4>3
    <3>3. CASE q = r /\ ~open
      <4>1. hits'[r] = k /\ admitted'[r] = admitted[r]
        BY <2>1, <2>2, <3>3 DEF Limiters
      <4>2. QED
        BY <2>8, <3>3, <4>1
    <3>4. QED
      BY <3>1, <3>2, <3>3
  <2>10. Limiters'
    <3>1. \A q \in Tiers : Sound(hits[q], admitted[q], latest[q], Limit[q])'
      BY <1>t, <2>1, <2>9 DEF Sound
    <3>2. /\ hits' = [q \in Tiers |-> hits'[q]]
          /\ latest' = [q \in Tiers |-> latest'[q]]
          /\ admitted' = [q \in Tiers |-> admitted'[q]]
      BY <2>1 DEF Limiters
    <3>3. QED
      BY <3>1, <3>2 DEF Limiters
  <2>11. QED
    BY <2>3, <2>10
<1>4. ASSUME NEW t \in Threads, NEW q, NEW a, Answers(t, q, a)
      PROVE  Clock' /\ Limiters'
  <2>1. /\ UNCHANGED <<now, stamp, hits, latest, admitted>>
        /\ pc' = [pc EXCEPT ![t] = "idle"] /\ tier' = [tier EXCEPT ![t] = "global"]
    BY <1>4 DEF Answers
  <2>2. Clock'
    BY <1>t, <2>1 DEF Clock
  <2>3. QED
    BY <1>l, <1>t, <2>1, <2>2
<1>5. CASE UNCHANGED vars
  <2>1. UNCHANGED <<now, pc, tier, stamp, hits, latest, admitted>>
    BY <1>5 DEF vars
  <2>2. Clock'
    BY <2>1 DEF Clock
  <2>3. QED
    BY <1>l, <1>t, <2>1, <2>2
<1>6. QED
  BY <1>1, <1>2, <1>3, <1>4, <1>5
     DEF Next, GetTracks, GetHrr, GetConjunctions, GetCoplanar, GetTle, GetDrift, PostPull

\* However calls overtake each other between their stamp and the lock, of those
\* that did not come late no period holds more than the limit: the limiter still
\* holds a stamp of its own for each call of the period that ends with the
\* latest (security.py l.33-42).
THEOREM AdmittedBoundedHolds == Spec => []AdmittedBounded
<1>1. Clock /\ Limiters => AdmittedBounded
  <2>1. SUFFICES ASSUME Clock, Limiters, NEW r \in Tiers, NEW from \in 0..now
                 PROVE  Cardinality({i \in DOMAIN admitted[r] :
                                       admitted[r][i] - from \in 0..Period - 1}) <= Limit[r]
    BY DEF AdmittedBounded
  <2>2. Bounded(admitted[r], Limit[r]) /\ from \in Nat
    BY <2>1 DEF Limiters, Sound, Clock
  <2>3. QED
    BY <2>2 DEF Bounded, InWindow
<1>2. QED
  BY <1>1, InitLimiters, StepLimiters, PTL DEF Spec

-----------------------------------------------------------------------------
(* What an answer is the answer to *)

AnswerTo(q) ==
  CASE q.kind = "tracks" ->
         LET modes == ParseModes(q.view, q.modes)
         IN IF modes = Refused \/ ~ParseRanks(q.ranks)
            THEN [tracks |-> {}, banner |-> "refused"]
            ELSE TracksPayload(q.objects, q.list, modes, q.ranks)
    [] q.kind = "conjunctions" ->
         [shown |-> Named(q, ConjunctionsFor(q.objects, q.target, q.range,
                                                  q.halfWidth, q.cap)),
          approach |-> ClosestApproach(q.over, q.window)]
    [] q.kind = "coplanar" ->
         [shown |-> Named(q, CoplanarFor(q.objects, q.target, q.range,
                                              q.halfWidth, q.cap))]
    [] q.kind = "tle" -> TleFor(Retained(q.fixes), q.number, ParsePriority(q.priority))
    [] q.kind = "drift" -> Unwrap(WindowOf(q.samples))
    [] q.kind = "pull" -> ResolveWindow(q, now)

Answered ==
  query = Nothing \/ (query \in Queries /\ (query.kind = "hrr" \/ answer = AnswerTo(query)))

LEMMA InitAnswered == Init => Answered
BY DEF Init, Answered

LEMMA StepAnswered == Answered /\ [Next]_vars => Answered'
<1> SUFFICES ASSUME Answered, [Next]_vars
             PROVE  Answered'
  OBVIOUS
<1> HIDE DEF Nothing
<1>1. CASE query' = Nothing
  BY <1>1 DEF Answered
<1>2. ASSUME NEW t, NEW q \in Queries, NEW a, Answers(t, q, a), q.kind # "hrr" => a = AnswerTo(q)
      PROVE  Answered'
  <2>1. query' = q /\ answer' = a /\ now' = now
    BY <1>2 DEF Answers
  <2>2. AnswerTo(q)' = AnswerTo(q)
    BY <2>1 DEF AnswerTo
  <2>3. QED
    BY <1>2, <2>1, <2>2 DEF Answered
<1>3. ASSUME NEW t \in Threads, NEW q \in Queries, GetTracks(t, q)
      PROVE  Answered'
  BY <1>2, <1>3 DEF GetTracks, AnswerTo
<1>4. ASSUME NEW t \in Threads, NEW q \in Queries, GetHrr(t, q)
      PROVE  Answered'
  BY <1>2, <1>4 DEF GetHrr
<1>5. ASSUME NEW t \in Threads, NEW q \in Queries, GetConjunctions(t, q)
      PROVE  Answered'
  BY <1>2, <1>5 DEF GetConjunctions, AnswerTo
<1>6. ASSUME NEW t \in Threads, NEW q \in Queries, GetCoplanar(t, q)
      PROVE  Answered'
  BY <1>2, <1>6 DEF GetCoplanar, AnswerTo
<1>7. ASSUME NEW t \in Threads, NEW q \in Queries, GetTle(t, q)
      PROVE  Answered'
  BY <1>2, <1>7 DEF GetTle, AnswerTo
<1>8. ASSUME NEW t \in Threads, NEW q \in Queries, GetDrift(t, q)
      PROVE  Answered'
  BY <1>2, <1>8 DEF GetDrift, AnswerTo
<1>9. ASSUME NEW t \in Threads, NEW q \in Queries, PostPull(t, q)
      PROVE  Answered'
  BY <1>2, <1>9 DEF PostPull, AnswerTo
<1>10. CASE UNCHANGED vars
  <2>1. query' = query /\ answer' = answer /\ now' = now
    BY <1>10 DEF vars
  <2>2. AnswerTo(query)' = AnswerTo(query)
    BY <2>1 DEF AnswerTo
  <2>3. QED
    BY <2>1, <2>2 DEF Answered
<1>11. ASSUME NEW t \in Threads, Allow(t) \/ \E r \in Tiers : Arrive(t, r)
       PROVE  query' = Nothing
  BY <1>11 DEF Allow, Arrive
<1>12. Tick => query' = Nothing
  BY DEF Tick
<1>13. QED
  BY <1>1, <1>3, <1>4, <1>5, <1>6, <1>7, <1>8, <1>9, <1>10, <1>11, <1>12 DEF Next

LEMMA Invariance == Spec => [](Clock /\ Limiters /\ Answered)
BY InitLimiters, StepLimiters, InitAnswered, StepAnswered, PTL DEF Spec

\* Calls and limiters stay in their ranges, and a pull is given a window that is
\* forward and no longer than MaxHours, or none (security.py l.24-42, main.py
\* l.380-409).
THEOREM TypeOKHolds == Spec => []TypeOK
<1>1. Clock /\ Limiters /\ Answered => TypeOK
  <2> SUFFICES ASSUME Clock, Limiters, Answered
               PROVE  TypeOK
    OBVIOUS
  <2>1. ASSUME NEW r \in Tiers
        PROVE  /\ Len(hits[r]) <= Limit[r]
               /\ \A i \in DOMAIN hits[r] : hits[r][i] \in 0..now
    <3>1. Sound(hits[r], admitted[r], latest[r], Limit[r]) /\ now \in Nat
      BY NumbersAssumption DEF Limiters, Clock
    <3>2. \A i \in DOMAIN hits[r] : hits[r][i] \in Nat
      BY <3>1 DEF Sound
    <3>3. QED
      BY <3>1, <3>2 DEF Sound
  <2>2. ASSUME query.kind = "pull"
        PROVE  \/ answer = NoWindow
               \/ answer.start < answer.end /\ answer.end - answer.start <= MaxHours
    <3>1. query \in Queries /\ answer = ResolveWindow(query, now)
      BY <2>2 DEF Answered, Nothing, AnswerTo
    <3>2. /\ query.start \in Int /\ query.end \in Int /\ query.hours \in Int /\ now \in Int
          /\ MaxHours \in Nat \ {0}
      BY <2>2, <3>1, NumbersAssumption, QueriesAssumption DEF Clock
    <3>3. Hours(query.hours) \in 1..MaxHours
      <4>1. \A x, y \in Int : Min({x, y}) = IF x <= y THEN x ELSE y
        BY SmallerOfTwo
      <4>2. Hours(query.hours) = Max({1, IF query.hours <= MaxHours THEN query.hours ELSE MaxHours})
        BY <3>2, <4>1 DEF Hours
      <4>3. QED
        BY <3>2, <4>2, LaterStamp
    <3>4. QED
      BY <3>1, <3>2, <3>3 DEF ResolveWindow, NoWindow, Unset
  <2>3. QED
    BY <2>1, <2>2 DEF TypeOK, Clock
<1>2. QED
  BY <1>1, Invariance, PTL

-----------------------------------------------------------------------------
(* Tracks *)

LEMMA RankTable ==
  /\ \A m : RankOfMarking(m) \in 0..4
  /\ RankOfMarking("UNCLASSIFIED") = 0
<1>1. /\ DOMAIN MarkingRank = {"U", "UNCLASSIFIED", "CUI", "C", "S", "TS"}
      /\ MarkingRank["U"] = 0 /\ MarkingRank["UNCLASSIFIED"] = 0
      /\ MarkingRank["CUI"] = 1 /\ MarkingRank["C"] = 2
      /\ MarkingRank["S"] = 3 /\ MarkingRank["TS"] = 4
  BY DEF MarkingRank
<1>2. QED
  BY <1>1 DEF RankOfMarking

LEMMA BannerShown ==
  ASSUME NEW M
  PROVE  /\ Banner(M) \in {"UNCLASSIFIED"} \cup M
         /\ \A m \in M \cap DOMAIN MarkingRank : MarkingRank[m] <= MarkingRank[Banner(M)]
<1> DEFINE R == {0} \cup {RankOfMarking(x) : x \in M}
           best == Max(R)
<1>1. R \in SUBSET (0..4) /\ R \in SUBSET Int
  BY RankTable
<1>2. IsFiniteSet(R)
  <2>1. IsFiniteSet(0..4)
    <3>1. \A n \in Nat : IsFiniteSet(0..n)
      BY FS_Interval
    <3>2. QED
      BY <3>1
  <2> HIDE DEF R
  <2>2. QED
    BY <1>1, <2>1, FS_Subset
<1>3. 0 \in R /\ \A m \in M : RankOfMarking(m) \in R
  OBVIOUS
<1>4. best \in R /\ \A k \in R : k <= best
  <2> HIDE DEF R
  <2> QED
    BY <1>1, <1>2, <1>3, MaxIsMaximum
<1>5. Banner(M) = IF best = 0 THEN "UNCLASSIFIED"
                  ELSE CHOOSE x \in M : RankOfMarking(x) = best
  BY DEF Banner
<1>6. best # 0 => \E x \in M : RankOfMarking(x) = best
  BY <1>4
<1> HIDE DEF best, R
<1>7. /\ RankOfMarking(Banner(M)) = best
      /\ best = 0 => Banner(M) = "UNCLASSIFIED"
      /\ best # 0 => Banner(M) \in M
  BY <1>5, <1>6, RankTable
<1>8. Banner(M) \in DOMAIN MarkingRank /\ MarkingRank[Banner(M)] = best
  <2>1. CASE best = 0
    <3>1. "UNCLASSIFIED" \in DOMAIN MarkingRank /\ MarkingRank["UNCLASSIFIED"] = 0
      BY DEF MarkingRank
    <3>2. QED
      BY <1>7, <2>1, <3>1
  <2>2. CASE best # 0
    BY <1>7, <2>2 DEF RankOfMarking
  <2>3. QED
    BY <2>1, <2>2
<1>9. \A m \in M \cap DOMAIN MarkingRank : MarkingRank[m] <= best
  BY <1>3, <1>4 DEF RankOfMarking
<1>10. QED
  BY <1>7, <1>8, <1>9

\* Whatever the list ranks and whatever the markings: rank by rank the plot
\* loads what it would load at once, each object for one rank, but for the
\* objects that the list ranks outside of 1 to 5, and the banner is the highest
\* of the markings that the table knows (main.py l.78-187).
THEOREM TracksCompleteHolds == Spec => []TracksComplete
<1>1. Answered => TracksComplete
  <2> SUFFICES ASSUME Answered, TracksShown
               PROVE  TracksComplete
    BY DEF TracksComplete
  <2> DEFINE modes == ParseModes(query.view, query.modes)
             has(o) == /\ o \in DOMAIN query.objects
                       /\ ModeOf(query.objects[o]) \in modes
                       /\ query.objects[o].samples # {}
             rank(o) == RankOf(o, query.list)
             missed == {o \in DOMAIN query.list : query.list[o].rank \notin {NoRank} \cup 1..5}
  <2>1. \A o : o \in AllTracks <=> has(o)
    BY DEF AllTracks, TracksPayload
  <2>2. \A k, o : o \in OfRank(k) <=> has(o) /\ rank(o) = k
    BY DEF OfRank, TracksPayload
  <2>3. answer = TracksPayload(query.objects, query.list, modes, query.ranks)
    <3>1. answer = AnswerTo(query) /\ query.kind = "tracks" /\ answer.banner # "refused"
      BY DEF Answered, Nothing, TracksShown
    <3>2. [tracks |-> {}, banner |-> "refused"].banner = "refused"
      OBVIOUS
    <3>3. QED
      BY <3>1, <3>2 DEF AnswerTo
  <2>4. \A o : rank(o) \in 1..5 <=> o \notin missed
    BY DEF RankOf, NoRank
  <2> HIDE DEF has, rank, missed
  <2>5. \A o \in AllTracks \ missed : \E k \in 1..5 : \A j \in 1..5 : o \in OfRank(j) <=> j = k
    <3>1. TAKE o \in AllTracks \ missed
    <3>2. rank(o) \in 1..5 /\ has(o)
      BY <2>1, <2>4
    <3>3. \A j \in 1..5 : o \in OfRank(j) <=> j = rank(o)
      BY <2>2, <3>2
    <3>4. QED
      BY <3>2, <3>3
  <2>6. \A k \in 1..5 : OfRank(k) \subseteq AllTracks \ missed
    BY <2>1, <2>2, <2>4
  <2>7. /\ answer.banner \in {"UNCLASSIFIED"} \cup MarkingsShown
        /\ \A m \in MarkingsShown \cap DOMAIN MarkingRank :
             MarkingRank[m] <= MarkingRank[answer.banner]
    <3>1. answer.banner = Banner(MarkingsShown)
      BY <2>3 DEF TracksPayload, MarkingsShown
    <3>2. QED
      BY <3>1, BannerShown
  <2>8. QED
    BY <2>5, <2>6, <2>7 DEF TracksComplete, missed
<1>2. QED
  BY <1>1, Invariance, PTL

-----------------------------------------------------------------------------
(* Element sets *)

Dated(held) == IsFiniteSet(held) /\ \A x \in held : x.epoch \in Int

LEMMA NewestIsNewest ==
  ASSUME NEW fixes, Dated(fixes), fixes # {}
  PROVE  NewestFix(fixes) \in fixes /\ \A x \in fixes : x.epoch <= NewestFix(fixes).epoch
<1> DEFINE E == {x.epoch : x \in fixes}
           f == [x \in fixes |-> x.epoch]
<1>1. E \in SUBSET Int /\ E # {}
  BY DEF Dated
<1>2. f \in Surjection(fixes, E)
  BY DEF Surjection
<1>3. IsFiniteSet(E)
  BY <1>2, FS_Surjection DEF Dated
<1> HIDE DEF E
<1>4. PICK m \in E : \A k \in E : k <= m
  BY <1>1, <1>3, FiniteMaximum
<1>5. \E el \in fixes : \A x \in fixes : x.epoch <= el.epoch
  BY <1>4 DEF E
<1>6. NewestFix(fixes) = CHOOSE el \in fixes : \A x \in fixes : x.epoch <= el.epoch
  BY DEF NewestFix
<1>7. QED
  BY <1>5, <1>6, Zenon

LEMMA DatedSubset ==
  ASSUME NEW held, Dated(held), NEW S \in SUBSET held
  PROVE  Dated(S)
BY FS_Subset DEF Dated

LEMMA FixIsDated ==
  ASSUME NEW el \in Fix
  PROVE  el.epoch \in Int
<1> DEFINE L == Seq(Line)
           M == Seq(STRING)
<1>1. el \in [epoch : Int, source : STRING, usable : BOOLEAN, candidate : BOOLEAN,
               lines : L, marking : M]
  BY DEF Fix
<1> HIDE DEF L, M
<1>2. QED
  BY <1>1

LEMMA FixesAreDated ==
  ASSUME NEW fixes \in Seq(Fix)
  PROVE  /\ DOMAIN fixes = 1..Len(fixes) /\ Len(fixes) \in Nat
         /\ \A i \in DOMAIN fixes : fixes[i].epoch \in Int
<1>1. \A T : \A x \in Seq(T) : /\ DOMAIN x = 1..Len(x) /\ Len(x) \in Nat
                             /\ \A i \in DOMAIN x : x[i] \in T
  OBVIOUS
<1>2. QED
  BY <1>1, FixIsDated

\* One of the fixes in some places is kept, and none of the others replaces it.
LEMMA OneIsKept ==
  ASSUME NEW fixes \in Seq(Fix), NEW P \in SUBSET DOMAIN fixes, P # {}
  PROVE  \E i \in P : LastNewest(fixes, P) = fixes[i] /\ \A j \in P : ~Replaces(fixes, j, i)
<1> DEFINE E == {fixes[i].epoch : i \in P}
<1>1. /\ DOMAIN fixes = 1..Len(fixes) /\ Len(fixes) \in Nat
      /\ \A i \in DOMAIN fixes : fixes[i].epoch \in Int
  BY FixesAreDated
<1>2. \A S \in SUBSET P : IsFiniteSet(S)
  <2>1. IsFiniteSet(1..Len(fixes))
    <3>1. \A n \in Nat : IsFiniteSet(1..n)
      BY FS_Interval
    <3>2. QED
      BY <1>1, <3>1
  <2>2. QED
    BY <1>1, <2>1, FS_Subset
<1>3. E \in SUBSET Int /\ E # {}
  BY <1>1
<1>4. IsFiniteSet(E)
  <2> DEFINE f == [i \in P |-> fixes[i].epoch]
  <2>1. f \in Surjection(P, E)
    BY DEF Surjection
  <2> HIDE DEF E, f
  <2>2. QED
    BY <1>2, <2>1, FS_Surjection
<1>5. PICK m \in E : \A e \in E : e <= m
  <2> HIDE DEF E
  <2> QED
    BY <1>3, <1>4, FiniteMaximum
<1> DEFINE S == {i \in P : fixes[i].epoch = m}
<1>6. PICK i \in S : \A j \in S : j <= i
  <2>1. S \in SUBSET Int /\ S # {} /\ S \in SUBSET P
    BY <1>1
  <2> HIDE DEF S
  <2>2. QED
    BY <1>2, <2>1, FiniteMaximum
<1>7. \A j \in P : ~Replaces(fixes, j, i)
  <2>1. SUFFICES ASSUME NEW j \in P, Replaces(fixes, j, i)
                 PROVE  FALSE
    OBVIOUS
  <2>2. fixes[j].epoch <= m /\ fixes[i].epoch = m /\ m \in Int /\ fixes[j].epoch \in Int
    BY <1>1, <1>3, <1>5
  <2>3. fixes[j].epoch = m /\ j > i
    BY <2>1, <2>2 DEF Replaces
  <2>4. j <= i /\ i \in Int /\ j \in Int
    BY <1>1, <1>6, <2>3
  <2>5. QED
    BY <2>3, <2>4
<1>8. i \in P
  OBVIOUS
<1> HIDE DEF S, E
<1>9. QED
  BY <1>7, <1>8 DEF LastNewest

Words == STRING \cup Classes

LEMMA PriorityIsSeq ==
  ASSUME NEW words \in Seq(STRING)
  PROVE  ParsePriority(words) \in Seq(Words)
<1> DEFINE places == {i \in DOMAIN words : words[i] \in Classes}
<1>1. places \in SUBSET (DOMAIN words)
  OBVIOUS
<1>2. words \in Seq(Words)
  <2>1. \A T : words \in Seq(STRING \cup T)
    OBVIOUS
  <2>2. QED
    BY <2>1 DEF Words
<1>3. RowsAt(words, places) \in Seq(Words)
  <2> HIDE DEF places
  <2> QED
    BY <1>1, <1>2, RowsAtSeq
<1>4. DefaultPriority \in Seq(Words) /\ <<>> \in Seq(Words)
  <2>1. \A T : \A a, b, c \in T : <<a, b, c>> \in Seq(T)
    OBVIOUS
  <2>2. QED
    BY <2>1 DEF DefaultPriority, Words, Classes
<1>5. QED
  BY <1>3, <1>4 DEF ParsePriority

Supersedes(fixes, j, i) ==
  /\ fixes[j].candidate /\ fixes[j].source = fixes[i].source
  /\ Replaces(fixes, j, i)

Standing(fixes) ==
  {i \in DOMAIN fixes : fixes[i].candidate /\ fixes[i].usable
                        /\ ~\E j \in DOMAIN fixes : Supersedes(fixes, j, i)}

\* Of what an object retains for each provider, the usable ones are those that
\* stand among the fixes it was ever offered.
LEMMA StandingRetained ==
  ASSUME NEW fixes \in Seq(Fix)
  PROVE  {c \in Retained(fixes).candidates : c.usable} = {fixes[i] : i \in Standing(fixes)}
<1> DEFINE offered == {i \in DOMAIN fixes : fixes[i].candidate}
           of(s) == {i \in offered : fixes[i].source = s}
           C == {LastNewest(fixes, of(s)) : s \in {fixes[i].source : i \in offered}}
<1>1. Retained(fixes).candidates = C
  BY DEF Retained
<1>2. DOMAIN fixes = 1..Len(fixes) /\ Len(fixes) \in Nat
      /\ \A i \in DOMAIN fixes : fixes[i].epoch \in Int
  BY FixesAreDated
<1>3. ASSUME NEW i \in offered
      PROVE  \E k \in of(fixes[i].source) :
               /\ LastNewest(fixes, of(fixes[i].source)) = fixes[k]
               /\ \A j \in of(fixes[i].source) : ~Replaces(fixes, j, k)
  <2>1. of(fixes[i].source) \in SUBSET DOMAIN fixes /\ of(fixes[i].source) # {}
    BY <1>3
  <2> HIDE DEF of
  <2>2. QED
    BY <2>1, OneIsKept
<1>4. ASSUME NEW c \in C, c.usable
      PROVE  \E k \in Standing(fixes) : c = fixes[k]
  <2>1. PICK i \in offered : c = LastNewest(fixes, of(fixes[i].source))
    OBVIOUS
  <2>2. PICK k \in of(fixes[i].source) :
               /\ LastNewest(fixes, of(fixes[i].source)) = fixes[k]
               /\ \A j \in of(fixes[i].source) : ~Replaces(fixes, j, k)
    BY <1>3
  <2>3. k \in DOMAIN fixes /\ fixes[k].candidate /\ fixes[k].source = fixes[i].source /\ c = fixes[k]
    BY <2>1, <2>2
  <2>4. \A j \in DOMAIN fixes : ~Supersedes(fixes, j, k)
    BY <2>2, <2>3 DEF Supersedes
  <2>5. QED
    BY <1>4, <2>3, <2>4 DEF Standing
<1>5. ASSUME NEW i \in Standing(fixes)
      PROVE  fixes[i] \in C /\ fixes[i].usable
  <2>1. /\ i \in offered /\ i \in DOMAIN fixes /\ fixes[i].usable
        /\ \A j \in DOMAIN fixes : ~Supersedes(fixes, j, i)
    BY DEF Standing
  <2>2. PICK k \in of(fixes[i].source) :
               /\ LastNewest(fixes, of(fixes[i].source)) = fixes[k]
               /\ \A j \in of(fixes[i].source) : ~Replaces(fixes, j, k)
    BY <1>3, <2>1
  <2>3. ~Replaces(fixes, k, i) /\ ~Replaces(fixes, i, k)
    BY <2>1, <2>2 DEF Supersedes
  <2>4. fixes[k].epoch \in Int /\ fixes[i].epoch \in Int /\ k \in Int /\ i \in Int
    BY <1>2, <2>1, <2>2
  <2>5. k = i
    BY <2>3, <2>4 DEF Replaces
  <2>6. QED
    BY <2>1, <2>2, <2>5
<1> HIDE DEF C
<1>6. QED
  BY <1>1, <1>4, <1>5

\* The newest fix of each provider keeps, for the choice by class, what the
\* choice among all fixes that stand would find.
LEMMA BestIsSelected ==
  ASSUME NEW fixes \in Seq(Fix), NEW policy \in Seq(Words)
  PROVE  LET el == SelectElset(Retained(fixes), policy)
             place(x) == Min({Len(policy) + 1} \cup
                             {i \in DOMAIN policy : policy[i] = ClassifySource(x.source)})
         IN /\ \A i \in Standing(fixes) :
                 /\ place(el) <= place(fixes[i])
                 /\ place(el) = place(fixes[i]) => fixes[i].epoch <= el.epoch
            /\ Standing(fixes) # {} => \E i \in Standing(fixes) : el = fixes[i]
            /\ Standing(fixes) = {} /\ el # NoFix =>
                 /\ el.usable
                 /\ \E i \in DOMAIN fixes :
                      el = fixes[i] /\ \A j \in DOMAIN fixes : ~Replaces(fixes, j, i)
<1> DEFINE obj == Retained(fixes)
           stand == {fixes[i] : i \in Standing(fixes)}
           held == CandidatesOf(obj)
           ofClass(cls) == {x \in held : ClassifySource(x.source) = cls}
           ranks == {i \in DOMAIN policy : ofClass(policy[i]) # {}}
           chosen == IF ranks = {} THEN held ELSE ofClass(policy[Min(ranks)])
           el == SelectElset(obj, policy)
           placesOf(x) == {i \in DOMAIN policy : policy[i] = ClassifySource(x.source)}
           place(x) == Min({Len(policy) + 1} \cup placesOf(x))
<1>1. obj.elset = LastNewest(fixes, DOMAIN fixes)
  BY DEF Retained
<1>2. el = NewestFix(chosen)
  BY DEF SelectElset
<1>3. DOMAIN policy = 1..Len(policy) /\ Len(policy) \in Nat
  OBVIOUS
<1>4. held = IF stand # {} THEN stand ELSE {x \in {LastNewest(fixes, DOMAIN fixes)} : x.usable}
  <2>1. {c \in obj.candidates : c.usable} = stand
    BY StandingRetained
  <2> HIDE DEF obj, stand
  <2>2. QED
    BY <1>1, <2>1 DEF CandidatesOf
<1>5. \A i \in DOMAIN fixes : fixes[i].epoch \in Int
  BY FixesAreDated
<1>6. Standing(fixes) \in SUBSET DOMAIN fixes
  BY DEF Standing
<1>7. NoFix.usable = FALSE /\ NoFix.epoch \in Int
  BY DEF NoFix
<1>8. Dated(held)
  <2>1. CASE stand # {}
    <3>1. IsFiniteSet(DOMAIN fixes)
      <4>1. \A n \in Nat : IsFiniteSet(1..n)
        BY FS_Interval
      <4>2. DOMAIN fixes = 1..Len(fixes) /\ Len(fixes) \in Nat
        OBVIOUS
      <4>3. QED
        BY <4>1, <4>2
    <3>2. IsFiniteSet(Standing(fixes))
      BY <1>6, <3>1, FS_Subset
    <3> DEFINE f == [i \in Standing(fixes) |-> fixes[i]]
    <3>3. f \in Surjection(Standing(fixes), stand)
      BY DEF Surjection
    <3>4. \A x \in stand : x.epoch \in Int
      BY <1>5, <1>6
    <3> HIDE DEF held, stand, f
    <3>5. IsFiniteSet(stand)
      BY <3>2, <3>3, FS_Surjection
    <3>6. QED
      BY <1>4, <2>1, <3>4, <3>5 DEF Dated
  <2>2. CASE stand = {}
    <3> DEFINE last == LastNewest(fixes, DOMAIN fixes)
    <3>1. last = NoFix \/ \E i \in DOMAIN fixes : last = fixes[i]
      <4>1. CASE DOMAIN fixes = {}
        BY <4>1 DEF LastNewest
      <4>2. CASE DOMAIN fixes # {}
        BY <4>2, OneIsKept
      <4>3. QED
        BY <4>1, <4>2
    <3>2. last.epoch \in Int
      BY <1>5, <1>7, <3>1
    <3> HIDE DEF held, stand, last
    <3>3. held \in SUBSET {last}
      BY <1>4, <2>2 DEF last
    <3>4. IsFiniteSet({last})
      BY FS_Singleton
    <3>5. IsFiniteSet(held)
      BY <3>3, <3>4, FS_Subset
    <3>6. QED
      BY <3>2, <3>3, <3>5 DEF Dated
  <2>3. QED
    BY <2>1, <2>2
<1> HIDE DEF obj, held
<1>9. chosen \in SUBSET held /\ Dated(chosen)
  <2>1. chosen \in SUBSET held
    OBVIOUS
  <2> HIDE DEF chosen
  <2>2. QED
    BY <1>8, <2>1, DatedSubset
<1>10. chosen # {} => el \in chosen /\ \A x \in chosen : x.epoch <= el.epoch
  <2> HIDE DEF chosen, el
  <2> QED
    BY <1>2, <1>9, NewestIsNewest
<1>11. chosen = {} <=> held = {}
  <2>1. CASE ranks = {}
    BY <2>1
  <2>2. CASE ranks # {}
    <3>1. Min(ranks) \in ranks
      <4>1. ranks \in SUBSET (1..Len(policy)) /\ ranks \in SUBSET Int
        BY <1>3
      <4>2. IsFiniteSet(1..Len(policy))
        <5>1. \A m \in Nat : IsFiniteSet(1..m)
          BY FS_Interval
        <5>2. QED
          BY <1>3, <5>1
      <4> HIDE DEF ranks
      <4>3. IsFiniteSet(ranks)
        BY <4>1, <4>2, FS_Subset
      <4>4. QED
        BY <2>2, <4>1, <4>3, MinIsMinimum
    <3>2. QED
      BY <2>2, <3>1
  <2>3. QED
    BY <2>1, <2>2
<1>12. ASSUME NEW x
       PROVE  /\ place(x) \in {Len(policy) + 1} \cup placesOf(x)
              /\ \A i \in placesOf(x) : place(x) <= i
              /\ place(x) <= Len(policy) + 1
  <2> DEFINE P == {Len(policy) + 1} \cup placesOf(x)
  <2>1. IsFiniteSet(1..Len(policy) + 1)
    <3>1. \A m \in Nat : IsFiniteSet(1..m)
      BY FS_Interval
    <3>2. QED
      BY <1>3, <3>1
  <2>2. P \in SUBSET (1..Len(policy) + 1)
    BY <1>3
  <2>3. P \in SUBSET Int /\ P # {}
    BY <1>3
  <2>4. Len(policy) + 1 \in P /\ placesOf(x) \subseteq P
    OBVIOUS
  <2>5. place(x) = Min(P)
    OBVIOUS
  <2> HIDE DEF P, place, placesOf
  <2>6. IsFiniteSet(P)
    BY <2>1, <2>2, FS_Subset
  <2>7. Min(P) \in P /\ \A k \in P : Min(P) <= k
    BY <2>3, <2>6, MinIsMinimum
  <2>8. QED
    BY <2>4, <2>5, <2>7 DEF P
<1>13. ASSUME NEW i \in Standing(fixes)
       PROVE  /\ place(el) <= place(fixes[i])
              /\ place(el) = place(fixes[i]) => fixes[i].epoch <= el.epoch
  <2> DEFINE y == fixes[i]
  <2>1. y \in stand /\ y.epoch \in Int
    BY <1>5, <1>6
  <2>2. y \in held
    BY <1>4, <2>1
  <2>3. chosen # {}
    <3> HIDE DEF chosen, stand
    <3> QED
      BY <1>11, <2>2
  <2>4. el \in chosen /\ el.epoch \in Int /\ \A z \in chosen : z.epoch <= el.epoch
    <3> HIDE DEF chosen, el, stand
    <3> QED
      BY <1>8, <1>9, <1>10, <2>3 DEF Dated
  <2> HIDE DEF y, stand
  <2>6. CASE ranks = {}
    <3>1. chosen = held
      BY <2>6
    <3>2. \A z \in held : placesOf(z) = {}
      BY <2>6
    <3> HIDE DEF chosen, el, place, placesOf, ranks
    <3>3. place(el) = Len(policy) + 1 /\ place(y) = Len(policy) + 1
      BY <1>12, <2>2, <2>4, <3>1, <3>2
    <3>4. QED
      BY <1>3, <2>2, <2>4, <3>1, <3>3 DEF y
  <2>7. CASE ranks # {}
    <3> DEFINE k == Min(ranks)
    <3>1. k \in ranks /\ \A r \in ranks : k <= r
      <4>1. ranks \in SUBSET (1..Len(policy)) /\ ranks \in SUBSET Int
        BY <1>3
      <4>2. IsFiniteSet(1..Len(policy))
        <5>1. \A m \in Nat : IsFiniteSet(1..m)
          BY FS_Interval
        <5>2. QED
          BY <1>3, <5>1
      <4> HIDE DEF ranks
      <4>3. IsFiniteSet(ranks)
        BY <4>1, <4>2, FS_Subset
      <4>4. QED
        BY <2>7, <4>1, <4>3, MinIsMinimum
    <3>2. chosen = ofClass(policy[k])
      BY <2>7
    <3> HIDE DEF k, chosen, el, place
    <3>3. k \in DOMAIN policy /\ k \in 1..Len(policy) /\ k \in Int
      BY <1>3, <3>1
    <3>4. \A z \in chosen : k \in placesOf(z)
      BY <3>2, <3>3
    <3>5. placesOf(y) \subseteq ranks
      BY <2>2
    <3>6. k \in placesOf(y) => y \in chosen
      BY <2>2, <3>2
    <3>7. placesOf(el) \subseteq DOMAIN policy /\ placesOf(y) \subseteq DOMAIN policy
      OBVIOUS
    <3> HIDE DEF placesOf, ranks, ofClass
    <3>8. place(el) <= k /\ place(el) \in Int
      BY <1>3, <1>12, <2>4, <3>4, <3>7
    <3>9. place(y) = Len(policy) + 1 \/ (place(y) \in ranks /\ place(y) \in placesOf(y))
      BY <1>12, <3>5
    <3>10. place(y) \in Int /\ k <= place(y)
      BY <1>3, <3>1, <3>3, <3>7, <3>9
    <3>11. place(el) = place(y) => y \in chosen
      BY <1>3, <3>3, <3>6, <3>8, <3>9, <3>10
    <3>12. place(el) <= place(y) /\ (place(el) = place(y) => y.epoch <= el.epoch)
      BY <2>4, <3>3, <3>8, <3>10, <3>11
    <3>13. QED
      BY <3>12 DEF y
  <2>8. QED
    BY <2>6, <2>7
<1>14. Standing(fixes) # {} => \E i \in Standing(fixes) : el = fixes[i]
  <2>1. SUFFICES ASSUME stand # {}
                 PROVE  el \in stand
    OBVIOUS
  <2> HIDE DEF chosen, el, stand
  <2>2. QED
    BY <1>4, <1>9, <1>10, <1>11, <2>1
<1>15. ASSUME Standing(fixes) = {}, el # NoFix
       PROVE  /\ el.usable
              /\ \E i \in DOMAIN fixes :
                   el = fixes[i] /\ \A j \in DOMAIN fixes : ~Replaces(fixes, j, i)
  <2>1. stand = {}
    BY <1>15
  <2> HIDE DEF chosen, stand
  <2>2. chosen # {}
    BY <1>2, <1>15 DEF NewestFix
  <2> HIDE DEF el
  <2>3. el = LastNewest(fixes, DOMAIN fixes) /\ el.usable
    BY <1>4, <1>9, <1>10, <2>1, <2>2
  <2>4. DOMAIN fixes # {}
    BY <1>7, <2>3 DEF LastNewest
  <2>5. QED
    BY <2>3, <2>4, OneIsKept
<1> HIDE DEF el
<1>16. QED
  BY <1>13, <1>14, <1>15 DEF el, obj

\* Whatever fixes were merged, in whatever order, usable or not, and whatever
\* the policy: the published fix is the best of those that stand, and what is
\* said of it is true of it (tle.py l.9-24, l.291-348, conjunction.py l.163-207).
THEOREM PolicyIsHeld == Spec => []PolicyHolds
<1>1. Answered => PolicyHolds
  <2> SUFFICES ASSUME Answered, query.kind = "tle"
               PROVE  PolicyHolds
    BY DEF PolicyHolds
  <2> DEFINE policy == ParsePriority(query.priority)
             el == SelectElset(Retained(query.fixes), policy)
  <2>1. query \in Queries /\ answer = TleFor(Retained(query.fixes), query.number, policy)
    <3>1. answer = AnswerTo(query) /\ query \in Queries
      BY DEF Answered, Nothing
    <3>2. QED
      BY <3>1 DEF AnswerTo
  <2>2. query.fixes \in Seq(Fix) /\ policy \in Seq(Words)
    BY <2>1, QueriesAssumption, PriorityIsSeq
  <2>3. /\ answer.elset = el /\ answer.native = ValidateNative(el.lines, query.number)
        /\ answer.provenance = Provenance(el, answer.native)
    BY <2>1 DEF TleFor
  <2>4. el.source \in Government => answer.provenance.class = "government"
    BY <2>3 DEF Provenance, ClassifySource
  <2>5. answer.native => /\ query.number \in {NoNumber, el.lines[1].number}
                         /\ answer.provenance.epoch = el.epoch
    <3>1. answer.native =>
            query.number = NoNumber \/ query.number = el.lines[1].number
      <4> HIDE DEF el
      <4> QED
        BY <2>3 DEF ValidateNative
    <3>2. answer.provenance.epoch = el.epoch
      <4> HIDE DEF el
      <4> QED
        BY <2>3 DEF Provenance
    <3> HIDE DEF el
    <3>3. QED
      BY <3>1, <3>2
  <2> HIDE DEF policy
  <2>6. LET place(x) == Min({Len(policy) + 1} \cup
                            {i \in DOMAIN policy : policy[i] = ClassifySource(x.source)})
        IN /\ \A i \in Standing(query.fixes) :
                /\ place(el) <= place(query.fixes[i])
                /\ place(el) = place(query.fixes[i]) => query.fixes[i].epoch <= el.epoch
           /\ Standing(query.fixes) # {} => \E i \in Standing(query.fixes) : el = query.fixes[i]
           /\ Standing(query.fixes) = {} /\ el # NoFix =>
                /\ el.usable
                /\ \E i \in DOMAIN query.fixes :
                     el = query.fixes[i]
                     /\ \A j \in DOMAIN query.fixes : ~Replaces(query.fixes, j, i)
    BY <2>2, BestIsSelected
  <2> HIDE DEF el
  <2>7. QED
    BY <2>3, <2>4, <2>5, <2>6 DEF PolicyHolds, policy, Standing, Supersedes
<1>2. QED
  BY <1>1, Invariance, PTL

-----------------------------------------------------------------------------
(* Drift *)

\* The rows from some place on keep their distances from the last.
LEMMA TrailingRows ==
  ASSUME NEW T, NEW rows \in Seq(T), NEW places \in SUBSET (DOMAIN rows),
         \A i \in places : \A j \in DOMAIN rows : i <= j => j \in places
  PROVE  \A i \in 1..Cardinality(places) :
           /\ Len(rows) - Cardinality(places) + i \in DOMAIN rows
           /\ RowsAt(rows, places)[i] = rows[Len(rows) - Cardinality(places) + i]
<1> DEFINE N == Len(rows)
           c == Cardinality(places)
           p == Ascending(places)
<1>1. DOMAIN rows = 1..N /\ N \in Nat
  OBVIOUS
<1>2. c \in Nat /\ c <= N /\ IsFiniteSet(places) /\ places \in SUBSET Nat
  BY <1>1, RowsAtSeq
<1>3. /\ p \in [1..c -> places] /\ \A i, j \in 1..c : i < j => p[i] < p[j]
      /\ \A x \in places : \E i \in 1..c : p[i] = x
  BY <1>2, AscendingOrder
<1>4. \A i \in 1..c : RowsAt(rows, places)[i] = rows[p[i]]
  BY DEF RowsAt
<1>5. \A i \in 1..c : p[i] \in 1..N
  BY <1>1, <1>3
<1> HIDE DEF p, c, N
<1> DEFINE S == {j \in 0..c - 1 : p[c - j] = N - j}
<1>6. c # 0 => 0 \in S
  <2> SUFFICES ASSUME c # 0
               PROVE  p[c] = N
    BY <1>2, <1>5
  <2>1. c \in 1..c /\ p[c] \in places /\ p[c] \in 1..N
    BY <1>2, <1>3, <1>5
  <2>2. N \in places
    BY <1>1, <2>1
  <2>3. PICK i \in 1..c : p[i] = N
    BY <1>3, <2>2
  <2>4. i < c => p[i] < p[c]
    BY <1>3, <2>1
  <2>5. i = c \/ i < c
    BY <1>2
  <2>6. QED
    BY <1>1, <2>1, <2>3, <2>4, <2>5
<1>7. ASSUME NEW j \in 0..c - 2, j \in S
      PROVE  j + 1 \in S
  <2> DEFINE m == c - j
  <2>1. /\ m \in 1..c /\ m - 1 \in 1..c /\ m - 1 < m /\ p[m] = N - j
        /\ m \in Int /\ N \in Int /\ j \in Int
    BY <1>1, <1>2, <1>7
  <2>2. c - (j + 1) = m - 1
    BY <1>2
  <2> HIDE DEF m
  <2>3. p[m - 1] < N - j /\ p[m - 1] \in places /\ p[m - 1] \in 1..N
    BY <1>3, <1>5, <2>1
  <2>4. N - j - 1 \in 1..N /\ p[m - 1] <= N - j - 1
    BY <1>1, <2>1, <2>3
  <2>5. N - j - 1 \in places
    BY <1>1, <2>3, <2>4
  <2>6. PICK i \in 1..c : p[i] = N - j - 1
    BY <1>3, <2>5
  <2>7. ~(i > m) /\ i # m
    <3>1. i > m => p[m] < p[i]
      BY <1>3, <2>1
    <3>2. QED
      BY <2>1, <2>6, <3>1
  <2>8. ~(i < m - 1)
    <3>1. i < m - 1 => p[i] < p[m - 1]
      BY <1>3, <2>1
    <3>2. QED
      BY <2>1, <2>4, <2>6, <3>1, <2>3
  <2>9. i = m - 1
    BY <2>1, <2>7, <2>8
  <2>10. p[c - (j + 1)] = N - (j + 1)
    BY <2>1, <2>2, <2>6, <2>9
  <2>11. QED
    BY <1>2, <2>10
<1>8. \A j \in 0..c - 1 : j \in S
  <2> HIDE DEF S
  <2>1. CASE c = 0
    BY <2>1
  <2>2. CASE c # 0
    <3>1. c - 1 \in Nat /\ \A i \in 0..(c - 1) - 1 : i \in 0..c - 2
      BY <1>2, <2>2
    <3>2. QED
      BY <1>6, <1>7, <2>2, <3>1, IntervalInduction
  <2>3. QED
    BY <2>1, <2>2
<1>9. \A i \in 1..c : p[i] = N - c + i /\ N - c + i \in 1..N
  <2>1. SUFFICES ASSUME NEW i \in 1..c
                 PROVE  p[i] = N - c + i /\ N - c + i \in 1..N
    OBVIOUS
  <2>2. c - i \in 0..c - 1
    BY <1>2
  <2>3. p[c - (c - i)] = N - (c - i)
    BY <1>8, <2>2
  <2>4. c - (c - i) = i /\ N - (c - i) = N - c + i
    BY <1>1, <1>2
  <2>5. QED
    BY <1>5, <2>3, <2>4
<1>10. QED
  BY <1>1, <1>4, <1>9 DEF N, c

\* The steps of a sum, added up.
LEMMA RunningSum ==
  ASSUME NEW n \in Nat, NEW d \in [1..n -> Int]
  PROVE  \E f \in [1..n -> Int] : \A i \in 1..n : f[i] = IF i = 1 THEN d[1] ELSE f[i - 1] + d[i]
<1> DEFINE Sums(m, f) == \A i \in 1..m : f[i] = IF i = 1 THEN d[1] ELSE f[i - 1] + d[i]
           S == {m \in 0..n : \E f \in [1..m -> Int] : Sums(m, f)}
<1>1. 0 \in S
  <2>1. [i \in 1..0 |-> 0] \in [1..0 -> Int] /\ Sums(0, [i \in 1..0 |-> 0])
    OBVIOUS
  <2>2. 0 \in 0..n
    OBVIOUS
  <2> HIDE DEF Sums
  <2>3. QED
    BY <2>1, <2>2
<1>2. ASSUME NEW m \in 0..n - 1, m \in S
      PROVE  m + 1 \in S
  <2>1. PICK f \in [1..m -> Int] : Sums(m, f)
    BY <1>2
  <2> DEFINE g == [i \in 1..m + 1 |-> IF i = 1 THEN d[1] ELSE IF i = m + 1 THEN f[m] + d[i] ELSE f[i]]
  <2>2. \A i \in 1..m + 1 : g[i] \in Int
    OBVIOUS
  <2>3. \A i \in 1..m : g[i] = f[i]
    BY <2>1
  <2>4. ASSUME NEW i \in 1..m + 1
        PROVE  g[i] = IF i = 1 THEN d[1] ELSE g[i - 1] + d[i]
    <3>1. CASE i \in 1..m
      <4>1. i # 1 => i - 1 \in 1..m
        BY <3>1
      <4>2. f[i] = IF i = 1 THEN d[1] ELSE f[i - 1] + d[i]
        BY <2>1, <3>1
      <4> HIDE DEF g
      <4>3. QED
        BY <2>3, <3>1, <4>1, <4>2
    <3>2. CASE i = m + 1 /\ i # 1
      <4>1. i - 1 = m /\ m \in 1..m
        BY <3>2
      <4>2. g[i] = f[m] + d[i]
        BY <3>2
      <4> HIDE DEF g
      <4>3. QED
        BY <2>3, <3>2, <4>1, <4>2
    <3>3. CASE i = 1
      BY <3>3
    <3>4. QED
      BY <3>1, <3>2, <3>3
  <2>5. g \in [1..m + 1 -> Int] /\ Sums(m + 1, g)
    BY <2>2, <2>4
  <2> HIDE DEF g, Sums
  <2>6. QED
    BY <2>5
<1>3. \A m \in 0..n : m \in S
  <2> HIDE DEF S
  <2> QED
    BY <1>1, <1>2, IntervalInduction
<1>4. n \in S
  <2> HIDE DEF S
  <2> QED
    BY <1>3
<1>5. QED
  BY <1>4

Samples == Seq([at : Int, lon : Int])

LEMMA StepIsShortest ==
  ASSUME NEW from \in Int, NEW to \in Int
  PROVE  /\ Step(from, to) \in Int
         /\ Step(from, to) \in -(Turn \div 2)..(Turn \div 2)
         /\ \E k \in Int : Step(from, to) = to - from + Turn * k
<1> DEFINE half == Turn \div 2
           x == to - from + half
<1>1. /\ half \in Int /\ Turn \in Nat \ {0} /\ 2 * half <= Turn /\ Turn <= 2 * half + 1
  BY NumbersAssumption
<1>2. x \in Int
  BY <1>1
<1>3. x % Turn \in 0..Turn - 1 /\ x = Turn * (x \div Turn) + (x % Turn) /\ x \div Turn \in Int
  <2> HIDE DEF x, half
  <2> QED
    BY <1>1, <1>2
<1>4. Step(from, to) = (x % Turn) - half
  BY DEF Step
<1>5. Step(from, to) = to - from + Turn * (-(x \div Turn))
  <2>1. \A q \in Int : Turn * (-q) = -(Turn * q)
    BY <1>1
  <2> DEFINE q == x \div Turn
  <2>2. x = Turn * q + (x % Turn) /\ q \in Int /\ Turn * q \in Int /\ Turn * (-q) = -(Turn * q)
    BY <1>1, <1>3, <2>1
  <2> HIDE DEF q, half
  <2>3. QED
    BY <1>1, <1>3, <1>4, <2>2 DEF q
<1>6. -(x \div Turn) \in Int
  BY <1>3
<1> HIDE DEF x
<1>7. Step(from, to) \in -half..half
  <2> HIDE DEF half
  <2> QED
    BY <1>1, <1>3, <1>4
<1>8. \E k \in Int : Step(from, to) = to - from + Turn * k
  BY <1>5, <1>6, Zenon
<1>9. QED
  BY <1>7, <1>8

\* Unwrapping keeps the times, changes longitudes by whole turns only, and makes
\* every step the shortest way round.
LEMMA Unwrapped ==
  ASSUME NEW w \in Samples
  PROVE  /\ Len(Unwrap(w)) = Len(w)
         /\ \A i \in 1..Len(w) :
              /\ Unwrap(w)[i].at = w[i].at
              /\ (Unwrap(w)[i].lon - w[i].lon) % Turn = 0
              /\ i > 1 => Unwrap(w)[i].lon - Unwrap(w)[i - 1].lon
                            \in -(Turn \div 2)..(Turn \div 2)
<1> DEFINE n == Len(w)
           lon == CHOOSE g : g = [i \in 1..n |-> IF i = 1 THEN w[1].lon
                                                ELSE g[i - 1] + Step(w[i - 1].lon, w[i].lon)]
           d == [i \in 1..n |-> IF i = 1 THEN w[1].lon ELSE Step(w[i - 1].lon, w[i].lon)]
<1>1. Unwrap(w) = [i \in 1..n |-> [at |-> w[i].at, lon |-> lon[i]]]
  BY DEF Unwrap
<1>2. n \in Nat /\ \A i \in 1..n : w[i].lon \in Int
  <2>1. \A T : w \in Seq(T) => n \in Nat /\ \A i \in 1..n : w[i] \in T
    OBVIOUS
  <2>2. \A i \in 1..n : w[i] \in [at : Int, lon : Int]
    BY <2>1 DEF Samples
  <2>3. QED
    BY <2>1, <2>2 DEF Samples
<1>3. \A i \in 1..n : i # 1 => i - 1 \in 1..n
  BY <1>2
<1>4. d \in [1..n -> Int]
  <2>1. ASSUME NEW i \in 1..n
        PROVE  d[i] \in Int
    <3>1. CASE i = 1
      BY <1>2, <3>1
    <3>2. CASE i # 1
      BY <1>2, <1>3, <3>2, StepIsShortest
    <3>3. QED
      BY <3>1, <3>2
  <2> HIDE DEF n
  <2>2. QED
    BY <2>1
<1>5. PICK f \in [1..n -> Int] : \A i \in 1..n : f[i] = IF i = 1 THEN d[1] ELSE f[i - 1] + d[i]
  <2> HIDE DEF n, d
  <2> QED
    BY <1>2, <1>4, RunningSum
<1>6. f = [i \in 1..n |-> IF i = 1 THEN w[1].lon ELSE f[i - 1] + Step(w[i - 1].lon, w[i].lon)]
  <2>1. \A i \in 1..n : f[i] = IF i = 1 THEN w[1].lon ELSE f[i - 1] + Step(w[i - 1].lon, w[i].lon)
    BY <1>5
  <2> HIDE DEF n, d
  <2>2. QED
    BY <2>1
<1>7. lon = [i \in 1..n |-> IF i = 1 THEN w[1].lon
                            ELSE lon[i - 1] + Step(w[i - 1].lon, w[i].lon)]
  BY <1>6
<1> HIDE DEF lon, d
<1>8. \A i \in 1..n : lon[i] = IF i = 1 THEN w[1].lon
                               ELSE lon[i - 1] + Step(w[i - 1].lon, w[i].lon)
  BY <1>7
<1> HIDE DEF n
<1> DEFINE S == {i \in 0..n - 1 : \E k \in Int : lon[i + 1] = w[i + 1].lon + Turn * k}
<1>9. n # 0 => 0 \in S
  <2>1. n # 0 => lon[1] = w[1].lon + Turn * 0
    BY <1>2, <1>8, NumbersAssumption
  <2>2. QED
    BY <1>2, <2>1
<1>10. ASSUME NEW i \in 0..n - 2, i \in S
       PROVE  i + 1 \in S
  <2>1. i \in Int /\ i + 1 \in 1..n /\ i + 2 \in 1..n /\ i + 2 # 1 /\ (i + 2) - 1 = i + 1
    BY <1>2
  <2>2. PICK k \in Int : lon[i + 1] = w[i + 1].lon + Turn * k
    BY <1>10
  <2>3. w[i + 1].lon \in Int /\ w[i + 2].lon \in Int
    BY <1>2, <2>1
  <2>4. PICK m \in Int : Step(w[i + 1].lon, w[i + 2].lon)
                           = w[i + 2].lon - w[i + 1].lon + Turn * m
    BY <2>3, StepIsShortest
  <2>5. lon[i + 2] = lon[i + 1] + Step(w[i + 1].lon, w[i + 2].lon)
    BY <1>8, <2>1
  <2>6. Turn * (k + m) = Turn * k + Turn * m /\ Turn * k \in Int /\ Turn * m \in Int
    BY NumbersAssumption
  <2>7. lon[i + 2] = w[i + 2].lon + Turn * (k + m)
    <3>1. \A a, b, tk, tm, t \in Int :
            t = tk + tm => (a + tk) + (b - a + tm) = b + t
      OBVIOUS
    <3>2. Turn * (k + m) \in Int
      BY <2>6
    <3>3. QED
      BY <2>2, <2>3, <2>4, <2>5, <2>6, <3>1, <3>2
  <2>8. (i + 1) + 1 = i + 2 /\ i + 1 \in 0..n - 1 /\ k + m \in Int
    BY <1>2, <2>1
  <2>9. QED
    BY <2>7, <2>8
<1>11. \A i \in 0..n - 1 : i \in S
  <2> HIDE DEF S
  <2>1. CASE n = 0
    BY <2>1
  <2>2. CASE n # 0
    <3>1. n - 1 \in Nat /\ \A i \in 0..(n - 1) - 1 : i \in 0..n - 2
      BY <1>2, <2>2
    <3>2. QED
      BY <1>9, <1>10, <2>2, <3>1, IntervalInduction
  <2>3. QED
    BY <2>1, <2>2
<1>12. ASSUME NEW i \in 1..n
       PROVE  lon[i] \in Int /\ (lon[i] - w[i].lon) % Turn = 0
  <2>1. i - 1 \in 0..n - 1 /\ (i - 1) + 1 = i
    BY <1>2
  <2>2. PICK k \in Int : lon[i] = w[i].lon + Turn * k
    BY <1>11, <2>1
  <2>3. Turn * k \in Int /\ (Turn * k) % Turn = 0 /\ w[i].lon \in Int
    <3>1. \A T \in Nat \ {0} : \A m \in Int : T * m \in Int /\ (T * m) % T = 0
      OBVIOUS
    <3>2. Turn \in Nat \ {0}
      BY NumbersAssumption
    <3>3. QED
      BY <1>2, <3>1, <3>2
  <2>4. lon[i] - w[i].lon = Turn * k /\ lon[i] \in Int
    BY <2>2, <2>3
  <2>5. QED
    BY <2>3, <2>4
<1>13. ASSUME NEW i \in 1..n, i > 1
       PROVE  lon[i] - lon[i - 1] \in -(Turn \div 2)..(Turn \div 2)
  <2>1. i - 1 \in 1..n /\ i # 1
    BY <1>2, <1>13
  <2>2. lon[i] = lon[i - 1] + Step(w[i - 1].lon, w[i].lon)
    BY <1>8, <2>1
  <2> DEFINE st == Step(w[i - 1].lon, w[i].lon)
  <2>3. st \in Int /\ st \in -(Turn \div 2)..(Turn \div 2)
    BY <1>2, <2>1, StepIsShortest
  <2>4. lon[i - 1] \in Int
    BY <1>12, <2>1
  <2> HIDE DEF st
  <2>5. lon[i] - lon[i - 1] = st
    BY <2>2, <2>3, <2>4 DEF st
  <2>6. QED
    BY <2>3, <2>5
<1>14. \A i \in 1..n : Unwrap(w)[i].at = w[i].at /\ Unwrap(w)[i].lon = lon[i]
  BY <1>1
<1>15. Len(Unwrap(w)) = n
  BY <1>1, <1>2
<1>16. ASSUME NEW i \in 1..n
       PROVE  /\ (Unwrap(w)[i].lon - w[i].lon) % Turn = 0
              /\ i > 1 => Unwrap(w)[i].lon - Unwrap(w)[i - 1].lon
                            \in -(Turn \div 2)..(Turn \div 2)
  <2>1. i > 1 => i - 1 \in 1..n
    BY <1>2
  <2>2. Unwrap(w)[i].lon = lon[i] /\ (i > 1 => Unwrap(w)[i - 1].lon = lon[i - 1])
    BY <1>14, <2>1, Zenon
  <2>3. QED
    BY <1>12, <1>13, <2>2
<1>17. QED
  BY <1>14, <1>15, <1>16 DEF n

LEMMA RecentRows ==
  ASSUME NEW s \in Samples, s # <<>>,
         \A i, j \in DOMAIN s : i < j => s[i].at <= s[j].at
  PROVE  /\ Recent(s) \in Samples /\ Len(Recent(s)) <= Len(s)
         /\ \A i \in 1..Len(Recent(s)) :
              /\ Len(s) - Len(Recent(s)) + i \in DOMAIN s
              /\ Recent(s)[i] = s[Len(s) - Len(Recent(s)) + i]
<1> DEFINE N == Len(s)
           I == {i \in DOMAIN s : s[N].at - s[i].at <= FitWindow}
<1>1. DOMAIN s = 1..N /\ N \in Nat
  BY DEF Samples
<1>2. \A i \in DOMAIN s : s[i].at \in Int
  <2>1. \A T : s \in Seq(T) => \A i \in DOMAIN s : s[i] \in T
    OBVIOUS
  <2>2. \A i \in DOMAIN s : s[i] \in [at : Int, lon : Int]
    BY <2>1 DEF Samples
  <2>3. QED
    BY <2>2
<1>3. N \in DOMAIN s
  BY <1>1 DEF Samples
<1>4. Recent(s) = RowsAt(s, I)
  BY DEF Recent
<1>5. I \in SUBSET (DOMAIN s)
  OBVIOUS
<1>6. ASSUME NEW i \in I, NEW j \in DOMAIN s, i <= j
      PROVE  j \in I
  <2>1. s[i].at <= s[j].at
    <3>1. i = j \/ i < j
      BY <1>1, <1>6
    <3>2. QED
      BY <1>2, <3>1
  <2>2. s[N].at \in Int /\ s[i].at \in Int /\ s[j].at \in Int /\ s[N].at - s[i].at <= FitWindow
    BY <1>2, <1>3
  <2>3. s[N].at - s[j].at <= FitWindow
    BY <2>1, <2>2, NumbersAssumption
  <2>4. QED
    BY <2>3
<1> HIDE DEF I
<1>7. /\ RowsAt(s, I) \in Samples /\ Len(RowsAt(s, I)) = Cardinality(I)
      /\ Cardinality(I) <= N
  BY <1>5, RowsAtSeq DEF Samples
<1>8. \A i \in 1..Cardinality(I) :
        /\ N - Cardinality(I) + i \in DOMAIN s
        /\ RowsAt(s, I)[i] = s[N - Cardinality(I) + i]
  BY <1>5, <1>6, TrailingRows DEF Samples
<1>9. QED
  BY <1>4, <1>7, <1>8

\* The drift rate is fitted to the trailing window, or to all there is, and the
\* seam is no jump (astro.py l.145-160, l.246-263).
THEOREM DriftHonestHolds == Spec => []DriftHonest
<1>1. Answered => DriftHonest
  <2> SUFFICES ASSUME Answered, query.kind = "drift"
               PROVE  DriftHonest
    BY DEF DriftHonest
  <2> DEFINE s == query.samples
             w == WindowOf(s)
             n == Len(answer)
             fits(rows) == Len(rows) >= 2 /\ Span(rows) >= MinSpan
  <2>1. query \in Queries /\ answer = Unwrap(w)
    <3>1. query \in Queries /\ answer = AnswerTo(query)
      BY DEF Answered, Nothing
    <3>2. QED
      BY <3>1 DEF AnswerTo
  <2>2. s \in Samples /\ \A i, j \in DOMAIN s : i < j => s[i].at <= s[j].at
    BY <2>1, QueriesAssumption DEF Samples
  <2>3. w = IF s = <<>> THEN <<>>
            ELSE IF fits(Recent(s)) THEN Recent(s)
            ELSE IF fits(s) THEN s
            ELSE <<>>
    BY DEF WindowOf
  <2> HIDE DEF w, s
  <2>4. Len(s) \in Nat /\ <<>> \in Samples /\ Len(<<>>) = 0 /\ DOMAIN s = 1..Len(s)
    BY <2>2 DEF Samples
  <2>5. s # <<>> => /\ Recent(s) \in Samples /\ Len(Recent(s)) <= Len(s)
                    /\ \A i \in 1..Len(Recent(s)) :
                         /\ Len(s) - Len(Recent(s)) + i \in DOMAIN s
                         /\ Recent(s)[i] = s[Len(s) - Len(Recent(s)) + i]
    BY <2>2, RecentRows
  <2>6. /\ w \in Samples /\ Len(w) \in Nat
        /\ \A i \in 1..Len(w) : w[i] = s[Len(s) - Len(w) + i]
        /\ Len(w) = 0 \/ fits(w)
        /\ Len(w) = 0 => Len(s) < 2 \/ ~(Span(s) >= MinSpan)
    <3> DEFINE Goal(r) == /\ r \in Samples /\ Len(r) \in Nat
                          /\ \A i \in 1..Len(r) : r[i] = s[Len(s) - Len(r) + i]
    <3>1. Goal(<<>>)
      BY <2>4
    <3>2. s # <<>> => Goal(Recent(s))
      <4>1. \A r \in Samples : Len(r) \in Nat
        BY DEF Samples
      <4>2. QED
        BY <2>5, <4>1
    <3>3. Goal(s)
      <4>1. \A i \in 1..Len(s) : Len(s) - Len(s) + i = i
        BY <2>4
      <4>2. QED
        BY <2>2, <2>4, <4>1
    <3> HIDE DEF Goal
    <3>4. Goal(w)
      BY <2>3, <3>1, <3>2, <3>3
    <3>5. Len(w) = 0 \/ fits(w)
      BY <2>3, <2>4
    <3>6. Len(w) = 0 => Len(s) < 2 \/ ~(Span(s) >= MinSpan)
      <4>1. fits(Recent(s)) => Len(Recent(s)) # 0
        BY SMT
      <4>2. fits(s) => Len(s) # 0
        BY <2>4
      <4>3. Len(w) = 0 => s = <<>> \/ ~fits(s)
        BY <2>3, <4>1, <4>2, Zenon
      <4>4. ~(Len(s) >= 2) => Len(s) < 2
        BY <2>4
      <4>5. QED
        BY <2>4, <4>3, <4>4
    <3>7. QED
      BY <3>4, <3>5, <3>6 DEF Goal
  <2>7. /\ n = Len(w)
        /\ \A i \in 1..n : /\ answer[i].at = w[i].at
                           /\ (answer[i].lon - w[i].lon) % Turn = 0
                           /\ i > 1 => answer[i].lon - answer[i - 1].lon
                                         \in -(Turn \div 2)..(Turn \div 2)
    BY <2>1, <2>6, Unwrapped
  <2>8. n # 0 => Span(answer) = Span(w)
    <3>1. n # 0 => 1 \in 1..n /\ n \in 1..n
      BY <2>6, <2>7
    <3>2. QED
      BY <2>7, <3>1 DEF Span
  <2>9. \A r \in Samples : r # <<>> => Span(r) \in Int
    <3>1. SUFFICES ASSUME NEW r \in Samples, r # <<>>
                   PROVE  Span(r) \in Int
      OBVIOUS
    <3>2. \A T : r \in Seq(T) => r[1] \in T /\ r[Len(r)] \in T
      BY <3>1
    <3>3. r[1] \in [at : Int, lon : Int] /\ r[Len(r)] \in [at : Int, lon : Int]
      BY <3>2 DEF Samples
    <3>4. QED
      BY <3>3 DEF Span
  <2>10. n = 0 \/ (n >= 2 /\ Span(answer) >= MinSpan)
    BY <2>6, <2>7, <2>8
  <2>11. n = 0 => Len(s) < 2 \/ Span(s) < MinSpan
    <3>1. Len(s) < 2 \/ Span(s) \in Int
      BY <2>2, <2>4, <2>9
    <3>2. QED
      BY <2>6, <2>7, <3>1, NumbersAssumption
  <2>12. \A i \in 1..n :
           /\ answer[i].at = s[Len(s) - n + i].at
           /\ (answer[i].lon - s[Len(s) - n + i].lon) % Turn = 0
           /\ i > 1 => answer[i].lon - answer[i - 1].lon \in -(Turn \div 2)..(Turn \div 2)
    BY <2>6, <2>7
  <2> HIDE DEF n
  <2>13. QED
    BY <2>10, <2>11, <2>12 DEF DriftHonest, n, s
<1>2. QED
  BY <1>1, Invariance, PTL

-----------------------------------------------------------------------------
(* Screening: longitudes around the seam *)

\* Of the three ways round, the one that is measured is the shortest.
LEMMA ApartIsSep ==
  ASSUME NEW a \in -(Turn \div 2)..Turn \div 2, NEW b \in -(Turn \div 2)..Turn \div 2,
         NEW w \in Int
  PROVE  (SepDeg(a, b) <= w <=> Apart(a, b, w)) /\ SepDeg(a, b) \in 0..Turn
<1> DEFINE half == Turn \div 2
           d == Step(b, a)
           x == a - b
<1>1. /\ half \in Int /\ Turn \in Nat \ {0} /\ 2 * half <= Turn /\ Turn <= 2 * half + 1
      /\ a \in Int /\ b \in Int /\ x \in Int /\ x <= 2 * half /\ -x <= 2 * half
  BY NumbersAssumption
<1>2. d \in Int /\ d \in -half..half /\ \E k \in Int : d = a - b + Turn * k
  BY <1>1, StepIsShortest
<1>3. SepDeg(a, b) = IF d < 0 THEN -d ELSE d
  BY DEF SepDeg, Magnitude
<1>4. Apart(a, b, w) <=> \E k \in {-1, 0, 1} : x + k * Turn \in -w..w
  BY DEF Apart
<1> HIDE DEF half, d, x
<1>5. PICK k \in Int : d = x + Turn * k
  BY <1>2 DEF x
<1>6. k \in {-1, 0, 1}
  <2>1. k >= 2 => Turn * k >= 2 * Turn
    <3>1. \A T \in Nat \ {0} : \A m \in Int : m >= 2 => T * m >= 2 * T
      OBVIOUS
    <3>2. QED
      BY <1>1, <3>1
  <2>2. k <= -2 => Turn * k <= -(2 * Turn)
    <3>1. \A T \in Nat \ {0} : \A m \in Int : m <= -2 => T * m <= -(2 * T)
      OBVIOUS
    <3>2. QED
      BY <1>1, <3>1
  <2>3. Turn * k \in Int /\ Turn * k = d - x
    BY <1>1, <1>2, <1>5
  <2>4. QED
    BY <1>1, <1>2, <2>1, <2>2, <2>3
<1>7. d = x - Turn \/ d = x \/ d = x + Turn
  BY <1>1, <1>2, <1>5, <1>6
<1>8. Apart(a, b, w) <=> (x - Turn \in -w..w \/ x \in -w..w \/ x + Turn \in -w..w)
  BY <1>1, <1>4
<1>9. QED
  BY <1>1, <1>2, <1>3, <1>7, <1>8

-----------------------------------------------------------------------------
(* Screening: the first of a sorted list *)

\* Rows that name the first of a sequence of all the members of S.
NameFirst(S, seq, cap, shown) ==
  LET ids == {shown[i].id : i \in DOMAIN shown}
  IN /\ ids \subseteq S
     /\ Len(shown) = Min({cap, Cardinality(S)}) /\ Cardinality(ids) = Len(shown)
     /\ \A o \in ids : \A x \in S \ ids :
          \E i, j \in DOMAIN seq : i < j /\ seq[i] = o /\ seq[j] = x
     /\ \A i \in DOMAIN shown : i \in DOMAIN seq /\ shown[i].id = seq[i]

LEMMA FirstShown ==
  ASSUME NEW S, IsFiniteSet(S), NEW seq \in SetToSeqs(S), NEW cap \in Nat, NEW q
  PROVE  NameFirst(S, seq, cap, Named(q, FirstOf(seq, cap)))
<1> DEFINE n == Cardinality(S)
           m == Min({cap, n})
           shown == Named(q, FirstOf(seq, cap))
           ids == {shown[i].id : i \in DOMAIN shown}
<1>1. /\ n \in Nat /\ seq \in [1..n -> S] /\ seq \in Seq(S) /\ Len(seq) = n
      /\ \A i, j \in 1..n : i # j => seq[i] # seq[j]
      /\ \A x \in S : \E i \in 1..n : seq[i] = x
  BY AllInSequence
<1>2. m \in Nat /\ m <= n
  BY <1>1, SmallerOfTwo
<1>3. FirstOf(seq, cap) = SubSeq(seq, 1, m)
  BY <1>1 DEF FirstOf
<1> HIDE DEF m, n
<1>4. FirstOf(seq, cap) = [i \in 1..m |-> seq[i]]
  <2>1. \A i \in 1..m : i \in 1..n /\ (1 + i) - 1 = i
    BY <1>1, <1>2
  <2>2. SubSeq(seq, 1, m) = [i \in 1..m |-> seq[i]]
    BY <1>1, <1>2, <2>1
  <2>3. QED
    BY <1>3, <2>2
<1>5. /\ DOMAIN shown = 1..m /\ Len(shown) = m
      /\ \A i \in 1..m : shown[i].id = seq[i]
  <2>1. shown = [i \in 1..m |-> [id |-> seq[i],
                   name |-> DisplayName(seq[i], q.objects[seq[i]].name, Names(q.list))]]
    <3> DEFINE f == [i \in 1..m |-> seq[i]]
    <3>1. DOMAIN f = 1..m /\ \A i \in 1..m : f[i] = seq[i]
      OBVIOUS
    <3>2. shown = Named(q, f)
      BY <1>4
    <3> HIDE DEF f
    <3>3. QED
      BY <3>1, <3>2 DEF Named
  <2>2. QED
    BY <1>2, <2>1
<1> HIDE DEF shown
<1>6. \A i \in 1..m : i \in 1..n
  BY <1>1, <1>2
<1>7. ids = {seq[i] : i \in 1..m}
  BY <1>5
<1> HIDE DEF ids
<1>8. ids \subseteq S
  <2>1. \A i \in 1..m : seq[i] \in S
    BY <1>1, <1>6
  <2>2. QED
    BY <1>7, <2>1
<1>9. Cardinality(ids) = m
  <2> DEFINE f == [i \in 1..m |-> seq[i]]
  <2>1. f \in Bijection(1..m, ids)
    <3>1. f \in [1..m -> ids] /\ \A i \in 1..m : f[i] = seq[i]
      BY <1>7
    <3>2. \A i, j \in 1..m : f[i] = f[j] => i = j
      BY <1>1, <1>6
    <3>3. \A x \in ids : \E i \in 1..m : f[i] = x
      BY <1>7
    <3> HIDE DEF f
    <3>4. QED
      BY <3>1, <3>2, <3>3 DEF Bijection, Injection, Surjection, IsInjective
  <2>2. \A k \in Nat : IsFiniteSet(1..k) /\ Cardinality(1..k) = k
    BY FS_Interval
  <2> HIDE DEF f
  <2>3. QED
    BY <1>2, <2>1, <2>2, FS_CountingElements DEF ExistsBijection
<1>10. ASSUME NEW o \in ids, NEW x \in S \ ids
       PROVE  \E i, j \in DOMAIN seq : i < j /\ seq[i] = o /\ seq[j] = x
  <2>1. PICK i \in 1..m : o = seq[i]
    BY <1>7
  <2>2. PICK j \in 1..n : x = seq[j]
    BY <1>1
  <2>3. ~(j \in 1..m)
    BY <1>7, <2>2
  <2>4. i < j /\ i \in DOMAIN seq /\ j \in DOMAIN seq
    BY <1>1, <1>2, <1>6, <2>3
  <2>5. QED
    BY <2>1, <2>2, <2>4
<1>11. \A i \in DOMAIN shown : i \in DOMAIN seq /\ shown[i].id = seq[i]
  BY <1>1, <1>5, <1>6
<1>12. QED
  BY <1>5, <1>8, <1>9, <1>10, <1>11 DEF NameFirst, shown, ids, m, n

LEMMA NoneShown ==
  ASSUME NEW q, NEW cap \in Nat
  PROVE  /\ DOMAIN Named(q, <<>>) = {} /\ Len(Named(q, <<>>)) = 0
         /\ Min({cap, Cardinality({})}) = 0 /\ Cardinality({}) = 0
<1>1. Named(q, <<>>) = <<>>
  BY DEF Named
<1>2. Cardinality({}) = 0
  BY FS_EmptySet
<1>3. Min({cap, 0}) = 0
  BY SmallerOfTwo
<1>4. QED
  BY <1>1, <1>2, <1>3

\* Who may be shown, in the model's terms and in the property's.
LEMMA BeltIsNear ==
  ASSUME NEW q \in Queries, q.kind \in {"conjunctions", "coplanar"},
         q.target \in DOMAIN q.objects
  PROVE  /\ InBelt(q.objects, q.target, q.halfWidth) =
              {o \in DOMAIN q.objects \ {q.target} :
                 /\ q.objects[o].lon # NoLon /\ q.objects[q.target].lon # NoLon
                 /\ Apart(q.objects[o].lon, q.objects[q.target].lon, q.halfWidth)}
         /\ IsFiniteSet(InBelt(q.objects, q.target, q.halfWidth))
<1>1. /\ IsFiniteSet(DOMAIN q.objects) /\ q.halfWidth \in Int
      /\ \A o \in DOMAIN q.objects : q.objects[o].lon \in {NoLon} \cup -(Turn \div 2)..Turn \div 2
  BY QueriesAssumption
<1> DEFINE lon(o) == q.objects[o].lon
<1>2. \A o \in DOMAIN q.objects :
        lon(o) # NoLon /\ lon(q.target) # NoLon =>
          (SepDeg(lon(o), lon(q.target)) <= q.halfWidth <=> Apart(lon(o), lon(q.target), q.halfWidth))
  <2>1. SUFFICES ASSUME NEW o \in DOMAIN q.objects, lon(o) # NoLon, lon(q.target) # NoLon
                 PROVE  SepDeg(lon(o), lon(q.target)) <= q.halfWidth
                          <=> Apart(lon(o), lon(q.target), q.halfWidth)
    OBVIOUS
  <2>2. /\ lon(o) \in -(Turn \div 2)..Turn \div 2
        /\ lon(q.target) \in -(Turn \div 2)..Turn \div 2
    BY <1>1, <2>1
  <2> HIDE DEF lon
  <2>3. QED
    BY <1>1, <2>2, ApartIsSep
<1>3. InBelt(q.objects, q.target, q.halfWidth) =
        {o \in DOMAIN q.objects \ {q.target} :
           lon(o) # NoLon /\ lon(q.target) # NoLon /\ Apart(lon(o), lon(q.target), q.halfWidth)}
  BY <1>2 DEF InBelt
<1>4. InBelt(q.objects, q.target, q.halfWidth) \subseteq DOMAIN q.objects
  BY DEF InBelt
<1>5. QED
  BY <1>1, <1>3, <1>4, FS_Subset

LEMMA ConjunctionsShown ==
  ASSUME NEW q \in Queries, q.kind = "conjunctions"
  PROVE  LET shown == Named(q, ConjunctionsFor(q.objects, q.target, q.range, q.halfWidth, q.cap))
             near == {o \in DOMAIN q.objects \ {q.target} :
                        /\ q.target \in DOMAIN q.objects
                        /\ q.objects[o].elset /\ q.objects[q.target].elset
                        /\ q.objects[o].lon # NoLon /\ q.objects[q.target].lon # NoLon
                        /\ Apart(q.objects[o].lon, q.objects[q.target].lon, q.halfWidth)}
             ids == {shown[i].id : i \in DOMAIN shown}
         IN /\ ids \subseteq near
            /\ Len(shown) = Min({q.cap, Cardinality(near)}) /\ Cardinality(ids) = Len(shown)
            /\ \A o \in ids, x \in near \ ids : ~NearerNow(q.range[x], q.range[o])
            /\ \A i, j \in DOMAIN shown :
                 i < j => ~NearerNow(q.range[shown[j].id], q.range[shown[i].id])
<1> DEFINE shown == Named(q, ConjunctionsFor(q.objects, q.target, q.range, q.halfWidth, q.cap))
           near == {o \in DOMAIN q.objects \ {q.target} :
                      /\ q.target \in DOMAIN q.objects
                      /\ q.objects[o].elset /\ q.objects[q.target].elset
                      /\ q.objects[o].lon # NoLon /\ q.objects[q.target].lon # NoLon
                      /\ Apart(q.objects[o].lon, q.objects[q.target].lon, q.halfWidth)}
           ids == {shown[i].id : i \in DOMAIN shown}
           S == {o \in InBelt(q.objects, q.target, q.halfWidth) : q.objects[o].elset}
           B == {p \in near \X near : NearerNow(q.range[p[1]], q.range[p[2]])}
           there == q.target \in DOMAIN q.objects /\ q.objects[q.target].elset
<1>1. q.cap \in Nat /\ \A o \in DOMAIN q.objects : q.range[o] \in Int
  BY QueriesAssumption
<1>2. CASE ~there
  <2>1. near = {}
    BY <1>2
  <2>2. shown = Named(q, <<>>)
    BY <1>2 DEF ConjunctionsFor
  <2> HIDE DEF shown, near, there
  <2>3. DOMAIN shown = {} /\ Len(shown) = 0 /\ Min({q.cap, Cardinality(near)}) = 0 /\ Cardinality({}) = 0
    BY <1>1, <2>1, <2>2, NoneShown
  <2>4. ids = {}
    BY <2>3
  <2> HIDE DEF ids
  <2>5. QED
    BY <2>1, <2>3, <2>4 DEF ids, shown, near
<1>3. CASE there
  <2>1. S = near /\ IsFiniteSet(near)
    <3>1. S = near
      BY <1>3, BeltIsNear
    <3>2. S \subseteq InBelt(q.objects, q.target, q.halfWidth)
      OBVIOUS
    <3> HIDE DEF S, near
    <3>3. IsFiniteSet(S)
      BY <1>3, <3>2, BeltIsNear, FS_Subset
    <3>4. QED
      BY <3>1, <3>3
  <2>2. ConjunctionsFor(q.objects, q.target, q.range, q.halfWidth, q.cap) =
          FirstOf(CHOOSE seq \in SetToSeqs(S) :
                    \A i, j \in DOMAIN seq :
                      i < j => ~NearerNow(q.range[seq[j]], q.range[seq[i]]), q.cap)
    BY <1>3 DEF ConjunctionsFor, InOrder
  <2>3. near \subseteq DOMAIN q.objects
    OBVIOUS
  <2>4. \A x, y \in near : <<x, y>> \in B <=> NearerNow(q.range[x], q.range[y])
    OBVIOUS
  <2>5. B \in SUBSET (near \X near)
    OBVIOUS
  <2> HIDE DEF S, near, B, there
  <2>6. \A x \in near : q.range[x] \in Int
    BY <1>1, <2>3
  <2>7. \E seq \in SetToSeqs(near) : \A i, j \in DOMAIN seq : i < j => <<seq[j], seq[i]>> \notin B
    <3> DEFINE r(x) == q.range[x]
    <3>1. \A x \in near : ~NearerNow(r(x), r(x))
      BY <2>6 DEF NearerNow, NoRange
    <3>2. \A x, y, z \in near : NearerNow(r(x), r(y)) /\ NearerNow(r(y), r(z)) => NearerNow(r(x), r(z))
      BY <2>6 DEF NearerNow, NoRange
    <3>3. \A x, y, z \in near : NearerNow(r(x), r(z)) => NearerNow(r(x), r(y)) \/ NearerNow(r(y), r(z))
      BY <2>6 DEF NearerNow, NoRange
    <3>4. \A x \in near : <<x, x>> \notin B
      BY <2>4, <3>1
    <3>5. \A x, y, z \in near : <<x, y>> \in B /\ <<y, z>> \in B => <<x, z>> \in B
      BY <2>4, <3>2, Zenon
    <3>6. \A x, y, z \in near : <<x, z>> \in B => <<x, y>> \in B \/ <<y, z>> \in B
      BY <2>4, <3>3, Zenon
    <3>7. QED
      BY <2>1, <2>5, <3>4, <3>5, <3>6, InWeakOrder
  <2> DEFINE seq == CHOOSE s \in SetToSeqs(S) :
                      \A i, j \in DOMAIN s : i < j => ~NearerNow(q.range[s[j]], q.range[s[i]])
  <2>8. \A s \in SetToSeqs(near) : \A i \in DOMAIN s : s[i] \in near
    BY DEF SetToSeqs
  <2>9. seq \in SetToSeqs(near) /\ \A i, j \in DOMAIN seq : i < j => <<seq[j], seq[i]>> \notin B
    <3>1. \E s \in SetToSeqs(S) :
            \A i, j \in DOMAIN s : i < j => ~NearerNow(q.range[s[j]], q.range[s[i]])
      BY <2>1, <2>4, <2>7, <2>8
    <3>2. /\ seq \in SetToSeqs(S)
          /\ \A i, j \in DOMAIN seq : i < j => ~NearerNow(q.range[seq[j]], q.range[seq[i]])
      BY <3>1, Zenon
    <3> HIDE DEF seq
    <3>3. QED
      BY <2>1, <2>4, <2>8, <3>2
  <2>10. shown = Named(q, FirstOf(seq, q.cap))
    BY <2>2
  <2> HIDE DEF seq, shown
  <2>11. /\ ids \subseteq near
         /\ Len(shown) = Min({q.cap, Cardinality(near)}) /\ Cardinality(ids) = Len(shown)
         /\ \A o \in ids : \A x \in near \ ids :
              \E i, j \in DOMAIN seq : i < j /\ seq[i] = o /\ seq[j] = x
         /\ \A i \in DOMAIN shown : i \in DOMAIN seq /\ shown[i].id = seq[i]
    <3>1. q.cap \in Nat /\ IsFiniteSet(near) /\ seq \in SetToSeqs(near)
      BY <1>1, <2>1, <2>9
    <3>2. NameFirst(near, seq, q.cap, shown)
      BY <2>10, <3>1, FirstShown
    <3>3. QED
      BY <3>2 DEF NameFirst
  <2> HIDE DEF ids
  <2>12. \A i, j \in DOMAIN seq : i < j => ~NearerNow(q.range[seq[j]], q.range[seq[i]])
    BY <2>4, <2>8, <2>9
  <2>13. /\ \A o \in ids : \A x \in near \ ids : ~NearerNow(q.range[x], q.range[o])
         /\ \A i, j \in DOMAIN shown :
              i < j => ~NearerNow(q.range[shown[j].id], q.range[shown[i].id])
    <3>1. ASSUME NEW o \in ids, NEW x \in near \ ids
          PROVE  ~NearerNow(q.range[x], q.range[o])
      BY <2>11, <2>12
    <3>2. \A i, j \in DOMAIN shown :
            i < j => ~NearerNow(q.range[shown[j].id], q.range[shown[i].id])
      BY <2>11, <2>12
    <3>3. QED
      BY <3>1, <3>2
  <2>14. QED
    BY <2>11, <2>13 DEF ids, shown, near
<1>4. QED
  BY <1>2, <1>3

LEMMA CoplanarShown ==
  ASSUME NEW q \in Queries, q.kind = "coplanar"
  PROVE  LET shown == Named(q, CoplanarFor(q.objects, q.target, q.range, q.halfWidth, q.cap))
             near == {o \in DOMAIN q.objects \ {q.target} :
                        /\ q.target \in DOMAIN q.objects
                        /\ q.objects[o].plane /\ q.objects[q.target].plane
                        /\ q.objects[o].lon # NoLon /\ q.objects[q.target].lon # NoLon
                        /\ Apart(q.objects[o].lon, q.objects[q.target].lon, q.halfWidth)}
             ids == {shown[i].id : i \in DOMAIN shown}
             diff(o) == SepDeg(q.objects[o].lon, q.objects[q.target].lon)
             before(x, o) == \/ q.range[x] < q.range[o]
                             \/ q.range[x] = q.range[o] /\ diff(x) < diff(o)
         IN /\ ids \subseteq near
            /\ Len(shown) = Min({q.cap, Cardinality(near)}) /\ Cardinality(ids) = Len(shown)
            /\ \A o \in ids, x \in near \ ids : ~before(x, o)
            /\ \A i, j \in DOMAIN shown : i < j => ~before(shown[j].id, shown[i].id)
<1> DEFINE shown == Named(q, CoplanarFor(q.objects, q.target, q.range, q.halfWidth, q.cap))
           near == {o \in DOMAIN q.objects \ {q.target} :
                      /\ q.target \in DOMAIN q.objects
                      /\ q.objects[o].plane /\ q.objects[q.target].plane
                      /\ q.objects[o].lon # NoLon /\ q.objects[q.target].lon # NoLon
                      /\ Apart(q.objects[o].lon, q.objects[q.target].lon, q.halfWidth)}
           ids == {shown[i].id : i \in DOMAIN shown}
           diff(o) == SepDeg(q.objects[o].lon, q.objects[q.target].lon)
           before(x, o) == \/ q.range[x] < q.range[o]
                           \/ q.range[x] = q.range[o] /\ diff(x) < diff(o)
           S == {o \in InBelt(q.objects, q.target, q.halfWidth) : q.objects[o].plane}
           B == {p \in near \X near : before(p[1], p[2])}
           there == /\ q.target \in DOMAIN q.objects /\ q.objects[q.target].plane
                    /\ q.objects[q.target].lon # NoLon
<1>1. /\ q.cap \in Nat
      /\ \A o \in DOMAIN q.objects :
           /\ q.range[o] \in Int
           /\ q.objects[o].lon \in {NoLon} \cup -(Turn \div 2)..Turn \div 2
  BY QueriesAssumption
<1>2. CASE ~there
  <2>1. near = {}
    BY <1>2
  <2>2. shown = Named(q, <<>>)
    BY <1>2 DEF CoplanarFor
  <2> HIDE DEF shown, near, there, before
  <2>3. DOMAIN shown = {} /\ Len(shown) = 0 /\ Min({q.cap, Cardinality(near)}) = 0 /\ Cardinality({}) = 0
    BY <1>1, <2>1, <2>2, NoneShown
  <2>4. ids = {}
    BY <2>3
  <2> HIDE DEF ids
  <2>5. /\ ids \subseteq near
        /\ Len(shown) = Min({q.cap, Cardinality(near)}) /\ Cardinality(ids) = Len(shown)
        /\ \A o \in ids, x \in near \ ids : ~before(x, o)
        /\ \A i, j \in DOMAIN shown : i < j => ~before(shown[j].id, shown[i].id)
    BY <2>1, <2>3, <2>4
  <2>6. QED
    BY <2>5 DEF ids, shown, near, before
<1>3. CASE there
  <2>1. S = near /\ IsFiniteSet(near)
    <3>1. S = near
      BY <1>3, BeltIsNear
    <3>2. S \subseteq InBelt(q.objects, q.target, q.halfWidth)
      OBVIOUS
    <3> HIDE DEF S, near
    <3>3. IsFiniteSet(S)
      BY <1>3, <3>2, BeltIsNear, FS_Subset
    <3>4. QED
      BY <3>1, <3>3
  <2>2. CoplanarFor(q.objects, q.target, q.range, q.halfWidth, q.cap) =
          FirstOf(CHOOSE seq \in SetToSeqs(S) :
                    \A i, j \in DOMAIN seq : i < j => ~before(seq[j], seq[i]), q.cap)
    BY <1>3 DEF CoplanarFor, InOrder
  <2>3. near \subseteq DOMAIN q.objects
    OBVIOUS
  <2>4. \A x, y \in near : <<x, y>> \in B <=> before(x, y)
    OBVIOUS
  <2>5. B \in SUBSET (near \X near)
    OBVIOUS
  <2>6. \A x \in near : q.range[x] \in Int /\ diff(x) \in Int
    <3>1. SUFFICES ASSUME NEW x \in near
                   PROVE  q.range[x] \in Int /\ diff(x) \in Int
      OBVIOUS
    <3>2. /\ q.range[x] \in Int
          /\ q.objects[x].lon \in -(Turn \div 2)..Turn \div 2
          /\ q.objects[q.target].lon \in -(Turn \div 2)..Turn \div 2
      BY <1>1, <3>1
    <3>3. diff(x) \in 0..Turn /\ 0..Turn \subseteq Int
      BY <3>2, ApartIsSep, NumbersAssumption
    <3>4. QED
      BY <3>2, <3>3
  <2> HIDE DEF S, near, B, there, diff
  <2>7. \E seq \in SetToSeqs(near) : \A i, j \in DOMAIN seq : i < j => <<seq[j], seq[i]>> \notin B
    <3>1. \A x \in near : ~before(x, x)
      BY <2>6
    <3>2. \A x, y, z \in near : before(x, y) /\ before(y, z) => before(x, z)
      BY <2>6
    <3>3. \A x, y, z \in near : before(x, z) => before(x, y) \/ before(y, z)
      BY <2>6
    <3> HIDE DEF before
    <3>4. \A x \in near : <<x, x>> \notin B
      BY <2>4, <3>1
    <3>5. \A x, y, z \in near : <<x, y>> \in B /\ <<y, z>> \in B => <<x, z>> \in B
      BY <2>4, <3>2, Zenon
    <3>6. \A x, y, z \in near : <<x, z>> \in B => <<x, y>> \in B \/ <<y, z>> \in B
      BY <2>4, <3>3, Zenon
    <3>7. QED
      BY <2>1, <2>5, <3>4, <3>5, <3>6, InWeakOrder
  <2> DEFINE seq == CHOOSE s \in SetToSeqs(S) :
                      \A i, j \in DOMAIN s : i < j => ~before(s[j], s[i])
  <2>8. \A s \in SetToSeqs(near) : \A i \in DOMAIN s : s[i] \in near
    BY DEF SetToSeqs
  <2> HIDE DEF before
  <2>9. seq \in SetToSeqs(near) /\ \A i, j \in DOMAIN seq : i < j => ~before(seq[j], seq[i])
    <3>1. \E s \in SetToSeqs(S) :
            \A i, j \in DOMAIN s : i < j => ~before(s[j], s[i])
      BY <2>1, <2>4, <2>7, <2>8
    <3>2. /\ seq \in SetToSeqs(S)
          /\ \A i, j \in DOMAIN seq : i < j => ~before(seq[j], seq[i])
      BY <3>1, Zenon
    <3> HIDE DEF seq
    <3>3. QED
      BY <2>1, <3>2
  <2>10. shown = Named(q, FirstOf(seq, q.cap))
    BY <2>2
  <2> HIDE DEF seq, shown
  <2>11. /\ ids \subseteq near
         /\ Len(shown) = Min({q.cap, Cardinality(near)}) /\ Cardinality(ids) = Len(shown)
         /\ \A o \in ids : \A x \in near \ ids :
              \E i, j \in DOMAIN seq : i < j /\ seq[i] = o /\ seq[j] = x
         /\ \A i \in DOMAIN shown : i \in DOMAIN seq /\ shown[i].id = seq[i]
    <3>1. q.cap \in Nat /\ IsFiniteSet(near) /\ seq \in SetToSeqs(near)
      BY <1>1, <2>1, <2>9
    <3>2. NameFirst(near, seq, q.cap, shown)
      BY <2>10, <3>1, FirstShown
    <3>3. QED
      BY <3>2 DEF NameFirst
  <2> HIDE DEF ids
  <2>12. /\ \A o \in ids, x \in near \ ids : ~before(x, o)
         /\ \A i, j \in DOMAIN shown : i < j => ~before(shown[j].id, shown[i].id)
    <3>1. ASSUME NEW o \in ids, NEW x \in near \ ids
          PROVE  ~before(x, o)
      BY <2>9, <2>11
    <3>2. \A i, j \in DOMAIN shown : i < j => ~before(shown[j].id, shown[i].id)
      BY <2>9, <2>11
    <3>3. QED
      BY <3>1, <3>2
  <2>13. QED
    BY <2>11, <2>12 DEF ids, shown, near, before, diff
<1>4. QED
  BY <1>2, <1>3

-----------------------------------------------------------------------------
(* The search for the closest approach *)

LEMMA LeastOver ==
  ASSUME NEW w \in Nat, NEW r \in [0..w -> Int], NEW T \in SUBSET (0..w), T # {}
  PROVE  /\ Min({r[t] : t \in T}) \in {r[t] : t \in T}
         /\ \A u \in T : Min({r[t] : t \in T}) <= r[u]
<1> DEFINE V == {r[t] : t \in T}
           f == [t \in T |-> r[t]]
<1>1. IsFiniteSet(T)
  <2>1. IsFiniteSet(0..w)
    BY FS_Interval
  <2>2. QED
    BY <2>1, FS_Subset
<1>2. f \in Surjection(T, V)
  BY DEF Surjection
<1>3. IsFiniteSet(V)
  BY <1>1, <1>2, FS_Surjection
<1>4. V \in SUBSET Int /\ V # {}
  OBVIOUS
<1> HIDE DEF V
<1>5. Min(V) \in V /\ \A k \in V : Min(V) <= k
  BY <1>3, <1>4, MinIsMinimum
<1>6. QED
  BY <1>5 DEF V

LEMMA MinOverIsLeast ==
  ASSUME NEW w \in Nat, NEW r \in [0..w -> Int], NEW T \in SUBSET (0..w), T # {},
         \A t \in T : r[t] # NoRange
  PROVE  /\ MinOver(r, T).tca \in T /\ MinOver(r, T).km = r[MinOver(r, T).tca]
         /\ \A t \in T : MinOver(r, T).km <= r[t]
<1> DEFINE least == Min({r[t] : t \in T})
           at == {t \in T : r[t] = least}
<1>1. {t \in T : r[t] # NoRange} = T
  OBVIOUS
<1>2. MinOver(r, T) = [km |-> least, tca |-> Min(at)]
  BY <1>1 DEF MinOver
<1>3. least \in {r[t] : t \in T} /\ \A t \in T : least <= r[t]
  BY LeastOver
<1> HIDE DEF least
<1>4. at # {} /\ at \in SUBSET Int
  <2>1. \E t \in T : r[t] = least
    BY <1>3
  <2>2. 0..w \subseteq Int
    OBVIOUS
  <2>3. QED
    BY <2>1, <2>2
<1>5. IsFiniteSet(at)
  <2>1. IsFiniteSet(0..w)
    BY FS_Interval
  <2>2. at \subseteq 0..w
    OBVIOUS
  <2>3. QED
    BY <2>1, <2>2, FS_Subset
<1>6. Min(at) \in at
  <2> HIDE DEF at
  <2> QED
    BY <1>4, <1>5, MinIsMinimum
<1>7. QED
  BY <1>2, <1>3, <1>6

\* The multiples of the coarse step, of which the window is one.
LEMMA CoarseTimes ==
  ASSUME NEW K \in Nat, NEW w \in Nat, w = K * Coarse
  PROVE  /\ w \div Coarse = K
         /\ \A i \in 0..K : i * Coarse \in 0..w
         /\ \A i \in 0..K : (i + 1) * Coarse = i * Coarse + Coarse
                            /\ (i - 1) * Coarse = i * Coarse - Coarse
         /\ \A i \in 0..K : i * Coarse + Coarse <= w => i + 1 \in 0..K
         /\ \A i \in 0..K : i * Coarse - Coarse >= 0 => i - 1 \in 0..K
<1>1. Coarse \in Nat \ {0}
  BY NumbersAssumption
<1>2. \A C \in Nat \ {0} : \A n \in Nat : (n * C) \div C = n
  OBVIOUS
<1>3. \A C \in Nat \ {0} : \A i, n \in Nat : (i <= n => i * C <= n * C) /\ i * C \in Nat
  OBVIOUS
<1>4. \A C \in Nat \ {0} : \A i, n \in Nat : i * C + C <= n * C => i + 1 <= n
  OBVIOUS
<1>5. \A C \in Nat \ {0} : \A i \in Nat : i * C - C >= 0 => i >= 1
  OBVIOUS
<1>6. \A C \in Nat \ {0} : \A i \in Nat : (i + 1) * C = i * C + C /\ (i - 1) * C = i * C - C
  OBVIOUS
<1>7. w \div Coarse = K
  BY <1>1, <1>2
<1>8. \A i \in 0..K : i * Coarse \in 0..w
  BY <1>1, <1>3
<1>9. \A i \in 0..K : i * Coarse + Coarse <= w => i + 1 \in 0..K
  BY <1>1, <1>4
<1>10. \A i \in 0..K : i * Coarse - Coarse >= 0 => i - 1 \in 0..K
  BY <1>1, <1>5
<1>11. \A i \in 0..K : (i + 1) * Coarse = i * Coarse + Coarse
                       /\ (i - 1) * Coarse = i * Coarse - Coarse
  BY <1>1, <1>6
<1>12. QED
  BY <1>7, <1>8, <1>9, <1>10, <1>11

\* What the search finds is no more than the range at the coarse times, and at
\* all times within a coarse step of the best of them.
LEMMA ApproachFound ==
  ASSUME NEW K \in Nat, NEW w \in Nat, w = K * Coarse, NEW r \in [0..w -> Int],
         \A t \in 0..w : r[t] # NoRange
  PROVE  \E c \in 0..K :
           /\ ClosestApproach(r, w).tca \in 0..w
           /\ r[ClosestApproach(r, w).tca] = ClosestApproach(r, w).min
           /\ \A i \in 0..K : r[c * Coarse] <= r[i * Coarse]
           /\ ClosestApproach(r, w).min <= r[c * Coarse]
           /\ \A t \in 0..w : t - c * Coarse \in -Coarse..Coarse => ClosestApproach(r, w).min <= r[t]
<1> DEFINE C == {i * Coarse : i \in 0..w \div Coarse}
           coarse == MinOver(r, C)
           F == {t \in coarse.tca - Coarse..coarse.tca + Coarse : 0 <= t /\ t <= w}
           fine == MinOver(r, F)
           best == IF coarse.km # NoRange /\ fine.km < coarse.km THEN fine ELSE coarse
<1>0. Coarse \in Nat \ {0}
  BY NumbersAssumption
<1>1. ClosestApproach(r, w).min = best.km /\ ClosestApproach(r, w).tca = best.tca
  BY DEF ClosestApproach, Refine
<1>2. /\ \A i \in 0..K : i * Coarse \in C /\ i * Coarse \in 0..w
      /\ \A t \in C : \E i \in 0..K : t = i * Coarse
  <2>1. w \div Coarse = K /\ \A i \in 0..K : i * Coarse \in 0..w
    BY CoarseTimes
  <2>2. QED
    BY <2>1
<1>3. C \in SUBSET (0..w) /\ C # {} /\ \A t \in C : r[t] # NoRange
  <2>1. 0 \in 0..K
    OBVIOUS
  <2> HIDE DEF C
  <2>2. QED
    BY <1>2, <2>1
<1>4. /\ coarse.tca \in C /\ coarse.km = r[coarse.tca] /\ \A t \in C : coarse.km <= r[t]
  <2> HIDE DEF C
  <2> QED
    BY <1>3, MinOverIsLeast
<1>5. PICK c \in 0..K : coarse.tca = c * Coarse
  BY <1>2, <1>4
<1>6. c * Coarse \in 0..w
  BY <1>2
<1>7. \A i \in 0..K : coarse.km <= r[i * Coarse]
  BY <1>2, <1>4
<1> HIDE DEF C, coarse
<1>8. F \in SUBSET (0..w) /\ coarse.tca \in F
  BY <1>0, <1>5, <1>6
<1>9. /\ fine.tca \in F /\ fine.km = r[fine.tca] /\ \A t \in F : fine.km <= r[t]
  <2> HIDE DEF F
  <2>1. F # {} /\ \A t \in F : r[t] # NoRange
    BY <1>8
  <2>2. QED
    BY <1>8, <2>1, MinOverIsLeast
<1>10. \A t \in 0..w : t - c * Coarse \in -Coarse..Coarse => t \in F
  BY <1>0, <1>5, <1>6
<1> HIDE DEF F, fine
<1>11. fine.tca \in 0..w /\ coarse.tca \in 0..w /\ fine.km \in Int /\ coarse.km \in Int
       /\ coarse.km # NoRange /\ fine.km <= coarse.km
  BY <1>4, <1>5, <1>6, <1>8, <1>9
<1>12. best.km = fine.km /\ best.tca \in 0..w /\ r[best.tca] = best.km
  BY <1>4, <1>9, <1>11
<1> HIDE DEF best
<1>13. r[c * Coarse] = coarse.km
  BY <1>4, <1>5
<1>14. QED
  BY <1>1, <1>7, <1>9, <1>10, <1>11, <1>12, <1>13

\* A range that rises after a time is highest last.
LEMMA Rising ==
  ASSUME NEW w \in Nat, NEW r \in [0..w -> Int], NEW m \in 0..w,
         \A u \in m..w - 1 : r[u] < r[u + 1]
  PROVE  \A u \in m..w : \A v \in m..w : u < v => r[u] < r[v]
<1> SUFFICES ASSUME NEW u \in m..w
             PROVE  \A v \in m..w : u < v => r[u] < r[v]
  OBVIOUS
<1> DEFINE S == {k \in 0..w - u : k = 0 \/ r[u] < r[u + k]}
<1>1. 0 \in S
  OBVIOUS
<1>2. ASSUME NEW k \in 0..(w - u) - 1, k \in S
      PROVE  k + 1 \in S
  <2>1. u + k \in m..w - 1 /\ u + k \in 0..w /\ u + (k + 1) = (u + k) + 1 /\ (u + k) + 1 \in 0..w
        /\ u \in 0..w
    OBVIOUS
  <2>2. r[u + k] < r[(u + k) + 1]
    BY <2>1
  <2>3. r[u] < r[u + (k + 1)]
    <3>1. r[u] \in Int /\ r[u + k] \in Int /\ r[(u + k) + 1] \in Int
      BY <2>1
    <3>2. CASE k = 0
      <4>1. u + k = u
        BY <3>2
      <4>2. QED
        BY <2>1, <2>2, <4>1
    <3>3. CASE k # 0
      <4>1. r[u] < r[u + k]
        BY <1>2, <3>3
      <4>2. QED
        BY <2>1, <2>2, <3>1, <4>1
    <3>4. QED
      BY <3>2, <3>3
  <2>4. k + 1 \in 0..w - u
    OBVIOUS
  <2>5. QED
    BY <2>3, <2>4
<1>3. \A k \in 0..w - u : k \in S
  <2> HIDE DEF S
  <2>1. w - u \in Nat
    OBVIOUS
  <2>2. QED
    BY <1>1, <1>2, <2>1, IntervalInduction
<1>4. ASSUME NEW v \in m..w, u < v
      PROVE  r[u] < r[v]
  <2>1. v - u \in 0..w - u /\ u + (v - u) = v /\ v - u # 0
    BY <1>4
  <2>2. QED
    BY <1>3, <2>1
<1>5. QED
  BY <1>4

LEMMA Falling ==
  ASSUME NEW w \in Nat, NEW r \in [0..w -> Int], NEW m \in 0..w,
         \A u \in 0..m - 1 : r[u] > r[u + 1]
  PROVE  \A u \in 0..m : \A v \in 0..m : u < v => r[v] < r[u]
<1> DEFINE f == [t \in 0..m |-> -r[t]]
<1>1. m \in Nat /\ f \in [0..m -> Int] /\ 0 \in 0..m
  OBVIOUS
<1>2. \A u \in 0..m - 1 : f[u] < f[u + 1]
  <2>1. SUFFICES ASSUME NEW u \in 0..m - 1
                 PROVE  f[u] < f[u + 1]
    OBVIOUS
  <2>2. u \in 0..m /\ u + 1 \in 0..m /\ r[u] \in Int /\ r[u + 1] \in Int /\ r[u] > r[u + 1]
    OBVIOUS
  <2>3. f[u] = -r[u] /\ f[u + 1] = -r[u + 1]
    BY <2>2
  <2> HIDE DEF f
  <2>4. QED
    BY <2>2, <2>3
<1>3. \A t \in 0..m : f[t] = -r[t] /\ r[t] \in Int
  OBVIOUS
<1> HIDE DEF f
<1>4. \A u \in 0..m : \A v \in 0..m : u < v => f[u] < f[v]
  BY <1>1, <1>2, Rising
<1>5. QED
  BY <1>3, <1>4

\* A range that changes by no more than one a step.
LEMMA Gradual ==
  ASSUME NEW w \in Nat, NEW r \in [0..w -> Int],
         \A t \in 1..w : r[t] - r[t - 1] \in -1..1
  PROVE  \A u \in 0..w : \A k \in 0..w - u : r[u + k] - r[u] \in -k..k
<1> SUFFICES ASSUME NEW u \in 0..w
             PROVE  \A k \in 0..w - u : r[u + k] - r[u] \in -k..k
  OBVIOUS
<1> DEFINE S == {k \in 0..w - u : r[u + k] - r[u] \in -k..k}
<1>1. 0 \in S
  OBVIOUS
<1>2. ASSUME NEW k \in 0..(w - u) - 1, k \in S
      PROVE  k + 1 \in S
  <2>1. /\ u + (k + 1) \in 1..w /\ u + (k + 1) - 1 = u + k /\ u + k \in 0..w
        /\ u + (k + 1) \in 0..w /\ k + 1 \in 0..w - u /\ k \in Int
    OBVIOUS
  <2>2. r[u + (k + 1)] - r[u + k] \in -1..1
    <3>1. PICK t \in 1..w : t = u + (k + 1)
      BY <2>1
    <3>2. t - 1 = u + k
      BY <2>1, <3>1
    <3>3. r[t] - r[t - 1] \in -1..1
      OBVIOUS
    <3>4. QED
      BY <3>1, <3>2, <3>3
  <2>3. r[u + (k + 1)] \in Int /\ r[u + k] \in Int /\ r[u] \in Int
    BY <2>1
  <2>4. r[u + k] - r[u] \in -k..k
    BY <1>2
  <2>5. r[u + (k + 1)] - r[u] \in -(k + 1)..k + 1
    <3> DEFINE x == r[u + (k + 1)]
               y == r[u + k]
               z == r[u]
    <3>1. x \in Int /\ y \in Int /\ z \in Int /\ x - y \in -1..1 /\ y - z \in -k..k /\ k \in Int
      BY <2>1, <2>2, <2>3, <2>4
    <3> HIDE DEF x, y, z
    <3>2. x - z \in -(k + 1)..k + 1
      BY <3>1
    <3>3. QED
      BY <3>2 DEF x, z
  <2>6. QED
    BY <2>1, <2>5
<1>3. \A k \in 0..w - u : k \in S
  <2> HIDE DEF S
  <2>1. w - u \in Nat
    OBVIOUS
  <2>2. QED
    BY <1>1, <1>2, <2>1, IntervalInduction
<1>4. QED
  BY <1>3

LEMMA NearestCoarse ==
  ASSUME NEW K \in Nat, NEW w \in Nat, w = K * Coarse, NEW t \in 0..w
  PROVE  \E i \in 0..K : i * Coarse - t \in -(Coarse \div 2)..Coarse \div 2
<1> DEFINE i == t \div Coarse
           e == t % Coarse
<1>1. Coarse \in Nat \ {0}
  BY NumbersAssumption
<1>2. i \in Nat /\ e \in 0..Coarse - 1 /\ t = i * Coarse + e
  <2>1. \A C \in Nat \ {0} : \A n \in Nat :
          n \div C \in Nat /\ n % C \in 0..C - 1 /\ n = (n \div C) * C + (n % C)
    OBVIOUS
  <2>2. t \in Nat
    OBVIOUS
  <2>3. QED
    BY <1>1, <2>1, <2>2
<1> HIDE DEF i, e
<1>3. /\ i * Coarse \in Nat /\ (i + 1) * Coarse = i * Coarse + Coarse
      /\ i * Coarse <= K * Coarse => i <= K
      /\ i * Coarse < K * Coarse => i + 1 <= K
  <2>1. \A C \in Nat \ {0} : \A n, k \in Nat :
          /\ n * C \in Nat /\ (n + 1) * C = n * C + C
          /\ n * C <= k * C => n <= k
          /\ n * C < k * C => n + 1 <= k
    OBVIOUS
  <2>2. QED
    BY <1>1, <1>2, <2>1
<1>4. CASE e <= Coarse \div 2
  <2>1. i \in 0..K
    BY <1>2, <1>3
  <2>2. i * Coarse - t \in -(Coarse \div 2)..Coarse \div 2
    BY <1>1, <1>2, <1>3, <1>4
  <2>3. QED
    BY <2>1, <2>2
<1>5. CASE ~(e <= Coarse \div 2)
  <2>1. e > 0
    BY <1>1, <1>2, <1>5
  <2>2. i + 1 \in 0..K
    BY <1>2, <1>3, <2>1
  <2>3. (i + 1) * Coarse - t \in -(Coarse \div 2)..Coarse \div 2
    BY <1>1, <1>2, <1>3, <1>5
  <2>4. QED
    BY <2>2, <2>3
<1>6. QED
  BY <1>4, <1>5

\* With one dip the search finds it, since the best coarse time is no further
\* from it than a step; without jumps it is off by half a step's change.
LEMMA ApproachIsClosest ==
  ASSUME NEW K \in Nat, NEW w \in Nat, w = K * Coarse, NEW r \in [0..w -> Int],
         \A t \in 0..w : r[t] # NoRange
  PROVE  LET a == ClosestApproach(r, w)
             least == Min({r[t] : t \in 0..w})
             dips(t) == /\ \A u \in 0..t - 1 : r[u] > r[u + 1]
                        /\ \A u \in t..w - 1 : r[u] < r[u + 1]
         IN /\ r[a.tca] = a.min
            /\ (\E t \in 0..w : dips(t)) => a.min = least
            /\ (\A t \in 1..w : r[t] - r[t - 1] \in -1..1) => a.min <= least + Coarse \div 2
<1> DEFINE a == ClosestApproach(r, w)
           least == Min({r[t] : t \in 0..w})
           dips(t) == /\ \A u \in 0..t - 1 : r[u] > r[u + 1]
                      /\ \A u \in t..w - 1 : r[u] < r[u + 1]
<1>1. PICK c \in 0..K :
        /\ a.tca \in 0..w /\ r[a.tca] = a.min
        /\ \A i \in 0..K : r[c * Coarse] <= r[i * Coarse]
        /\ a.min <= r[c * Coarse]
        /\ \A t \in 0..w : t - c * Coarse \in -Coarse..Coarse => a.min <= r[t]
  BY ApproachFound
<1> HIDE DEF a
<1> DEFINE x == c * Coarse
<1>2. /\ x \in 0..w /\ (c + 1) * Coarse = x + Coarse /\ (c - 1) * Coarse = x - Coarse
      /\ x + Coarse <= w => c + 1 \in 0..K
      /\ x - Coarse >= 0 => c - 1 \in 0..K
  BY CoarseTimes
<1>3. Coarse \in Nat \ {0} /\ a.min \in Int
  BY <1>1, NumbersAssumption
<1>4. (\E l \in 0..w : least = r[l]) /\ \A t \in 0..w : least <= r[t]
  <2>1. 0 \in 0..w
    OBVIOUS
  <2>2. /\ Min({r[t] : t \in 0..w}) \in {r[t] : t \in 0..w}
        /\ \A u \in 0..w : Min({r[t] : t \in 0..w}) <= r[u]
    BY <2>1, LeastOver
  <2>3. QED
    BY <2>2
<1> HIDE DEF least, x
<1>5. PICK l \in 0..w : least = r[l]
  BY <1>4
<1>6. least \in Int /\ least <= a.min
  BY <1>1, <1>4, <1>5
<1>7. ASSUME NEW m \in 0..w, dips(m)
      PROVE  a.min = least
  <2>1. \A u \in 0..m : \A v \in 0..m : u < v => r[v] < r[u]
    BY <1>7, Falling
  <2>2. \A u \in m..w : \A v \in m..w : u < v => r[u] < r[v]
    BY <1>7, Rising
  <2>3. ~(m > x + Coarse)
    <3> SUFFICES ASSUME m > x + Coarse
                 PROVE  FALSE
      OBVIOUS
    <3>1. c + 1 \in 0..K /\ x \in 0..m /\ x + Coarse \in 0..m /\ x < x + Coarse
      BY <1>2, <1>3
    <3>2. r[x + Coarse] < r[x]
      BY <2>1, <3>1
    <3>3. r[x] <= r[x + Coarse]
      BY <1>1, <1>2, <3>1 DEF x
    <3>4. r[x] \in Int /\ r[x + Coarse] \in Int
      BY <1>2, <3>1
    <3>5. QED
      BY <3>2, <3>3, <3>4
  <2>4. ~(m < x - Coarse)
    <3> SUFFICES ASSUME m < x - Coarse
                 PROVE  FALSE
      OBVIOUS
    <3>1. c - 1 \in 0..K /\ x \in m..w /\ x - Coarse \in m..w /\ x - Coarse < x
          /\ x - Coarse \in 0..w
      BY <1>2, <1>3
    <3>2. r[x - Coarse] < r[x]
      BY <2>2, <3>1
    <3>3. r[x] <= r[x - Coarse]
      BY <1>1, <1>2, <3>1 DEF x
    <3>4. r[x] \in Int /\ r[x - Coarse] \in Int
      BY <1>2, <3>1
    <3>5. QED
      BY <3>2, <3>3, <3>4
  <2>5. a.min <= r[m]
    <3>1. m - x \in -Coarse..Coarse
      BY <1>2, <1>3, <2>3, <2>4
    <3>2. QED
      BY <1>1, <3>1 DEF x
  <2>6. r[m] <= r[l]
    <3>1. r[m] \in Int /\ r[l] \in Int
      OBVIOUS
    <3>2. l < m => r[m] < r[l]
      <4>1. l < m => l \in 0..m /\ m \in 0..m
        OBVIOUS
      <4>2. QED
        BY <2>1, <4>1
    <3>3. l > m => r[m] < r[l]
      <4>1. l > m => l \in m..w /\ m \in m..w /\ m < l
        OBVIOUS
      <4>2. QED
        BY <2>2, <4>1
    <3>4. l = m \/ l < m \/ l > m
      OBVIOUS
    <3>5. QED
      BY <3>1, <3>2, <3>3, <3>4
  <2>7. r[m] \in Int /\ r[l] \in Int
    OBVIOUS
  <2>8. QED
    BY <1>3, <1>5, <1>6, <2>5, <2>6, <2>7
<1>8. ASSUME \A t \in 1..w : r[t] - r[t - 1] \in -1..1
      PROVE  a.min <= least + Coarse \div 2
  <2>1. \A u \in 0..w : \A k \in 0..w - u : r[u + k] - r[u] \in -k..k
    BY <1>8, Gradual
  <2>2. PICK i \in 0..K : i * Coarse - l \in -(Coarse \div 2)..Coarse \div 2
    BY NearestCoarse
  <2> DEFINE y == i * Coarse
  <2>3. y \in 0..w
    BY CoarseTimes
  <2>4. a.min <= r[y]
    <3>1. r[x] <= r[y] /\ a.min <= r[x]
      BY <1>1 DEF x
    <3>2. r[x] \in Int /\ r[y] \in Int
      BY <1>2, <2>3
    <3> HIDE DEF y
    <3>3. QED
      BY <1>3, <3>1, <3>2
  <2> HIDE DEF y
  <2>5. y - l \in -(Coarse \div 2)..Coarse \div 2 /\ Coarse \div 2 \in Int
    BY <1>3, <2>2 DEF y
  <2>6. r[y] <= r[l] + Coarse \div 2
    <3>0. r[y] \in Int /\ r[l] \in Int
      BY <2>3
    <3>1. CASE y >= l
      <4>1. y - l \in 0..w - l /\ l + (y - l) = y
        BY <2>3, <3>1
      <4>2. r[l + (y - l)] - r[l] \in -(y - l)..y - l
        BY <2>1, <4>1
      <4>3. r[y] - r[l] \in -(y - l)..y - l
        BY <4>1, <4>2
      <4>4. QED
        BY <2>3, <2>5, <3>0, <4>3
    <3>2. CASE ~(y >= l)
      <4>1. l - y \in 0..w - y /\ y + (l - y) = l
        BY <2>3, <3>2
      <4>2. r[y + (l - y)] - r[y] \in -(l - y)..l - y
        BY <2>1, <2>3, <4>1
      <4>3. r[l] - r[y] \in -(l - y)..l - y
        BY <4>1, <4>2
      <4>4. QED
        BY <2>3, <2>5, <3>0, <4>3
    <3>3. QED
      BY <3>1, <3>2
  <2>7. r[y] \in Int /\ r[l] \in Int
    BY <2>3
  <2>8. QED
    BY <1>3, <1>5, <2>4, <2>5, <2>6, <2>7
<1>9. QED
  BY <1>1, <1>7, <1>8 DEF a, least

\* A screening shows the nearest neighbours, around the seam as elsewhere, and
\* the closest approach that the range ever comes to when it has one dip
\* (conjunction.py l.142-160, l.237-254, coplanar.py l.123-152).
THEOREM ClosestShownHolds == Spec => []ClosestShown
<1>1. Answered => ClosestShown
  <2> SUFFICES ASSUME Answered
               PROVE  ClosestShown
    OBVIOUS
  <2>1. ASSUME query.kind = "conjunctions"
        PROVE  /\ query \in Queries
               /\ answer.shown = Named(query, ConjunctionsFor(query.objects, query.target,
                                                   query.range, query.halfWidth, query.cap))
               /\ answer.approach = ClosestApproach(query.over, query.window)
    <3>1. query \in Queries /\ answer = AnswerTo(query)
      BY <2>1 DEF Answered, Nothing
    <3>2. QED
      BY <2>1, <3>1 DEF AnswerTo
  <2>2. ASSUME query.kind = "coplanar"
        PROVE  /\ query \in Queries
               /\ answer.shown = Named(query, CoplanarFor(query.objects, query.target,
                                                   query.range, query.halfWidth, query.cap))
    <3>1. query \in Queries /\ answer = AnswerTo(query)
      BY <2>2 DEF Answered, Nothing
    <3>2. QED
      BY <2>2, <3>1 DEF AnswerTo
  <2>3. ASSUME query.kind = "conjunctions"
        PROVE  LET fit(obj) == obj.elset
                   before(x, o) == /\ query.range[x] # NoRange
                                   /\ query.range[o] = NoRange \/ query.range[x] < query.range[o]
               IN FirstAreShown(Near(query, fit), answer.shown, query.cap, before)
    BY <2>1, <2>3, ConjunctionsShown DEF FirstAreShown, Near, NearerNow
  <2>4. ASSUME query.kind = "conjunctions"
        PROVE  LET r == query.over
                   times == 0..query.window
                   least == Min({r[t] : t \in times})
                   dips(t) == /\ \A u \in 0..t - 1 : r[u] > r[u + 1]
                              /\ \A u \in t..query.window - 1 : r[u] < r[u + 1]
               IN (NoRange \notin {r[t] : t \in times}) =>
                    /\ r[answer.approach.tca] = answer.approach.min
                    /\ (\E t \in times : dips(t)) => answer.approach.min = least
                    /\ (\A t \in 1..query.window : r[t] - r[t - 1] \in -1..1) =>
                         answer.approach.min <= least + Coarse \div 2
    <3> SUFFICES ASSUME NoRange \notin {query.over[t] : t \in 0..query.window}
                 PROVE  LET r == query.over
                            times == 0..query.window
                            least == Min({r[t] : t \in times})
                            dips(t) == /\ \A u \in 0..t - 1 : r[u] > r[u + 1]
                                       /\ \A u \in t..query.window - 1 : r[u] < r[u + 1]
                        IN /\ r[answer.approach.tca] = answer.approach.min
                           /\ (\E t \in times : dips(t)) => answer.approach.min = least
                           /\ (\A t \in 1..query.window : r[t] - r[t - 1] \in -1..1) =>
                                answer.approach.min <= least + Coarse \div 2
      OBVIOUS
    <3>1. /\ query.window \in {k * Coarse : k \in 0..query.window}
          /\ query.over \in [0..query.window -> Int]
      BY <2>1, <2>4, QueriesAssumption
    <3>2. PICK K \in 0..query.window : query.window = K * Coarse
      BY <3>1
    <3>3. K \in Nat /\ query.window \in Nat
      BY <3>2, NumbersAssumption
    <3>4. \A t \in 0..query.window : query.over[t] # NoRange
      OBVIOUS
    <3>5. answer.approach = ClosestApproach(query.over, query.window)
      BY <2>1, <2>4
    <3>6. QED
      BY <3>1, <3>2, <3>3, <3>4, <3>5, ApproachIsClosest, Zenon
  <2>5. ASSUME query.kind = "coplanar"
        PROVE  LET fit(obj) == obj.plane
                   lon(o) == query.objects[o].lon - query.objects[query.target].lon
                   nearer(x, o) == \A d \in 0..Turn : Apart(lon(o), 0, d) => Apart(lon(x), 0, d)
                   before(x, o) == \/ query.range[x] < query.range[o]
                                   \/ query.range[x] = query.range[o] /\ nearer(x, o) /\ ~nearer(o, x)
               IN FirstAreShown(Near(query, fit), answer.shown, query.cap, before)
    <3> DEFINE place(o) == query.objects[o].lon
               lon(o) == place(o) - place(query.target)
               nearer(x, o) == \A d \in 0..Turn : Apart(lon(o), 0, d) => Apart(lon(x), 0, d)
               before(x, o) == \/ query.range[x] < query.range[o]
                               \/ query.range[x] = query.range[o] /\ nearer(x, o) /\ ~nearer(o, x)
               diff(o) == SepDeg(place(o), place(query.target))
               first(x, o) == \/ query.range[x] < query.range[o]
                              \/ query.range[x] = query.range[o] /\ diff(x) < diff(o)
               near == {o \in DOMAIN query.objects \ {query.target} :
                          /\ query.target \in DOMAIN query.objects
                          /\ query.objects[o].plane /\ query.objects[query.target].plane
                          /\ place(o) # NoLon /\ place(query.target) # NoLon
                          /\ Apart(place(o), place(query.target), query.halfWidth)}
               shown == answer.shown
               ids == {shown[i].id : i \in DOMAIN shown}
    <3>1. /\ ids \subseteq near
          /\ Len(shown) = Min({query.cap, Cardinality(near)}) /\ Cardinality(ids) = Len(shown)
          /\ \A o \in ids, x \in near \ ids : ~first(x, o)
          /\ \A i, j \in DOMAIN shown : i < j => ~first(shown[j].id, shown[i].id)
      BY <2>2, <2>5, CoplanarShown
    <3>2. ASSUME NEW o \in near
          PROVE  /\ place(o) \in -(Turn \div 2)..Turn \div 2
                 /\ place(query.target) \in -(Turn \div 2)..Turn \div 2
      BY <2>2, <2>5, QueriesAssumption
    <3> HIDE DEF near, place
    <3>3. ASSUME NEW o \in near
          PROVE  /\ diff(o) \in 0..Turn
                 /\ \A d \in 0..Turn : Apart(lon(o), 0, d) <=> diff(o) <= d
      <4>1. diff(o) \in 0..Turn
        BY <3>2, ApartIsSep
      <4>2. ASSUME NEW d \in 0..Turn
            PROVE  Apart(lon(o), 0, d) <=> diff(o) <= d
        <5>1. Apart(place(o), place(query.target), d) <=> diff(o) <= d
          BY <3>2, ApartIsSep, NumbersAssumption
        <5>2. \A k \in {-1, 0, 1} : lon(o) - 0 + k * Turn = place(o) - place(query.target) + k * Turn
          BY <3>2, NumbersAssumption
        <5> HIDE DEF lon, diff
        <5>3. Apart(lon(o), 0, d) <=> Apart(place(o), place(query.target), d)
          BY <5>2 DEF Apart
        <5>4. QED
          BY <5>1, <5>3
      <4>3. QED
        BY <4>1, <4>2
    <3> HIDE DEF lon, diff
    <3>4. ASSUME NEW x \in near, NEW o \in near, ~nearer(o, x)
          PROVE  diff(x) < diff(o)
      <4>1. PICK d \in 0..Turn : Apart(lon(x), 0, d) /\ ~Apart(lon(o), 0, d)
        BY <3>4
      <4>2. diff(x) <= d /\ ~(diff(o) <= d)
        BY <3>3, <4>1
      <4>3. diff(x) \in Int /\ diff(o) \in Int /\ d \in Int
        BY <3>3, NumbersAssumption
      <4>4. QED
        BY <4>2, <4>3
    <3> HIDE DEF nearer
    <3>5. \A x, o \in near : before(x, o) => first(x, o)
      BY <3>4
    <3> HIDE DEF before, first, shown
    <3>6. \A i \in DOMAIN shown : shown[i].id \in ids
      OBVIOUS
    <3> HIDE DEF ids
    <3>7. /\ \A o \in ids, x \in near \ ids : ~before(x, o)
          /\ \A i, j \in DOMAIN shown : i < j => ~before(shown[j].id, shown[i].id)
      <4>1. \A o \in ids, x \in near \ ids : ~before(x, o)
        BY <3>1, <3>5
      <4>2. \A i, j \in DOMAIN shown : i < j => ~before(shown[j].id, shown[i].id)
        BY <3>1, <3>5, <3>6
      <4>3. QED
        BY <4>1, <4>2
    <3>8. QED
      BY <3>1, <3>7 DEF FirstAreShown, Near, near, ids, shown, before, nearer, lon, place
  <2>6. QED
    BY <2>3, <2>4, <2>5 DEF ClosestShown
<1>2. QED
  BY <1>1, Invariance, PTL

=============================================================================
