--------------------------- MODULE UdlFetch_proofs ---------------------------
(***************************************************************************)
(* Proofs about UdlFetch for any rows, windows and slice lengths: nothing   *)
(* that was upstream when a fetch began goes missing outside of the windows *)
(* whose full page was kept or whose answer was no list, unless the operator *)
(* is told.  The argument is that every such row is in the records gathered, *)
(* in one of those, or in a window that is still to be requested.  What is  *)
(* gathered does not depend on how the window was cut, full pages are kept   *)
(* in silence only under long slices, and the requests are bounded by the    *)
(* trees of halves.                                                         *)
(***************************************************************************)
EXTENDS UdlFetch, DataLemmas

Span == [start : Nat, end : Nat, depth : Nat]

In(r, w) == w.start <= r.epoch /\ r.epoch <= w.end
Excused(r) == \E w \in cut \cup blank : In(r, w)

Shape ==
  /\ upstream \subseteq Rows /\ due \subseteq upstream
  /\ \A r \in due : r.form = "usable"
  /\ span \in Nat \ {0}
  /\ stats.failures \in Nat
  /\ todo \in Seq(Span)
  /\ pc = "done" => todo = <<>>

Accounted ==
  (pc \in {"asking", "done"} /\ stats.failures = 0) =>
    \A r \in due : Gathered(r) \/ Excused(r) \/ \E i \in DOMAIN todo : In(r, todo[i])

IInv == Shape /\ Accounted

-----------------------------------------------------------------------------
(* Slices and halves leave no gap *)

\* The least number of steps of length s that reach d.
LEMMA Ceiling ==
  ASSUME NEW d \in Nat, NEW s \in Nat \ {0}
  PROVE  /\ (d + s - 1) \div s \in Nat
         /\ ((d + s - 1) \div s) * s >= d
         /\ ((d + s - 1) \div s) * s < d + s
<1> DEFINE q == (d + s - 1) \div s
           m == (d + s - 1) % s
<1>1. q \in Nat /\ m \in 0..(s - 1) /\ d + s - 1 = s * q + m
  OBVIOUS
<1> HIDE DEF q, m
<1>2. q * s = s * q
  BY <1>1
<1>3. q * s >= d /\ q * s < d + s
  BY <1>1, <1>2
<1>4. QED
  BY <1>1, <1>3 DEF q

LEMMA Steps ==
  ASSUME NEW s \in Nat \ {0}, NEW x \in Nat, NEW y \in Nat, x * s < (y + 1) * s
  PROVE  x <= y
<1>1. CASE x > y
  <2>1. PICK k \in Nat : x = y + 1 + k
    <3>1. x - (y + 1) \in Nat /\ x = y + 1 + (x - (y + 1))
      BY <1>1
    <3>2. QED
      BY <3>1
  <2>2. x * s = (y + 1) * s + k * s /\ k * s \in Nat
    BY <2>1
  <2>3. QED
    BY <2>2
<1>2. QED
  BY <1>1

LEMMA SlicesCover ==
  ASSUME NEW w, w.start \in Nat, w.end \in Nat, w.start < w.end,
         span \in Nat \ {0}
  PROVE  /\ Slices(w) \in Seq(Span)
         /\ \A r : r.epoch \in Nat /\ In(r, w) =>
              \E i \in DOMAIN Slices(w) : In(r, Slices(w)[i])
<1> DEFINE n == (w.end - w.start + span - 1) \div span
           lo(i) == w.start + (i - 1) * span
           hi(i) == IF w.start + i * span < w.end THEN w.start + i * span ELSE w.end
<1>1. /\ n \in Nat /\ n * span >= w.end - w.start
      /\ n * span < w.end - w.start + span
  <2>1. w.end - w.start \in Nat
    OBVIOUS
  <2>2. QED
    BY <2>1, Ceiling
<1>2. Slices(w) = [i \in 1..n |-> [start |-> lo(i), end |-> hi(i), depth |-> 0]]
  BY DEF Slices
<1> HIDE DEF n
<1>3. \A i \in 1..n : lo(i) \in Nat /\ hi(i) \in Nat
  <2>1. SUFFICES ASSUME NEW i \in 1..n
                 PROVE  lo(i) \in Nat /\ hi(i) \in Nat
    OBVIOUS
  <2>2. i \in Nat /\ i - 1 \in Nat
    BY <1>1
  <2>3. (i - 1) * span \in Nat /\ i * span \in Nat
    BY <2>2
  <2>4. QED
    BY <2>3
<1> HIDE DEF lo, hi
<1>4. Slices(w) \in Seq(Span)
  <2>1. \A i \in 1..n : [start |-> lo(i), end |-> hi(i), depth |-> 0] \in Span
    BY <1>3 DEF Span
  <2>2. [i \in 1..n |-> [start |-> lo(i), end |-> hi(i), depth |-> 0]] \in [1..n -> Span]
    BY <2>1
  <2>3. QED
    BY <1>1, <1>2, <2>2
<1>5. ASSUME NEW r, r.epoch \in Nat, In(r, w)
      PROVE  \E i \in DOMAIN Slices(w) : In(r, Slices(w)[i])
  <2> DEFINE d == r.epoch - w.start
             q == IF d = 0 THEN 1 ELSE (d + span - 1) \div span
  <2>1. d \in Nat /\ d <= w.end - w.start
    BY <1>5 DEF In
  <2>2. q \in Nat /\ q * span >= d /\ (q - 1) * span <= d /\ q >= 1
    <3>1. CASE d = 0
      BY <3>1
    <3>2. CASE d # 0
      <4> DEFINE c == (d + span - 1) \div span
      <4>1. c \in Nat /\ c * span >= d /\ c * span < d + span
        BY <2>1, Ceiling
      <4> HIDE DEF c
      <4>2. (c - 1) * span = c * span - span
        BY <4>1
      <4>3. c # 0
        BY <2>1, <3>2, <4>1
      <4>4. c = q
        BY <3>2 DEF c
      <4> HIDE DEF q
      <4>5. QED
        BY <2>1, <4>1, <4>2, <4>3, <4>4
    <3>3. QED
      BY <3>1, <3>2
  <2> HIDE DEF q
  <2>3. q <= n
    <3>1. (q - 1) * span < n * span
      <4>1. CASE d = 0
        <5>1. q = 1 /\ n * span > 0
          BY <1>1, <4>1 DEF q
        <5>2. QED
          BY <5>1
      <4>2. CASE d # 0
        <5>1. q * span < d + span
          <6>1. q = (d + span - 1) \div span
            BY <4>2 DEF q
          <6>2. QED
            BY <2>1, <6>1, Ceiling
        <5>2. (q - 1) * span = q * span - span
          BY <2>2
        <5>3. q * span \in Nat /\ n * span \in Nat
          BY <1>1, <2>2
        <5>4. QED
          BY <1>1, <2>1, <5>1, <5>2, <5>3
      <4>3. QED
        BY <4>1, <4>2
    <3>2. n >= 1
      BY <1>1
    <3>3. n = (n - 1) + 1 /\ n - 1 \in Nat /\ q - 1 \in Nat
      BY <1>1, <2>2, <3>2
    <3>4. q - 1 <= n - 1
      BY <3>1, <3>3, Steps
    <3>5. QED
      BY <1>1, <2>2, <3>4
  <2>4. lo(q) <= r.epoch /\ r.epoch <= hi(q)
    <3>1. (q - 1) * span \in Nat /\ q * span \in Nat
      <4>1. q - 1 \in Nat
        BY <2>2
      <4>2. QED
        BY <2>2, <4>1
    <3>2. QED
      BY <1>5, <2>1, <2>2, <3>1 DEF lo, hi, In
  <2>5. q \in 1..n
    BY <1>1, <2>2, <2>3
  <2>6. q \in DOMAIN Slices(w) /\ Slices(w)[q].start = lo(q) /\ Slices(w)[q].end = hi(q)
    BY <1>2, <2>5
  <2>7. QED
    BY <2>4, <2>6 DEF In
<1>6. QED
  BY <1>4, <1>5

LEMMA HalvesCover ==
  ASSUME NEW w \in Span
  PROVE  /\ Halves(w) \in Seq(Span) /\ Len(Halves(w)) = 2
         /\ \A r : r.epoch \in Nat /\ In(r, w) =>
              In(r, Halves(w)[1]) \/ In(r, Halves(w)[2])
<1> DEFINE middle == w.start + Half(w)
           one == [start |-> w.start, end |-> middle, depth |-> w.depth + 1]
           two == [start |-> middle, end |-> w.end, depth |-> w.depth + 1]
<1>1. middle \in Nat
  BY DEF Span, Half
<1>2. Halves(w) = <<one, two>>
  BY DEF Halves
<1>3. one \in Span /\ two \in Span
  BY <1>1 DEF Span
<1>4. \A r : r.epoch \in Nat /\ In(r, w) => In(r, one) \/ In(r, two)
  BY <1>1 DEF In, Span
<1> HIDE DEF one, two
<1>5. QED
  BY <1>2, <1>3, <1>4

\* What replaces the head of the list of windows does not disturb the others.
LEMMA TailKept ==
  ASSUME NEW s \in Seq(Span), s # <<>>, NEW h \in Seq(Span)
  PROVE  /\ h \o Tail(s) \in Seq(Span) /\ Tail(s) \in Seq(Span)
         /\ Head(s) = s[1] /\ Head(s) \in Span
         /\ \A i \in DOMAIN h : i \in DOMAIN (h \o Tail(s)) /\ (h \o Tail(s))[i] = h[i]
         /\ \A i \in DOMAIN s : i # 1 =>
              /\ i - 1 \in DOMAIN Tail(s) /\ Tail(s)[i - 1] = s[i]
              /\ Len(h) + i - 1 \in DOMAIN (h \o Tail(s))
              /\ (h \o Tail(s))[Len(h) + i - 1] = s[i]
<1>1. Tail(s) \in Seq(Span) /\ Len(Tail(s)) = Len(s) - 1 /\ Len(s) \in Nat \ {0}
  OBVIOUS
<1>2. \A i \in 1..(Len(s) - 1) : Tail(s)[i] = s[i + 1]
  OBVIOUS
<1>3. h \o Tail(s) \in Seq(Span) /\ Len(h \o Tail(s)) = Len(h) + Len(s) - 1
  BY <1>1
<1>4. /\ \A i \in 1..Len(h) : (h \o Tail(s))[i] = h[i]
      /\ \A i \in 1..(Len(s) - 1) : (h \o Tail(s))[Len(h) + i] = Tail(s)[i]
  BY <1>1
<1>5. ASSUME NEW i \in DOMAIN s, i # 1
      PROVE  /\ i - 1 \in DOMAIN Tail(s) /\ Tail(s)[i - 1] = s[i]
             /\ Len(h) + i - 1 \in DOMAIN (h \o Tail(s))
             /\ (h \o Tail(s))[Len(h) + i - 1] = s[i]
  <2>1. i \in 1..Len(s) /\ i - 1 \in 1..(Len(s) - 1) /\ Len(h) \in Nat
    BY <1>1, <1>5
  <2>2. Tail(s)[i - 1] = s[i]
    BY <1>2, <2>1
  <2>3. (h \o Tail(s))[Len(h) + (i - 1)] = Tail(s)[i - 1]
    BY <1>4, <2>1
  <2>4. DOMAIN Tail(s) = 1..(Len(s) - 1) /\ DOMAIN (h \o Tail(s)) = 1..(Len(h) + Len(s) - 1)
    BY <1>1, <1>3
  <2>5. QED
    BY <2>1, <2>2, <2>3, <2>4
<1>6. QED
  BY <1>1, <1>3, <1>4, <1>5

-----------------------------------------------------------------------------
(* What a page that is not full says, and what merging it keeps *)

LEMMA ShortPageIsAll ==
  ASSUME upstream \subseteq Rows, NEW w, NEW page \in Pages(w),
         Cardinality(page) < Threshold
  PROVE  page = Within(w)
<1>1. IsFiniteSet(Within(w))
  <2>1. Within(w) \in SUBSET Rows
    BY DEF Within
  <2>2. QED
    BY <2>1, UdlFetchAssumption, FS_Subset
<1>2. page \in SUBSET Within(w)
  BY DEF Pages
<1>3. Cardinality(page) \in Nat /\ Cardinality(Within(w)) \in Nat
  BY <1>1, <1>2, FS_Subset, FS_CardinalityType
<1>4. Cardinality(page) = Cardinality(Within(w))
  BY <1>3, UdlFetchAssumption DEF Pages
<1>5. QED
  BY <1>1, <1>2, <1>4, FS_Subset

LEMMA MergeKeeps ==
  ASSUME NEW page, merged' = MergeRecords(merged, Normalise(page)), NEW r
  PROVE  /\ Gathered(r) => Gathered(r)'
         /\ r \in Usable(page) => Gathered(r)'
<1> DEFINE new == Normalise(page)
<1>1. /\ DOMAIN merged' = DOMAIN merged \cup DOMAIN new
      /\ \A o \in DOMAIN merged' :
           merged'[o] = IF o \notin DOMAIN merged THEN new[o]
                        ELSE IF o \notin DOMAIN new THEN merged[o]
                        ELSE MergeRecord(merged[o], new[o])
  BY DEF MergeRecords
<1>2. r \in Usable(page) => r.id \in DOMAIN new /\ r.epoch \in new[r.id].samples
  BY DEF Normalise, RecordOf
<1>3. \A held, rec : MergeRecord(held, rec).samples = held.samples \cup rec.samples
  BY DEF MergeRecord
<1> HIDE DEF new
<1>4. QED
  BY <1>1, <1>2, <1>3 DEF Gathered

-----------------------------------------------------------------------------
(* The invariant *)

LEMMA InitIInv == Init => IInv
BY UdlFetchAssumption DEF Init, IInv, Shape, Accounted, NoStats, Span

LEMMA StepIInv == IInv /\ [Next]_vars => IInv'
<1> SUFFICES ASSUME IInv, [Next]_vars
             PROVE  IInv'
  OBVIOUS
<1> USE DEF IInv
<1>e. \A r \in due : r.epoch \in Nat
  BY UdlFetchAssumption DEF Shape, Row
<1>1. ASSUME NEW w \in Windows, Fetch(w)
      PROVE  IInv'
  <2>1. w.start \in Nat /\ w.end \in Nat /\ w.start < w.end
    BY UdlFetchAssumption
  <2>2. /\ todo' = Slices(w) /\ due' = Usable(Within(w)) /\ stats' = NoStats
        /\ pc' = "asking" /\ UNCHANGED <<upstream, span>>
    BY <1>1 DEF Fetch
  <2>3. /\ Slices(w) \in Seq(Span)
        /\ \A r : r.epoch \in Nat /\ In(r, w) =>
             \E i \in DOMAIN Slices(w) : In(r, Slices(w)[i])
    BY <2>1, SlicesCover DEF Shape
  <2>4. Shape'
    BY <2>2, <2>3 DEF Shape, NoStats, Usable, Within
  <2>5. \A r \in due' : r.epoch \in Nat /\ In(r, w)
    BY <2>2, UdlFetchAssumption DEF Usable, Within, In, Shape, Row
  <2>6. Accounted'
    <3>1. \A r \in due' : \E i \in DOMAIN todo' : In(r, todo'[i])
      BY <2>2, <2>3, <2>5
    <3>2. \A r, x : In(r, x)' <=> (r.epoch >= x.start /\ r.epoch <= x.end)
      BY DEF In
    <3>3. QED
      BY <3>1 DEF Accounted
  <2>7. QED
    BY <2>4, <2>6
<1>2. ASSUME NEW page \in Answers(Head(todo)), AskHalves(page)
      PROVE  IInv'
  <2> DEFINE w == Head(todo)
  <2>1. /\ todo # <<>> /\ todo' = Halves(w) \o Tail(todo) /\ pc' = pc /\ pc = "asking"
        /\ stats'.failures = stats.failures
        /\ UNCHANGED <<upstream, span, merged, due, cut, blank>>
    BY <1>2 DEF AskHalves, Requested, ghosts
  <2>2. w \in Span /\ w = todo[1]
    BY <2>1 DEF Shape
  <2> HIDE DEF w
  <2>3. /\ Halves(w) \in Seq(Span) /\ Len(Halves(w)) = 2
        /\ \A r : r.epoch \in Nat /\ In(r, w) =>
             In(r, Halves(w)[1]) \/ In(r, Halves(w)[2])
    BY <2>2, HalvesCover
  <2>4. Shape'
    <3>1. todo' \in Seq(Span)
      BY <2>1, <2>3, TailKept DEF Shape
    <3>2. QED
      BY <2>1, <3>1 DEF Shape
  <2>5. Accounted'
    <3>1. SUFFICES ASSUME stats.failures = 0, NEW r \in due, ~Gathered(r), ~Excused(r)
                   PROVE  \E i \in DOMAIN todo' : In(r, todo'[i])
      BY <2>1 DEF Accounted, Gathered, Excused, In
    <3>2. PICK i \in DOMAIN todo : In(r, todo[i])
      BY <2>1, <3>1 DEF Accounted
    <3>3. CASE i = 1
      <4>1. In(r, Halves(w)[1]) \/ In(r, Halves(w)[2])
        BY <1>e, <2>2, <2>3, <3>2, <3>3
      <4>2. \A j \in DOMAIN Halves(w) : j \in DOMAIN todo' /\ todo'[j] = Halves(w)[j]
        BY <2>1, <2>3, TailKept DEF Shape
      <4>3. 1 \in DOMAIN Halves(w) /\ 2 \in DOMAIN Halves(w)
        BY <2>3
      <4>4. QED
        BY <4>1, <4>2, <4>3
    <3>4. CASE i # 1
      <4>1. /\ Len(Halves(w)) + i - 1 \in DOMAIN todo'
            /\ todo'[Len(Halves(w)) + i - 1] = todo[i]
        BY <2>1, <2>3, <3>4, TailKept DEF Shape
      <4>2. QED
        BY <3>2, <4>1
    <3>5. QED
      BY <3>3, <3>4
  <2>6. QED
    BY <2>4, <2>5
<1>3. ASSUME NEW page \in Answers(Head(todo)), KeepPage(page)
      PROVE  IInv'
  <2> DEFINE w == Head(todo)
  <2>1. /\ todo # <<>> /\ todo' = Tail(todo) /\ pc' = pc /\ pc = "asking"
        /\ merged' = MergeRecords(merged, Normalise(page))
        /\ stats'.failures = stats.failures
        /\ cut \cup blank \subseteq cut' \cup blank'
        /\ w \in cut' \cup blank' \/ (page \in Pages(w) /\ ~(Cardinality(page) >= Threshold))
        /\ UNCHANGED <<upstream, span, due>>
    BY <1>3 DEF KeepPage, Requested
  <2>2. w \in Span /\ w = todo[1]
    BY <2>1 DEF Shape
  <2>3. Shape'
    <3>1. todo' \in Seq(Span)
      BY <2>1 DEF Shape
    <3>2. QED
      BY <2>1, <3>1 DEF Shape
  <2>4. Accounted'
    <3>1. SUFFICES ASSUME stats.failures = 0, NEW r \in due, ~Gathered(r)', ~Excused(r)'
                   PROVE  \E i \in DOMAIN todo' : In(r, todo'[i])
      BY <2>1 DEF Accounted, In
    <3>2. ~Gathered(r) /\ r \notin Usable(page) /\ ~Excused(r)
      <4>1. ~Excused(r)
        BY <2>1, <3>1 DEF Excused, In
      <4>2. QED
        BY <2>1, <3>1, <4>1, MergeKeeps
    <3>3. PICK i \in DOMAIN todo : In(r, todo[i])
      BY <2>1, <3>1, <3>2 DEF Accounted
    <3>4. i # 1
      <4>1. SUFFICES ASSUME i = 1 PROVE FALSE
        OBVIOUS
      <4>2. r \in Within(w) /\ w \notin cut' \cup blank'
        BY <2>2, <3>1, <3>3, <4>1 DEF Within, In, Shape, Excused
      <4>3. page = Within(w)
        <5>1. page \in Pages(w) /\ Cardinality(page) < Threshold
          <6>1. page \in Pages(w) /\ ~(Cardinality(page) >= Threshold)
            BY <2>1, <4>2
          <6>2. page \in SUBSET Rows
            BY <6>1 DEF Pages, Within, Shape
          <6>3. Cardinality(page) \in Nat
            BY <6>2, UdlFetchAssumption, FS_Subset, FS_CardinalityType
          <6>4. QED
            BY <6>1, <6>3, UdlFetchAssumption
        <5>2. QED
          BY <5>1, ShortPageIsAll DEF Shape
      <4>4. r \in Usable(page)
        BY <4>2, <4>3 DEF Usable, Shape
      <4>5. QED
        BY <3>2, <4>4
    <3>5. i - 1 \in DOMAIN Tail(todo) /\ Tail(todo)[i - 1] = todo[i]
      <4>1. <<>> \in Seq(Span)
        OBVIOUS
      <4>2. QED
        BY <2>1, <3>4, <4>1, TailKept DEF Shape
    <3>6. QED
      BY <2>1, <3>3, <3>5
  <2>5. QED
    BY <2>3, <2>4
<1>4. ASSUME NEW page, RaiseOnPage(page)
      PROVE  IInv'
  BY <1>4 DEF RaiseOnPage, Requested, ghosts, Shape, Accounted
<1>5. CASE FailRequest
  <2>1. /\ todo # <<>> /\ todo' = Tail(todo) /\ pc' = pc /\ pc = "asking"
        /\ stats'.failures = stats.failures + 1
        /\ UNCHANGED <<upstream, span, due>>
    BY <1>5 DEF FailRequest, Requested, ghosts
  <2>2. stats'.failures \in Nat \ {0}
    BY <2>1 DEF Shape
  <2>3. QED
    BY <2>1, <2>2 DEF Shape, Accounted
<1>6. CASE Finish
  BY <1>6 DEF Finish, Shape, Accounted, Gathered, Excused, ghosts, In
<1>7. ASSUME NEW r \in Rows, Arrive(r)
      PROVE  IInv'
  BY <1>7 DEF Arrive, Shape, Accounted, Gathered, Excused, ghosts, In
<1>8. CASE UNCHANGED vars
  BY <1>8 DEF vars, ghosts, Shape, Accounted, Gathered, Excused, In
<1>9. QED
  BY <1>1, <1>2, <1>3, <1>4, <1>5, <1>6, <1>7, <1>8 DEF Next

LEMMA Invariance == Spec => []IInv
BY InitIInv, StepIInv, PTL DEF Spec

\* Whatever the slices and the rows, and however pages were split: a fetch that
\* is done, with no failure for the operator to read of, has every usable row
\* that was upstream when it began, but for those in windows whose full page was
\* kept or whose answer was no list (sources.py l.266-350, refresh.py l.311-329).
THEOREM CompleteOrToldHolds == Spec => []CompleteOrTold
<1>1. IInv => CompleteOrTold
  <2>1. SUFFICES ASSUME IInv, pc = "done",
                        NEW kept \in 0..stats.objects, Diagnosis(kept) # "failing"
                 PROVE  \A r \in due : Gathered(r) \/ Excused(r)
    BY DEF CompleteOrTold, Healthy, Excused, In
  <2>2. stats.failures = 0
    BY <2>1 DEF Diagnosis, IInv, Shape
  <2>3. QED
    BY <2>1, <2>2 DEF IInv, Shape, Accounted
<1>2. QED
  BY <1>1, Invariance, PTL

-----------------------------------------------------------------------------
(* Slicing does not show in the records *)

\* Every row of a kept page is usable and in one of the records, and a record
\* is what all the kept rows of its object come to.
Whole ==
  /\ got \subseteq Rows
  /\ SlicingUnseen

\* The newest fix is one of the fixes, none is newer, and it is the only such.
LEMMA NewestIsLast ==
  ASSUME NEW E \in SUBSET Nat, IsFiniteSet(E)
  PROVE  /\ Newest(E) \in Nat /\ Newest(E) \in E \cup {0}
         /\ \A e \in E : e <= Newest(E)
<1>1. {0} \cup E \in SUBSET Int /\ {0} \cup E # {} /\ IsFiniteSet({0} \cup E)
  BY FS_AddElement
<1>2. Newest(E) \in {0} \cup E /\ \A k \in {0} \cup E : k <= Newest(E)
  BY <1>1, MaxIsMaximum DEF Newest
<1>3. Newest(E) \in E \cup {0} /\ \A e \in E : e <= Newest(E)
  BY <1>2
<1>4. \A x \in E \cup {0} : x \in Nat
  OBVIOUS
<1>5. QED
  BY <1>3, <1>4, Zenon

LEMMA NewestUnique ==
  ASSUME NEW E \in SUBSET Nat, NEW m \in E \cup {0}, \A e \in E : e <= m
  PROVE  Newest(E) = m
<1>1. {0} \cup E \in SUBSET Int /\ m \in {0} \cup E /\ \A k \in {0} \cup E : k <= m
  OBVIOUS
<1>2. QED
  BY <1>1, MaxUnique DEF Newest

Epochs(rows) == {r.epoch : r \in rows}
From(rows, p) == {x \in rows : x.source = p}

LEMMA EpochsFinite ==
  ASSUME NEW A \in SUBSET Rows
  PROVE  Epochs(A) \in SUBSET Nat /\ IsFiniteSet(Epochs(A)) /\ IsFiniteSet(A)
<1>1. IsFiniteSet(A)
  BY UdlFetchAssumption, FS_Subset
<1>2. Epochs(A) \in SUBSET Nat
  BY UdlFetchAssumption DEF Epochs, Row
<1>3. [r \in A |-> r.epoch] \in Surjection(A, Epochs(A))
  BY DEF Surjection, Epochs
<1>4. QED
  BY <1>1, <1>2, <1>3, FS_Surjection

\* Merging two records comes to the record of the rows of both.
LEMMA MergeIsUnion ==
  ASSUME NEW A \in SUBSET Rows, NEW B \in SUBSET Rows
  PROVE  MergeRecord(RecordOf(A), RecordOf(B)) = RecordOf(A \cup B)
<1> DEFINE a == Newest(Epochs(A))
           b == Newest(Epochs(B))
           ca(p) == Newest(Epochs(From(A, p)))
           cb(p) == Newest(Epochs(From(B, p)))
<1>1. \A R : RecordOf(R) = [samples |-> Epochs(R), elset |-> Newest(Epochs(R)),
                            candidates |-> [p \in Providers |-> Newest(Epochs(From(R, p)))]]
  BY DEF RecordOf, Epochs, From
<1>2. /\ Epochs(A \cup B) = Epochs(A) \cup Epochs(B)
      /\ \A p : Epochs(From(A \cup B, p)) = Epochs(From(A, p)) \cup Epochs(From(B, p))
  BY DEF Epochs, From
<1>3. \A R \in SUBSET Rows :
        /\ Epochs(R) \in SUBSET Nat
        /\ Newest(Epochs(R)) \in Nat /\ Newest(Epochs(R)) \in Epochs(R) \cup {0}
        /\ \A e \in Epochs(R) : e <= Newest(Epochs(R))
  BY EpochsFinite, NewestIsLast
<1>4. \A R, p : R \in SUBSET Rows => From(R, p) \in SUBSET Rows
  BY DEF From
<1>5. A \cup B \in SUBSET Rows
  OBVIOUS
<1>6. Newest({a} \cup {cb(p) : p \in Providers}) = Newest(Epochs(A \cup B))
  <2> DEFINE m == Newest(Epochs(A \cup B))
             E == {a} \cup {cb(p) : p \in Providers}
  <2>1. E \in SUBSET Nat
    BY <1>3, <1>4
  <2>2. m \in Nat /\ m \in Epochs(A \cup B) \cup {0} /\ \A e \in Epochs(A \cup B) : e <= m
    BY <1>3, <1>5
  <2>3. \A e \in E : e <= m
    <3>1. a <= m
      <4>1. a \in Epochs(A \cup B) \cup {0}
        BY <1>2, <1>3
      <4>2. QED
        BY <2>2, <4>1
    <3>2. ASSUME NEW p \in Providers
          PROVE  cb(p) <= m
      <4>1. cb(p) \in Epochs(B) \cup {0}
        <5>1. Epochs(From(B, p)) \subseteq Epochs(B)
          BY DEF Epochs, From
        <5>2. QED
          BY <1>3, <1>4, <5>1
      <4>2. QED
        BY <1>2, <2>2, <4>1
    <3>3. QED
      BY <3>1, <3>2
  <2>4. m \in E \cup {0}
    <3>1. CASE m = 0
      BY <3>1
    <3>2. CASE m \in Epochs(A)
      <4>1. a = m
        BY <1>2, <1>3, <2>2, <2>3, <3>2
      <4>2. QED
        BY <4>1
    <3>3. CASE m \in Epochs(B)
      <4>1. PICK r \in B : r.epoch = m
        BY <3>3 DEF Epochs
      <4>2. r.source \in Providers
        BY UdlFetchAssumption DEF Row
      <4>3. m \in Epochs(From(B, r.source))
        BY <4>1 DEF Epochs, From
      <4>4. m <= cb(r.source) /\ cb(r.source) \in Nat
        BY <1>3, <1>4, <4>3
      <4>5. cb(r.source) \in E
        BY <4>2
      <4>6. cb(r.source) = m
        BY <2>2, <2>3, <4>4, <4>5
      <4>7. QED
        BY <4>5, <4>6
    <3>4. QED
      BY <1>2, <2>2, <3>1, <3>2, <3>3
  <2> HIDE DEF E, m
  <2>5. Newest(E) = m
    BY <2>1, <2>3, <2>4, NewestUnique
  <2>6. QED
    BY <2>5 DEF E, m
<1>7. ASSUME NEW p \in Providers
      PROVE  Later(ca(p), cb(p)) = Newest(Epochs(From(A \cup B, p)))
  <2> DEFINE m == Later(ca(p), cb(p))
             E == Epochs(From(A \cup B, p))
  <2>1. /\ ca(p) \in Nat /\ ca(p) \in Epochs(From(A, p)) \cup {0}
        /\ cb(p) \in Nat /\ cb(p) \in Epochs(From(B, p)) \cup {0}
        /\ \A e \in Epochs(From(A, p)) : e <= ca(p)
        /\ \A e \in Epochs(From(B, p)) : e <= cb(p)
        /\ E \in SUBSET Nat /\ Epochs(From(A, p)) \in SUBSET Nat
        /\ Epochs(From(B, p)) \in SUBSET Nat
    BY <1>3, <1>4, <1>5
  <2>2. E = Epochs(From(A, p)) \cup Epochs(From(B, p))
    BY <1>2
  <2> HIDE DEF ca, cb, E
  <2>3. m \in E \cup {0}
    BY <2>1, <2>2 DEF Later
  <2>4. \A e \in E : e <= m
    BY <2>1, <2>2 DEF Later
  <2> HIDE DEF m
  <2>5. Newest(E) = m
    BY <2>1, <2>3, <2>4, NewestUnique
  <2>6. QED
    BY <2>5 DEF m, E
<1>8. /\ RecordOf(A).samples = Epochs(A) /\ RecordOf(A).elset = a
      /\ RecordOf(B).samples = Epochs(B)
      /\ \A p \in Providers : RecordOf(A).candidates[p] = ca(p) /\ RecordOf(B).candidates[p] = cb(p)
  BY <1>1
<1> HIDE DEF a, ca, cb
<1>9. MergeRecord(RecordOf(A), RecordOf(B)) =
        [samples |-> Epochs(A) \cup Epochs(B),
         elset |-> Newest({a} \cup {cb(p) : p \in Providers}),
         candidates |-> [p \in Providers |-> Later(ca(p), cb(p))]]
  <2>1. {RecordOf(B).candidates[p] : p \in Providers} = {cb(p) : p \in Providers}
    BY <1>8
  <2>2. [p \in Providers |-> Later(RecordOf(A).candidates[p], RecordOf(B).candidates[p])]
          = [p \in Providers |-> Later(ca(p), cb(p))]
    BY <1>8
  <2>3. QED
    BY <1>8, <2>1, <2>2 DEF MergeRecord
<1>10. [p \in Providers |-> Later(ca(p), cb(p))]
         = [p \in Providers |-> Newest(Epochs(From(A \cup B, p)))]
  BY <1>7
<1>11. QED
  BY <1>1, <1>2, <1>6, <1>9, <1>10

\* Merging the records of a page comes to the records of all rows so far.
LEMMA PageIsMerged ==
  ASSUME Whole, pc = "asking", NEW page \in SUBSET Rows,
         merged' = MergeRecords(merged, Normalise(page)), got' = got \cup Usable(page)
  PROVE  /\ DOMAIN merged' = {r.id : r \in got'}
         /\ \A o \in DOMAIN merged' : merged'[o] = RecordOf({r \in got' : r.id = o})
<1> DEFINE new == Normalise(page)
           fresh == Usable(page)
           Of(rows, o) == {r \in rows : r.id = o}
<1>1. /\ DOMAIN merged = {r.id : r \in got}
      /\ \A o \in DOMAIN merged : merged[o] = RecordOf(Of(got, o))
  BY DEF Whole, SlicingUnseen
<1>2. /\ DOMAIN new = {r.id : r \in fresh}
      /\ \A o \in DOMAIN new : new[o] = RecordOf(Of(fresh, o))
  BY DEF Normalise
<1>3. fresh \in SUBSET Rows /\ got \in SUBSET Rows
  BY DEF Usable, Whole
<1> HIDE DEF new, fresh
<1>4. /\ DOMAIN merged' = DOMAIN merged \cup DOMAIN new
      /\ \A o \in DOMAIN merged' :
           merged'[o] = IF o \notin DOMAIN merged THEN new[o]
                        ELSE IF o \notin DOMAIN new THEN merged[o]
                        ELSE MergeRecord(merged[o], new[o])
  BY DEF MergeRecords, new
<1>5. got' = got \cup fresh
  BY DEF fresh
<1>6. DOMAIN merged' = {r.id : r \in got'}
  BY <1>1, <1>2, <1>4, <1>5
<1>7. ASSUME NEW o \in DOMAIN merged'
      PROVE  merged'[o] = RecordOf(Of(got', o))
  <2>1. Of(got', o) = Of(got, o) \cup Of(fresh, o)
    BY <1>5
  <2>2. /\ o \notin DOMAIN merged => Of(got, o) = {}
        /\ o \notin DOMAIN new => Of(fresh, o) = {}
    BY <1>1, <1>2
  <2>3. Of(got, o) \in SUBSET Rows /\ Of(fresh, o) \in SUBSET Rows
    BY <1>3
  <2> HIDE DEF Of
  <2>4. CASE o \notin DOMAIN merged
    <3>1. o \in DOMAIN new /\ Of(got', o) = Of(fresh, o)
      BY <1>4, <2>1, <2>2, <2>4
    <3>2. QED
      BY <1>2, <1>4, <2>4, <3>1
  <2>5. CASE o \in DOMAIN merged /\ o \notin DOMAIN new
    <3>1. Of(got', o) = Of(got, o)
      BY <2>1, <2>2, <2>5
    <3>2. QED
      BY <1>1, <1>4, <2>5, <3>1
  <2>6. CASE o \in DOMAIN merged /\ o \in DOMAIN new
    <3>1. merged'[o] = MergeRecord(RecordOf(Of(got, o)), RecordOf(Of(fresh, o)))
      BY <1>1, <1>2, <1>4, <2>6
    <3>2. QED
      BY <2>1, <2>3, <3>1, MergeIsUnion
  <2>7. QED
    BY <2>4, <2>5, <2>6
<1>8. QED
  BY <1>6, <1>7

LEMMA InitWhole == Init => Whole
BY DEF Init, Whole, SlicingUnseen

LEMMA StepWhole == Shape /\ Whole /\ [Next]_vars => Whole'
<1> SUFFICES ASSUME Shape, Whole, [Next]_vars
             PROVE  Whole'
  OBVIOUS
<1>1. ASSUME NEW w, Fetch(w)
      PROVE  Whole'
  BY <1>1 DEF Fetch, NoRecords, Whole, SlicingUnseen
<1>2. ASSUME NEW page, AskHalves(page)
      PROVE  Whole'
  BY <1>2 DEF AskHalves, ghosts, Whole, SlicingUnseen
<1>3. ASSUME NEW page \in Answers(Head(todo)), KeepPage(page)
      PROVE  Whole'
  <2>1. page \in SUBSET Rows
    BY DEF Answers, Pages, Within, Shape
  <2>2. /\ pc = "asking" /\ merged' = MergeRecords(merged, Normalise(page))
        /\ got' = got \cup Usable(page)
    BY <1>3 DEF KeepPage
  <2>3. /\ DOMAIN merged' = {r.id : r \in got'}
        /\ \A o \in DOMAIN merged' : merged'[o] = RecordOf({r \in got' : r.id = o})
    BY <2>1, <2>2, PageIsMerged
  <2>4. got' \subseteq Rows
    BY <2>1, <2>2 DEF Whole, Usable
  <2>5. \A rows : RecordOf(rows)' = RecordOf(rows)
    BY DEF RecordOf
  <2>6. QED
    BY <2>3, <2>4 DEF Whole, SlicingUnseen
<1>4. ASSUME NEW page, RaiseOnPage(page)
      PROVE  Whole'
  BY <1>4 DEF RaiseOnPage, ghosts, Whole, SlicingUnseen
<1>5. CASE FailRequest
  BY <1>5 DEF FailRequest, ghosts, Whole, SlicingUnseen
<1>6. CASE Finish
  BY <1>6 DEF Finish, ghosts, Whole, SlicingUnseen
<1>7. ASSUME NEW r, Arrive(r)
      PROVE  Whole'
  BY <1>7 DEF Arrive, ghosts, Whole, SlicingUnseen
<1>8. CASE UNCHANGED vars
  BY <1>8 DEF vars, ghosts, Whole, SlicingUnseen
<1>9. QED
  BY <1>1, <1>2, <1>3, <1>4, <1>5, <1>6, <1>7, <1>8 DEF Next

-----------------------------------------------------------------------------
(* How deep a window is split *)

Width(w) == w.end - w.start

\* A window's width, less one for the rounding of the halves, is what halving
\* has left of a slice; and a split leaves halves of MinSlice at least.
DepthKnown(w) ==
  /\ w.depth \in 0..MaxDepth /\ w.start < w.end
  /\ (Width(w) - 1) * 2^w.depth < span
  /\ w.depth > 0 => (2 * MinSlice - 1) * 2^(w.depth - 1) < span

Deep ==
  /\ \A i \in DOMAIN todo : DepthKnown(todo[i])
  /\ SilenceNeedsLongSlices

LEMMA SlicesDepth ==
  ASSUME NEW w, w.start \in Nat, w.end \in Nat, w.start < w.end,
         span \in Nat \ {0}, NEW i \in DOMAIN Slices(w)
  PROVE  /\ DepthKnown(Slices(w)[i])
         /\ Width(Slices(w)[i]) \in 0..span
<1> DEFINE d == w.end - w.start
           n == (d + span - 1) \div span
<1>1. /\ d \in Nat /\ n \in Nat /\ n * span >= d
      /\ n * span < d + span
  <2>1. d \in Nat
    OBVIOUS
  <2> HIDE DEF d
  <2>2. QED
    BY <2>1, Ceiling
<1>2. i \in 1..n
  BY DEF Slices
<1>3. /\ Slices(w)[i].start = w.start + (i - 1) * span
      /\ Slices(w)[i].end = IF w.start + i * span < w.end THEN w.start + i * span ELSE w.end
      /\ Slices(w)[i].depth = 0
  BY <1>2 DEF Slices
<1> HIDE DEF n
<1>4. i \in Nat \ {0} /\ i <= n
  BY <1>1, <1>2
<1>5. /\ i * span \in Nat /\ (i - 1) * span = i * span - span /\ (i - 1) * span \in Nat
      /\ i * span <= n * span /\ n * span \in Nat
  <2>1. i - 1 \in Nat /\ n - i \in Nat
    BY <1>1, <1>4
  <2>2. (i - 1) * span \in Nat /\ (n - i) * span \in Nat /\ i * span \in Nat /\ n * span \in Nat
    BY <1>1, <1>4, <2>1
  <2>3. (n - i) * span = n * span - i * span
    BY <1>1, <1>4
  <2>4. QED
    BY <1>4, <2>2, <2>3
<1>6. (i - 1) * span < w.end - w.start
  BY <1>1, <1>5
<1> DEFINE s == Slices(w)[i]
<1>7. s.start \in Nat /\ s.end \in Nat /\ s.start < s.end /\ s.end - s.start <= span
  BY <1>3, <1>5, <1>6
<1>8. s.depth = 0
  BY <1>3
<1> HIDE DEF s
<1>9. (Width(s) - 1) * 2^s.depth = Width(s) - 1 /\ Width(s) \in 0..span
  BY <1>7, <1>8, PowersOfTwo DEF Width
<1>10. s.depth \in 0..MaxDepth
  BY <1>8, UdlFetchAssumption
<1>11. DepthKnown(s)
  BY <1>7, <1>8, <1>9, <1>10 DEF DepthKnown
<1>12. QED
  BY <1>9, <1>11 DEF s

LEMMA HalvesDepth ==
  ASSUME NEW w \in Span, DepthKnown(w), NEW n, Splits(w, n), span \in Nat, NEW i \in 1..2
  PROVE  DepthKnown(Halves(w)[i])
<1> DEFINE d == Width(w)
           a == d \div 2
           k == 2^w.depth
           h == Halves(w)[i]
<1>1. /\ w.start \in Nat /\ w.end \in Nat /\ w.depth \in Nat /\ w.start < w.end
      /\ w.depth < MaxDepth /\ a >= MinSlice
  BY DEF Span, DepthKnown, Splits, Half, Width
<1>2. d \in Nat \ {0} /\ a \in Nat /\ 2 * a <= d /\ d <= 2 * a + 1
  BY <1>1 DEF Width
<1>3. k \in Nat \ {0} /\ 2^(w.depth + 1) = 2 * k
  BY <1>1, PowersOfTwo
<1>4. (d - 1) * k < span
  BY DEF DepthKnown
<1>5. /\ h.depth = w.depth + 1 /\ h.start < h.end
      /\ Width(h) = a \/ Width(h) = d - a
  <2>1. /\ Halves(w)[1] = [start |-> w.start, end |-> w.start + a, depth |-> w.depth + 1]
        /\ Halves(w)[2] = [start |-> w.start + a, end |-> w.end, depth |-> w.depth + 1]
    BY DEF Halves, Half, Width
  <2> HIDE DEF a
  <2>2. i = 1 \/ i = 2
    OBVIOUS
  <2>3. CASE i = 1
    <3>1. h = [start |-> w.start, end |-> w.start + a, depth |-> w.depth + 1]
      BY <2>1, <2>3
    <3> HIDE DEF h
    <3>2. QED
      BY <1>1, <1>2, <3>1, UdlFetchAssumption DEF Width
  <2>4. CASE i = 2
    <3>1. h = [start |-> w.start + a, end |-> w.end, depth |-> w.depth + 1]
      BY <2>1, <2>4
    <3> HIDE DEF h
    <3>2. QED
      BY <1>1, <1>2, <3>1, UdlFetchAssumption DEF Width
  <2>5. QED
    BY <2>2, <2>3, <2>4
<1> HIDE DEF d, a, k, h
<1>6. Width(h) \in Nat /\ 2 * Width(h) <= d + 1
  BY <1>2, <1>5
<1>7. (Width(h) - 1) * (2 * k) <= (d - 1) * k
  <2>1. 2 * (Width(h) - 1) <= d - 1 /\ Width(h) - 1 \in Int /\ d - 1 \in Int
    BY <1>2, <1>6
  <2>2. \A x, y \in Int : x <= y => x * k <= y * k
    <3>1. SUFFICES ASSUME NEW x \in Int, NEW y \in Int, x <= y
                   PROVE  x * k <= y * k
      OBVIOUS
    <3>2. y - x \in Nat /\ (y - x) * k \in Nat
      BY <1>3, <3>1
    <3>3. (y - x) * k = y * k - x * k /\ x * k \in Int /\ y * k \in Int
      BY <1>3
    <3>4. QED
      BY <3>2, <3>3
  <2>3. (2 * (Width(h) - 1)) * k <= (d - 1) * k
    BY <2>1, <2>2
  <2>4. (2 * (Width(h) - 1)) * k = (Width(h) - 1) * (2 * k)
    BY <1>3, <2>1
  <2>5. QED
    BY <2>3, <2>4
<1>8. (2 * MinSlice - 1) * k <= (d - 1) * k
  <2>1. MinSlice \in Nat /\ 2 * MinSlice - 1 \in Int /\ d - 1 \in Int /\ d - 2 * MinSlice \in Nat
    BY <1>1, <1>2, UdlFetchAssumption
  <2>2. (d - 2 * MinSlice) * k \in Nat
    BY <1>3, <2>1
  <2>3. (d - 2 * MinSlice) * k = (d - 1) * k - (2 * MinSlice - 1) * k
    BY <1>2, <1>3, <2>1
  <2>4. (d - 1) * k \in Int /\ (2 * MinSlice - 1) * k \in Int
    BY <1>3, <2>1
  <2>5. QED
    BY <2>2, <2>3, <2>4
<1>9. /\ (Width(h) - 1) * (2 * k) \in Int /\ (d - 1) * k \in Int
      /\ (2 * MinSlice - 1) * k \in Int
  BY <1>2, <1>3, <1>6, UdlFetchAssumption
<1>10. (Width(h) - 1) * 2^h.depth < span
  <2>1. 2^h.depth = 2 * k
    BY <1>3, <1>5
  <2>2. QED
    BY <1>4, <1>7, <1>9, <2>1
<1>11. (2 * MinSlice - 1) * 2^(h.depth - 1) < span
  <2>1. h.depth - 1 = w.depth
    BY <1>1, <1>5
  <2>2. QED
    BY <1>4, <1>8, <1>9, <2>1 DEF k
<1>12. h.depth \in 0..MaxDepth
  BY <1>1, <1>5, UdlFetchAssumption
<1>13. QED
  BY <1>5, <1>10, <1>11, <1>12 DEF DepthKnown, h

\* What holds of every window of the list, of what replaces the head, and of
\* what is left holds of every window of the new list.
LEMMA NewList ==
  ASSUME NEW s \in Seq(Span), s # <<>>, NEW h \in Seq(Span), NEW i \in DOMAIN (h \o Tail(s))
  PROVE  \/ i \in DOMAIN h /\ (h \o Tail(s))[i] = h[i]
         \/ /\ i > Len(h) /\ i - Len(h) + 1 \in DOMAIN s
            /\ (h \o Tail(s))[i] = s[i - Len(h) + 1]
<1>1. Tail(s) \in Seq(Span) /\ Len(Tail(s)) = Len(s) - 1 /\ Len(s) \in Nat \ {0} /\ Len(h) \in Nat
  OBVIOUS
<1>2. i \in 1..(Len(h) + (Len(s) - 1))
  BY <1>1
<1>3. CASE i <= Len(h)
  BY <1>1, <1>2, <1>3
<1>4. CASE i > Len(h)
  <2>1. i - Len(h) \in 1..(Len(s) - 1)
    BY <1>1, <1>2, <1>4
  <2>2. (h \o Tail(s))[i] = Tail(s)[i - Len(h)]
    BY <1>1, <1>2, <1>4
  <2>3. \A j \in 1..(Len(s) - 1) : Tail(s)[j] = s[j + 1] /\ j + 1 \in DOMAIN s
    BY <1>1
  <2>4. QED
    BY <1>4, <2>1, <2>2, <2>3
<1>5. QED
  BY <1>1, <1>2, <1>3, <1>4

LEMMA TailList ==
  ASSUME NEW s \in Seq(Span), s # <<>>, NEW i \in DOMAIN Tail(s)
  PROVE  i + 1 \in DOMAIN s /\ Tail(s)[i] = s[i + 1]
OBVIOUS

LEMMA InitDeep == Init => Deep
BY DEF Init, Deep, SilenceNeedsLongSlices

LEMMA StepDeep == Shape /\ Deep /\ [Next]_vars => Deep'
<1> SUFFICES ASSUME Shape, Deep, [Next]_vars
             PROVE  Deep'
  OBVIOUS
<1> USE DEF Deep
<1>t. todo \in Seq(Span) /\ span \in Nat \ {0}
  BY DEF Shape
<1>s. span' = span /\ (cut' \subseteq cut => SilenceNeedsLongSlices')
  <2>1. span' = span
    BY DEF Next, Fetch, AskHalves, KeepPage, RaiseOnPage, FailRequest, Finish, Arrive, vars
  <2>2. QED
    BY <2>1 DEF SilenceNeedsLongSlices
<1>f. todo # <<>> => Head(todo) = todo[1] /\ 1 \in DOMAIN todo
  BY <1>t
<1>1. ASSUME NEW w \in Windows, Fetch(w)
      PROVE  Deep'
  <2>1. w.start \in Nat /\ w.end \in Nat /\ w.start < w.end
    BY UdlFetchAssumption
  <2>2. todo' = Slices(w) /\ cut' = {}
    BY <1>1 DEF Fetch
  <2>3. \A i \in DOMAIN todo' : DepthKnown(todo'[i])
    BY <1>t, <2>1, <2>2, SlicesDepth
  <2>4. QED
    BY <1>s, <2>2, <2>3 DEF DepthKnown, Width
<1>2. ASSUME NEW page, AskHalves(page)
      PROVE  Deep'
  <2> DEFINE w == Head(todo)
  <2>1. /\ todo # <<>> /\ todo' = Halves(w) \o Tail(todo) /\ cut' = cut
        /\ Splits(w, Cardinality(page))
    BY <1>2 DEF AskHalves, ghosts
  <2>2. w \in Span /\ DepthKnown(w)
    BY <1>f, <1>t, <2>1
  <2> HIDE DEF w
  <2>3. \A i \in 1..2 : DepthKnown(Halves(w)[i])
    BY <1>t, <2>1, <2>2, HalvesDepth
  <2>4. Halves(w) \in Seq(Span) /\ Len(Halves(w)) = 2
    BY <2>2, HalvesCover
  <2>5. ASSUME NEW i \in DOMAIN todo'
        PROVE  DepthKnown(todo'[i])
    BY <1>t, <2>1, <2>3, <2>4, <2>5, NewList
  <2>6. QED
    BY <1>s, <2>1, <2>5 DEF DepthKnown, Width
<1>3. ASSUME NEW page, KeepPage(page)
      PROVE  Deep'
  <2> DEFINE w == Head(todo)
  <2>1. /\ todo # <<>> /\ todo' = Tail(todo)
        /\ cut' \subseteq cut \cup {w}
    BY <1>3 DEF KeepPage
  <2>2. w \in Span /\ DepthKnown(w)
    BY <1>f, <1>t, <2>1
  <2> HIDE DEF w
  <2>3. \A i \in DOMAIN todo' : DepthKnown(todo'[i])
    BY <1>t, <2>1, TailList
  <2>4. SilenceNeedsLongSlices'
    <3>1. SUFFICES ASSUME w.depth >= MaxDepth
                   PROVE  span > (2 * MinSlice - 1) * 2^(MaxDepth - 1)
      BY <1>s, <2>1 DEF SilenceNeedsLongSlices
    <3>2. w.depth = MaxDepth /\ MaxDepth > 0
      BY <2>2, <3>1, UdlFetchAssumption DEF DepthKnown
    <3>3. (2 * MinSlice - 1) * 2^(MaxDepth - 1) < span
      BY <2>2, <3>2 DEF DepthKnown
    <3>4. (2 * MinSlice - 1) * 2^(MaxDepth - 1) \in Int
      <4>1. MaxDepth - 1 \in Nat
        BY UdlFetchAssumption
      <4>2. 2^(MaxDepth - 1) \in Nat
        BY <4>1, PowersOfTwo
      <4>3. QED
        BY <4>2, UdlFetchAssumption
    <3>5. QED
      BY <1>t, <3>3, <3>4
  <2>5. QED
    BY <1>s, <2>3, <2>4 DEF DepthKnown, Width
<1>4. ASSUME NEW page, RaiseOnPage(page)
      PROVE  Deep'
  BY <1>4, <1>s DEF RaiseOnPage, ghosts
<1>5. CASE FailRequest
  <2>1. todo # <<>> /\ todo' = Tail(todo) /\ cut' = cut
    BY <1>5 DEF FailRequest, ghosts
  <2>2. \A i \in DOMAIN todo' : DepthKnown(todo'[i])
    BY <1>t, <2>1, TailList
  <2>3. QED
    BY <1>s, <2>1, <2>2 DEF DepthKnown, Width
<1>6. CASE Finish
  BY <1>6, <1>s DEF Finish, ghosts, DepthKnown, Width
<1>7. ASSUME NEW r, Arrive(r)
      PROVE  Deep'
  BY <1>7, <1>s DEF Arrive, ghosts, DepthKnown, Width
<1>8. CASE UNCHANGED vars
  BY <1>8, <1>s DEF vars, ghosts, DepthKnown, Width
<1>9. QED
  BY <1>1, <1>2, <1>3, <1>4, <1>5, <1>6, <1>7, <1>8 DEF Next

-----------------------------------------------------------------------------
(* What a fetch may still cost *)

\* The requests that a window may take: a full binary tree whose leaves are
\* MinSlice long.
Budget(w) ==
  IF Width(w) < MinSlice THEN 1 ELSE 2 * (Width(w) \div MinSlice) - 1

SliceCount == Cardinality({i \in 1..asked.end : (i - 1) * span < asked.end - asked.start})
Fund == SliceCount * (2 * (span \div MinSlice) - 1)

\* rest[i] is what remains of the fund once the first i windows are served.
Affordable ==
  /\ asked \in Windows /\ stats.requests \in Nat
  /\ MinSlice <= span /\ Fund \in Nat
  /\ \E rest \in [0..Len(todo) -> Nat] :
       /\ stats.requests + rest[0] <= Fund
       /\ \A i \in 1..Len(todo) : rest[i] + Budget(todo[i]) <= rest[i - 1]

LEMMA BudgetType ==
  ASSUME NEW w \in Span, w.start < w.end
  PROVE  Budget(w) \in Nat \ {0}
<1>1. Width(w) \in Nat /\ MinSlice \in Nat \ {0}
  BY UdlFetchAssumption DEF Width, Span
<1>2. ASSUME Width(w) >= MinSlice
      PROVE  Width(w) \div MinSlice \in Nat \ {0}
  <2>1. \A d \in Nat, m \in Nat \ {0} : d >= m => d \div m \in Nat /\ d \div m >= 1
    OBVIOUS
  <2>2. QED
    BY <1>1, <1>2, <2>1
<1>3. QED
  BY <1>1, <1>2 DEF Budget

\* A sum of whole parts is no more than the whole part of the sum.
LEMMA WholeParts ==
  ASSUME NEW a \in Nat, NEW b \in Nat, NEW m \in Nat \ {0}
  PROVE  (a \div m) + (b \div m) <= (a + b) \div m
<1> DEFINE x == a \div m
           y == b \div m
           z == (a + b) \div m
<1>1. /\ x \in Nat /\ m * x <= a
      /\ y \in Nat /\ m * y <= b
      /\ z \in Nat /\ a + b < m * z + m
  OBVIOUS
<1> HIDE DEF x, y, z
<1>2. m * (x + y) < m * z + m
  <2>1. m * (x + y) = m * x + m * y /\ m * x \in Nat /\ m * y \in Nat /\ m * z \in Nat
    BY <1>1
  <2>2. QED
    BY <1>1, <2>1
<1>3. (x + y) * m < (z + 1) * m
  BY <1>1, <1>2
<1>4. x + y <= z
  BY <1>1, <1>3, Steps
<1>5. QED
  BY <1>4 DEF x, y, z

LEMMA HalvesBudget ==
  ASSUME NEW w \in Span, w.start < w.end, NEW n, Splits(w, n)
  PROVE  /\ Budget(Halves(w)[1]) + Budget(Halves(w)[2]) + 1 <= Budget(w)
         /\ Budget(Halves(w)[1]) \in Nat /\ Budget(Halves(w)[2]) \in Nat
<1> DEFINE d == Width(w)
           a == d \div 2
           m == MinSlice
<1>1. /\ w.start \in Nat /\ w.end \in Nat /\ w.depth \in Nat /\ d \in Nat
      /\ m \in Nat \ {0}
  BY UdlFetchAssumption DEF Span, Width
<1>2. a \in Nat /\ d - a \in Nat /\ a <= d - a /\ a >= m
  <2>1. a >= m
    BY DEF Splits, Half, Width
  <2>2. QED
    BY <1>1, <2>1
<1>3. Width(Halves(w)[1]) = a /\ Width(Halves(w)[2]) = d - a
  <2>1. /\ Halves(w)[1] = [start |-> w.start, end |-> w.start + a, depth |-> w.depth + 1]
        /\ Halves(w)[2] = [start |-> w.start + a, end |-> w.end, depth |-> w.depth + 1]
    BY DEF Halves, Half, Width
  <2>2. d = w.end - w.start
    BY DEF Width
  <2> HIDE DEF d, a
  <2>3. QED
    BY <1>1, <1>2, <2>1, <2>2 DEF Width
<1> HIDE DEF d, a
<1>4. (a \div m) + ((d - a) \div m) <= d \div m
  <2>1. a + (d - a) = d
    BY <1>1, <1>2
  <2> HIDE DEF m
  <2>2. QED
    BY <1>1, <1>2, <2>1, WholeParts
<1>5. /\ Budget(Halves(w)[1]) = 2 * (a \div m) - 1
      /\ Budget(Halves(w)[2]) = 2 * ((d - a) \div m) - 1
      /\ Budget(w) = 2 * (d \div m) - 1
  <2>1. ~(a < m) /\ ~(d - a < m) /\ ~(d < m)
    BY <1>1, <1>2
  <2>2. QED
    BY <1>3, <2>1 DEF Budget, d
<1>6. /\ a \div m \in Nat \ {0} /\ (d - a) \div m \in Nat \ {0} /\ d \div m \in Nat \ {0}
  <2>1. \A x \in Nat, y \in Nat \ {0} : x >= y => x \div y \in Nat \ {0}
    OBVIOUS
  <2>2. d - a >= m /\ d >= m
    BY <1>1, <1>2
  <2>3. QED
    BY <1>1, <1>2, <2>1, <2>2
<1> HIDE DEF m
<1>7. QED
  BY <1>4, <1>5, <1>6

\* As many slices as the bound counts, and each costs no more than a whole one.
LEMMA SlicesBudget ==
  ASSUME NEW w, w.start \in Nat, w.end \in Nat, w.start < w.end,
         span \in Nat \ {0}, MinSlice <= span
  PROVE  /\ Len(Slices(w)) = Cardinality({i \in 1..w.end : (i - 1) * span < w.end - w.start})
         /\ Len(Slices(w)) \in Nat
         /\ \A i \in DOMAIN Slices(w) : Budget(Slices(w)[i]) <= 2 * (span \div MinSlice) - 1
<1> DEFINE d == w.end - w.start
           n == (d + span - 1) \div span
           I == {i \in 1..w.end : (i - 1) * span < w.end - w.start}
<1>1. d \in Nat \ {0} /\ n \in Nat /\ n * span >= d /\ n * span < d + span
  <2>1. d \in Nat \ {0}
    OBVIOUS
  <2> HIDE DEF d
  <2>2. QED
    BY <2>1, Ceiling
<1>2. Slices(w) \in Seq(Span) /\ DOMAIN Slices(w) = 1..n
  <2>1. Slices(w) \in Seq(Span)
    BY SlicesCover
  <2>2. QED
    BY <2>1 DEF Slices
<1> HIDE DEF n
<1>3. Len(Slices(w)) = n
  BY <1>1, <1>2
<1>4. I = 1..n
  <2>1. ASSUME NEW i \in 1..n
        PROVE  i \in I
    <3>1. n - i \in Nat /\ i - 1 \in Nat /\ i \in Nat
      BY <1>1
    <3>2. (n - i) * span \in Nat /\ (n - i) * span = n * span - i * span
          /\ (i - 1) * span = i * span - span /\ (i - 1) * span \in Nat /\ i * span \in Nat
          /\ n * span \in Nat
      BY <1>1, <3>1
    <3>3. (i - 1) * span < d
      BY <1>1, <3>2
    <3>4. i - 1 <= (i - 1) * span
      <4>1. (i - 1) * (span - 1) \in Nat
        <5>1. span - 1 \in Nat
          OBVIOUS
        <5>2. QED
          BY <3>1, <5>1
      <4>2. (i - 1) * (span - 1) = (i - 1) * span - (i - 1)
        BY <3>1
      <4>3. QED
        BY <3>1, <3>2, <4>1, <4>2
    <3>5. i <= w.end
      BY <1>1, <3>1, <3>2, <3>3, <3>4
    <3>6. QED
      BY <3>1, <3>3, <3>5
  <2>2. ASSUME NEW i \in I
        PROVE  i \in 1..n
    <3>1. i \in Nat /\ i >= 1 /\ i - 1 \in Nat /\ (i - 1) * span < d
      OBVIOUS
    <3>2. (i - 1) * span < ((n - 1) + 1) * span
      <4>1. (n - 1) + 1 = n
        BY <1>1
      <4>2. (i - 1) * span \in Nat /\ n * span \in Nat
        BY <1>1, <3>1
      <4>3. QED
        BY <1>1, <3>1, <4>1, <4>2
    <3>3. n - 1 \in Nat
      BY <1>1
    <3>4. i - 1 <= n - 1
      BY <3>1, <3>2, <3>3, Steps
    <3>5. QED
      BY <1>1, <3>1, <3>4
  <2> HIDE DEF I
  <2>3. QED
    BY <2>1, <2>2
<1>5. Cardinality(I) = n
  <2>1. \A m \in Nat : Cardinality(1..m) = m
    BY FS_Interval
  <2>2. QED
    BY <1>1, <1>4, <2>1
<1>6. ASSUME NEW i \in DOMAIN Slices(w)
      PROVE  Budget(Slices(w)[i]) <= 2 * (span \div MinSlice) - 1
  <2>1. Width(Slices(w)[i]) \in 0..span
    BY SlicesDepth
  <2>2. \A x \in Nat, y \in Nat, m \in Nat \ {0} : x <= y => x \div m <= y \div m
    <3>1. SUFFICES ASSUME NEW x \in Nat, NEW y \in Nat, NEW m \in Nat \ {0}, x <= y
                   PROVE  x \div m <= y \div m
      OBVIOUS
    <3>2. (x \div m) + ((y - x) \div m) <= (x + (y - x)) \div m
      <4>1. y - x \in Nat
        BY <3>1
      <4>2. QED
        BY <4>1, WholeParts
    <3>3. x + (y - x) = y /\ (y - x) \div m \in Nat /\ x \div m \in Nat /\ y \div m \in Nat
      BY <3>1
    <3>4. QED
      BY <3>2, <3>3
  <2>3. span \div MinSlice \in Nat \ {0}
    <3>1. \A x \in Nat, y \in Nat \ {0} : x >= y => x \div y \in Nat \ {0}
      OBVIOUS
    <3>2. QED
      BY <3>1, UdlFetchAssumption
  <2>4. Width(Slices(w)[i]) \div MinSlice <= span \div MinSlice
        /\ Width(Slices(w)[i]) \div MinSlice \in Nat
    BY <2>1, <2>2, UdlFetchAssumption
  <2>5. QED
    BY <2>3, <2>4 DEF Budget
<1>7. QED
  BY <1>1, <1>3, <1>5, <1>6

LEMMA FundType ==
  ASSUME asked \in Windows, span \in Nat \ {0}, MinSlice <= span
  PROVE  Fund \in Nat
<1>1. asked.end \in Nat
  BY UdlFetchAssumption
<1>2. IsFiniteSet({i \in 1..asked.end : (i - 1) * span < asked.end - asked.start})
  <2>1. \A m \in Nat : IsFiniteSet(1..m)
    BY FS_Interval
  <2>2. QED
    BY <1>1, <2>1, FS_Subset
<1>3. SliceCount \in Nat
  BY <1>2, FS_CardinalityType DEF SliceCount
<1>4. 2 * (span \div MinSlice) - 1 \in Nat
  <2>1. \A x \in Nat, y \in Nat \ {0} : x >= y => x \div y \in Nat \ {0}
    OBVIOUS
  <2>2. span \div MinSlice \in Nat \ {0}
    BY <2>1, UdlFetchAssumption
  <2>3. QED
    BY <2>2
<1>5. QED
  BY <1>3, <1>4 DEF Fund

LEMMA InitAffordable == Init => Affordable
<1> SUFFICES ASSUME Init
             PROVE  Affordable
  OBVIOUS
<1>1. /\ asked \in Windows /\ span \in Nat \ {0} /\ MinSlice <= span
      /\ todo = <<>> /\ stats.requests = 0
  BY UdlFetchAssumption DEF Init, NoStats
<1>2. Fund \in Nat
  BY <1>1, FundType
<1> DEFINE rest == [i \in 0..0 |-> 0]
<1>3. rest \in [0..Len(todo) -> Nat] /\ rest[0] = 0 /\ Len(todo) = 0
  BY <1>1
<1>4. stats.requests + rest[0] <= Fund
  BY <1>1, <1>2, <1>3
<1> HIDE DEF rest
<1>5. \A i \in 1..Len(todo) : rest[i] + Budget(todo[i]) <= rest[i - 1]
  BY <1>3
<1>6. QED
  BY <1>1, <1>2, <1>3, <1>4, <1>5 DEF Affordable

\* Serving the head of the list costs at least one request.
LEMMA TailAffordable ==
  ASSUME todo \in Seq(Span), todo # <<>>, Affordable,
         \A i \in DOMAIN todo : todo[i].start < todo[i].end,
         NEW n \in Nat, n = stats.requests + 1
  PROVE  \E rest \in [0..Len(Tail(todo)) -> Nat] :
           /\ n + rest[0] <= Fund
           /\ \A i \in 1..Len(Tail(todo)) : rest[i] + Budget(Tail(todo)[i]) <= rest[i - 1]
<1>1. PICK old \in [0..Len(todo) -> Nat] :
        /\ stats.requests + old[0] <= Fund
        /\ \A i \in 1..Len(todo) : old[i] + Budget(todo[i]) <= old[i - 1]
  BY DEF Affordable
<1>2. /\ Len(todo) \in Nat \ {0} /\ Len(Tail(todo)) = Len(todo) - 1
      /\ \A i \in 1..Len(Tail(todo)) : Tail(todo)[i] = todo[i + 1]
  OBVIOUS
<1> DEFINE rest == [i \in 0..Len(Tail(todo)) |-> old[i + 1]]
<1>3. rest \in [0..Len(Tail(todo)) -> Nat]
  BY <1>1, <1>2
<1>4. old[1] + 1 <= old[0] /\ old[0] \in Nat /\ old[1] \in Nat
  <2>1. 1 \in 1..Len(todo) /\ 0 \in 0..Len(todo) /\ 1 \in 0..Len(todo)
    BY <1>2
  <2>2. todo[1] \in Span /\ todo[1].start < todo[1].end
    BY <2>1
  <2>3. Budget(todo[1]) \in Nat \ {0}
    BY <2>2, BudgetType
  <2>4. old[1] + Budget(todo[1]) <= old[1 - 1] /\ 1 - 1 = 0
    BY <1>1, <2>1
  <2>5. old[0] \in Nat /\ old[1] \in Nat
    BY <1>1, <2>1
  <2>6. QED
    BY <2>3, <2>4, <2>5
<1>5. rest[0] = old[1]
  BY <1>2
<1>6. ASSUME NEW i \in 1..Len(Tail(todo))
      PROVE  rest[i] + Budget(Tail(todo)[i]) <= rest[i - 1]
  <2>1. /\ i + 1 \in 1..Len(todo) /\ i \in 0..Len(Tail(todo)) /\ i - 1 \in 0..Len(Tail(todo))
        /\ (i - 1) + 1 = i /\ (i + 1) - 1 = i
    BY <1>2
  <2>2. old[i + 1] + Budget(todo[i + 1]) <= old[(i + 1) - 1]
    BY <1>1, <2>1
  <2>3. rest[i] = old[i + 1] /\ rest[i - 1] = old[i]
    BY <2>1
  <2>4. QED
    BY <1>2, <2>1, <2>2, <2>3
<1>7. n + rest[0] <= Fund
  <2>1. stats.requests \in Nat /\ Fund \in Nat
    BY DEF Affordable
  <2>2. QED
    BY <1>1, <1>4, <1>5, <2>1
<1> HIDE DEF rest
<1>8. QED
  BY <1>3, <1>6, <1>7

LEMMA PairAhead ==
  ASSUME NEW s \in Seq(Span), s # <<>>, NEW h \in Seq(Span), Len(h) = 2
  PROVE  /\ Len(s) \in Nat \ {0} /\ Len(h \o Tail(s)) = Len(s) + 1
         /\ (h \o Tail(s))[1] = h[1] /\ (h \o Tail(s))[2] = h[2]
         /\ \A i \in 1..Len(h \o Tail(s)) : i > 2 => (h \o Tail(s))[i] = s[i - 1]
<1>1. Tail(s) \in Seq(Span) /\ Len(Tail(s)) = Len(s) - 1 /\ Len(s) \in Nat \ {0}
  OBVIOUS
<1>2. Len(h \o Tail(s)) = Len(s) + 1
  <2>1. \A x, y \in Seq(Span) : Len(x \o y) = Len(x) + Len(y)
    OBVIOUS
  <2>2. Len(h \o Tail(s)) = 2 + (Len(s) - 1)
    BY <1>1, <2>1, Zenon
  <2>3. \A n \in Nat \ {0} : 2 + (n - 1) = n + 1
    OBVIOUS
  <2>4. QED
    BY <1>1, <2>2, <2>3, Zenon
<1>3. 1 \in DOMAIN h /\ 2 \in DOMAIN h
  OBVIOUS
<1>4. (h \o Tail(s))[1] = h[1] /\ (h \o Tail(s))[2] = h[2]
  BY <1>3, TailKept
<1>5. ASSUME NEW i \in 1..Len(h \o Tail(s)), i > 2
      PROVE  (h \o Tail(s))[i] = s[i - 1]
  <2>1. i \in DOMAIN (h \o Tail(s))
    BY <1>1
  <2>2. i \in DOMAIN h \/ (h \o Tail(s))[i] = s[i - Len(h) + 1]
    BY <2>1, NewList
  <2>3. i - Len(h) + 1 = i - 1 /\ i \notin DOMAIN h
    BY <1>1, <1>2, <1>5
  <2>4. QED
    BY <2>2, <2>3
<1>6. QED
  BY <1>1, <1>2, <1>4, <1>5

LEMMA HalvesAffordable ==
  ASSUME todo \in Seq(Span), todo # <<>>, Affordable,
         todo[1].start < todo[1].end, NEW k, Splits(todo[1], k),
         NEW n \in Nat, n = stats.requests + 1,
         NEW list, list = Halves(todo[1]) \o Tail(todo)
  PROVE  \E rest \in [0..Len(list) -> Nat] :
           /\ n + rest[0] <= Fund
           /\ \A i \in 1..Len(list) : rest[i] + Budget(list[i]) <= rest[i - 1]
<1>1. PICK old \in [0..Len(todo) -> Nat] :
        /\ stats.requests + old[0] <= Fund
        /\ \A i \in 1..Len(todo) : old[i] + Budget(todo[i]) <= old[i - 1]
  BY DEF Affordable
<1> DEFINE h == Halves(todo[1])
           one == Budget(h[1])
           two == Budget(h[2])
<1>2. todo[1] \in Span
  OBVIOUS
<1>3. h \in Seq(Span) /\ Len(h) = 2
  BY <1>2, HalvesCover
<1>4. /\ Len(todo) \in Nat \ {0} /\ Len(list) = Len(todo) + 1
      /\ list[1] = h[1] /\ list[2] = h[2]
      /\ \A i \in 1..Len(list) : i > 2 => list[i] = todo[i - 1]
  BY <1>3, PairAhead, Zenon
<1>5. one + two + 1 <= Budget(todo[1]) /\ one \in Nat /\ two \in Nat /\ Budget(todo[1]) \in Nat
  BY <1>2, HalvesBudget, BudgetType
<1>6. old[1] + Budget(todo[1]) <= old[0] /\ old[0] \in Nat /\ old[1] \in Nat
  <2>1. 1 \in 1..Len(todo) /\ 0 \in 0..Len(todo) /\ 1 \in 0..Len(todo) /\ 1 - 1 = 0
    BY <1>4
  <2>2. QED
    BY <1>1, <2>1
<1> HIDE DEF h, one, two
<1> DEFINE rest == [i \in 0..Len(list) |->
                      IF i = 0 THEN old[0] - 1
                      ELSE IF i = 1 THEN old[1] + two
                      ELSE old[i - 1]]
<1>7. rest \in [0..Len(list) -> Nat]
  <2>1. ASSUME NEW i \in 0..Len(list), i > 1
        PROVE  old[i - 1] \in Nat
    <3>1. i - 1 \in 0..Len(todo)
      BY <1>4, <2>1
    <3>2. QED
      BY <3>1
  <2>2. old[0] - 1 \in Nat /\ old[1] + two \in Nat
    BY <1>5, <1>6
  <2>3. \A i \in 0..Len(list) : i = 0 \/ i = 1 \/ i > 1
    BY <1>4
  <2>4. QED
    BY <2>1, <2>2, <2>3
<1>8. /\ rest[0] = old[0] - 1 /\ rest[1] = old[1] + two /\ rest[2] = old[1]
      /\ \A i \in 2..Len(list) : rest[i] = old[i - 1]
  BY <1>4
<1> HIDE DEF rest
<1>9. n + rest[0] <= Fund
  <2>1. stats.requests \in Nat /\ Fund \in Nat
    BY DEF Affordable
  <2>2. n + rest[0] = stats.requests + old[0]
    BY <1>6, <1>8, <2>1
  <2>3. QED
    BY <1>1, <2>1, <2>2
<1>10. ASSUME NEW i \in 1..Len(list)
       PROVE  rest[i] + Budget(list[i]) <= rest[i - 1]
  <2>1. CASE i = 1
    <3>1. rest[1] + Budget(list[1]) <= rest[0]
      BY <1>4, <1>5, <1>6, <1>8 DEF one
    <3>2. QED
      BY <2>1, <3>1
  <2>2. CASE i = 2
    <3>1. rest[2] + Budget(list[2]) <= rest[1]
      BY <1>4, <1>5, <1>6, <1>8 DEF two
    <3>2. QED
      BY <2>2, <3>1
  <2>3. CASE i > 2
    <3>1. /\ i - 1 \in 1..Len(todo) /\ i \in 2..Len(list) /\ i - 1 \in 2..Len(list)
      BY <1>4, <2>3
    <3>2. old[i - 1] + Budget(todo[i - 1]) <= old[(i - 1) - 1]
      BY <1>1, <3>1
    <3>3. rest[i] = old[i - 1] /\ rest[i - 1] = old[(i - 1) - 1]
      BY <1>8, <3>1
    <3>4. list[i] = todo[i - 1]
      BY <1>4, <2>3
    <3>5. QED
      BY <3>2, <3>3, <3>4
  <2>4. i = 1 \/ i = 2 \/ i > 2
    BY <1>4
  <2>5. QED
    BY <2>1, <2>2, <2>3, <2>4
<1>11. QED
  BY <1>7, <1>9, <1>10

LEMMA SlicesAffordable ==
  ASSUME NEW w \in Windows, span \in Nat \ {0}, MinSlice <= span, NEW fund \in Nat,
         fund = Cardinality({i \in 1..w.end : (i - 1) * span < w.end - w.start})
                  * (2 * (span \div MinSlice) - 1)
  PROVE  \E rest \in [0..Len(Slices(w)) -> Nat] :
           /\ 0 + rest[0] <= fund
           /\ \A i \in 1..Len(Slices(w)) : rest[i] + Budget(Slices(w)[i]) <= rest[i - 1]
<1>1. w.start \in Nat /\ w.end \in Nat /\ w.start < w.end
  BY UdlFetchAssumption
<1> DEFINE n == Len(Slices(w))
           c == 2 * (span \div MinSlice) - 1
<1>2. c \in Nat
  <2>1. \A x \in Nat, y \in Nat \ {0} : x >= y => x \div y \in Nat \ {0}
    OBVIOUS
  <2>2. span \div MinSlice \in Nat \ {0}
    BY <2>1, UdlFetchAssumption
  <2>3. QED
    BY <2>2
<1>3. /\ n = Cardinality({i \in 1..w.end : (i - 1) * span < w.end - w.start})
      /\ n \in Nat /\ \A i \in DOMAIN Slices(w) : Budget(Slices(w)[i]) <= c
  BY <1>1, SlicesBudget
<1>4. fund = n * c
  BY <1>3
<1>5. \A i \in 1..n : Budget(Slices(w)[i]) \in Nat /\ Budget(Slices(w)[i]) <= c
  <2>1. Slices(w) \in Seq(Span)
    BY <1>1, SlicesCover
  <2>2. ASSUME NEW i \in 1..n
        PROVE  Budget(Slices(w)[i]) \in Nat
    <3>1. Slices(w)[i] \in Span /\ i \in DOMAIN Slices(w)
      BY <2>1
    <3>2. Slices(w)[i].start < Slices(w)[i].end
      BY <1>1, <3>1, SlicesDepth DEF DepthKnown
    <3>3. QED
      BY <3>1, <3>2, BudgetType
  <2>3. DOMAIN Slices(w) = 1..n
    BY <2>1
  <2>4. QED
    BY <1>3, <2>2, <2>3
<1> HIDE DEF n, c
<1> DEFINE rest == [i \in 0..n |-> (n - i) * c]
<1>6. rest \in [0..n -> Nat]
  <2>1. \A i \in 0..n : n - i \in Nat
    BY <1>3
  <2>2. \A i \in 0..n : (n - i) * c \in Nat
    BY <1>2, <2>1
  <2>3. QED
    BY <2>2
<1>7. rest[0] = fund
  BY <1>2, <1>3, <1>4
<1>8. ASSUME NEW i \in 1..n
      PROVE  rest[i] + Budget(Slices(w)[i]) <= rest[i - 1]
  <2>1. i \in 0..n /\ i - 1 \in 0..n
    BY <1>3
  <2>2. rest[i] = (n - i) * c /\ rest[i - 1] = (n - (i - 1)) * c
    BY <2>1
  <2>3. (n - (i - 1)) * c = (n - i) * c + c /\ (n - i) * c \in Int
    BY <1>2, <1>3
  <2>4. QED
    BY <1>2, <1>5, <2>2, <2>3
<1> HIDE DEF rest
<1>9. 0 + rest[0] <= fund
  BY <1>7
<1>10. \E r \in [0..n -> Nat] :
         /\ 0 + r[0] <= fund
         /\ \A i \in 1..n : r[i] + Budget(Slices(w)[i]) <= r[i - 1]
  BY <1>6, <1>8, <1>9
<1>11. QED
  BY <1>10 DEF n

LEMMA StepAffordable == Shape /\ Deep /\ Affordable /\ [Next]_vars => Affordable'
<1> SUFFICES ASSUME Shape, Deep, Affordable, [Next]_vars
             PROVE  Affordable'
  OBVIOUS
<1>t. todo \in Seq(Span) /\ span \in Nat \ {0} /\ asked \in Windows /\ stats.requests \in Nat
  BY DEF Shape, Affordable
<1>f. todo # <<>> => Head(todo) = todo[1] /\ 1 \in DOMAIN todo
  BY <1>t
<1>w. \A i \in DOMAIN todo : todo[i].start < todo[i].end
  BY DEF Deep, DepthKnown
<1>s. span' = span
  BY DEF Next, Fetch, AskHalves, KeepPage, RaiseOnPage, FailRequest, Finish, Arrive, vars
<1>u. asked' = asked => Fund' = Fund
  BY <1>s DEF Fund, SliceCount
<1>b. \A w : Budget(w)' = Budget(w')
  BY DEF Budget, Width
<1>n. ASSUME UNCHANGED asked, NEW n \in Nat, stats'.requests = n,
             \E rest \in [0..Len(todo') -> Nat] :
               /\ n + rest[0] <= Fund
               /\ \A i \in 1..Len(todo') : rest[i] + Budget(todo'[i]) <= rest[i - 1]
      PROVE  Affordable'
  BY <1>n, <1>s, <1>u, <1>b, <1>t DEF Affordable
<1>1. ASSUME NEW w \in Windows, Fetch(w)
      PROVE  Affordable'
  <2>1. /\ todo' = Slices(w) /\ stats'.requests = 0 /\ asked' = w
    BY <1>1 DEF Fetch, NoStats
  <2>2. MinSlice <= span
    BY DEF Affordable
  <2>3. Fund' = Cardinality({i \in 1..w.end : (i - 1) * span < w.end - w.start})
                  * (2 * (span \div MinSlice) - 1)
    BY <1>s, <2>1 DEF Fund, SliceCount
  <2>4. Fund' \in Nat
    <3>1. ASSUME NEW v \in Windows
          PROVE  /\ IsFiniteSet({i \in 1..v.end : (i - 1) * span < v.end - v.start})
                 /\ Cardinality({i \in 1..v.end : (i - 1) * span < v.end - v.start}) \in Nat
      <4>1. v.end \in Nat /\ \A m \in Nat : IsFiniteSet(1..m)
        BY UdlFetchAssumption, FS_Interval
      <4>2. QED
        BY <4>1, FS_Subset, FS_CardinalityType
    <3>2. 2 * (span \div MinSlice) - 1 \in Nat
      <4>1. \A x \in Nat, y \in Nat \ {0} : x >= y => x \div y \in Nat \ {0}
        OBVIOUS
      <4>2. span \div MinSlice \in Nat \ {0}
        BY <1>t, <2>2, <4>1, UdlFetchAssumption
      <4>3. QED
        BY <4>2
    <3>3. QED
      BY <2>3, <3>1, <3>2
  <2>5. \E rest \in [0..Len(todo') -> Nat] :
          /\ 0 + rest[0] <= Fund'
          /\ \A i \in 1..Len(todo') : rest[i] + Budget(todo'[i]) <= rest[i - 1]
    <3>1. PICK fund \in Nat : fund = Fund'
      BY <2>4
    <3>2. \E rest \in [0..Len(Slices(w)) -> Nat] :
            /\ 0 + rest[0] <= fund
            /\ \A i \in 1..Len(Slices(w)) : rest[i] + Budget(Slices(w)[i]) <= rest[i - 1]
      BY <1>t, <2>2, <2>3, <3>1, SlicesAffordable, Zenon
    <3>3. QED
      BY <2>1, <3>1, <3>2, Zenon
  <2>6. \E rest \in [0..Len(todo') -> Nat] :
          /\ stats'.requests + rest[0] <= Fund'
          /\ \A i \in 1..Len(todo') : rest[i] + Budget(todo'[i]) <= rest[i - 1]
    BY <2>1, <2>5, Zenon
  <2>7. asked' \in Windows /\ stats'.requests \in Nat /\ MinSlice <= span'
    BY <1>s, <2>1, <2>2
  <2>8. QED
    BY <2>4, <2>6, <2>7, Zenon DEF Affordable
<1>2. ASSUME NEW page, AskHalves(page)
      PROVE  Affordable'
  <2>1. /\ todo # <<>> /\ todo' = Halves(todo[1]) \o Tail(todo)
        /\ Splits(todo[1], Cardinality(page)) /\ asked' = asked
        /\ stats'.requests = stats.requests + 1
    BY <1>2, <1>f DEF AskHalves, Requested
  <2>2. stats.requests + 1 \in Nat
    BY <1>t
  <2>3. \E rest \in [0..Len(todo') -> Nat] :
          /\ stats'.requests + rest[0] <= Fund
          /\ \A i \in 1..Len(todo') : rest[i] + Budget(todo'[i]) <= rest[i - 1]
    BY <1>t, <1>f, <1>w, <2>1, <2>2, HalvesAffordable
  <2>4. QED
    BY <1>n, <2>1, <2>2, <2>3
<1>3. ASSUME NEW page, KeepPage(page)
      PROVE  Affordable'
  <2>1. /\ todo # <<>> /\ todo' = Tail(todo) /\ asked' = asked
        /\ stats'.requests = stats.requests + 1
    BY <1>3 DEF KeepPage, Requested
  <2>2. QED
    BY <1>n, <1>t, <1>w, <2>1, TailAffordable
<1>4. ASSUME NEW page, RaiseOnPage(page)
      PROVE  Affordable'
  <2>1. /\ todo # <<>> /\ todo' = <<>> /\ asked' = asked
        /\ stats'.requests = stats.requests + 1
    BY <1>4 DEF RaiseOnPage, Requested
  <2>2. PICK rest \in [0..Len(Tail(todo)) -> Nat] : stats.requests + 1 + rest[0] <= Fund
    BY <1>t, <1>w, <2>1, TailAffordable
  <2>3. /\ [i \in 0..0 |-> rest[0]] \in [0..0 -> Nat] /\ Len(todo') = 0
        /\ [i \in 0..0 |-> rest[0]][0] = rest[0]
    <3>1. Len(Tail(todo)) \in Nat
      BY <1>t, <2>1
    <3>2. QED
      BY <2>1, <3>1
  <2>4. \A i \in 1..Len(todo') : FALSE
    BY <2>1
  <2>5. \E r \in [0..Len(todo') -> Nat] :
          /\ stats.requests + 1 + r[0] <= Fund
          /\ \A i \in 1..Len(todo') : r[i] + Budget(todo'[i]) <= r[i - 1]
    BY <2>2, <2>3, <2>4
  <2>6. QED
    BY <1>n, <1>t, <2>1, <2>5
<1>5. CASE FailRequest
  <2>1. /\ todo # <<>> /\ todo' = Tail(todo) /\ asked' = asked
        /\ stats'.requests = stats.requests + 1
    BY <1>5 DEF FailRequest, Requested
  <2>2. QED
    BY <1>n, <1>t, <1>w, <2>1, TailAffordable
<1>6. CASE Finish
  BY <1>6, <1>s, <1>u, <1>b DEF Finish, Affordable
<1>7. ASSUME NEW r, Arrive(r)
      PROVE  Affordable'
  BY <1>7, <1>s, <1>u, <1>b DEF Arrive, Affordable
<1>8. CASE UNCHANGED vars
  BY <1>8, <1>s, <1>u, <1>b DEF vars, Affordable
<1>9. QED
  BY <1>1, <1>2, <1>3, <1>4, <1>5, <1>6, <1>7, <1>8 DEF Next

LEMMA Accounts == Spec => [](Shape /\ Whole /\ Deep /\ Affordable)
<1>1. Init => Shape /\ Whole /\ Deep /\ Affordable
  BY InitIInv, InitWhole, InitDeep, InitAffordable DEF IInv
<1>2. IInv /\ (Whole /\ Deep /\ Affordable) /\ [Next]_vars => (Whole /\ Deep /\ Affordable)'
  BY StepWhole, StepDeep, StepAffordable DEF IInv
<1>3. IInv => Shape
  BY DEF IInv
<1>4. QED
  BY <1>1, <1>2, <1>3, Invariance, PTL DEF Spec

\* However the window was sliced and split, whatever order pages came in and
\* whatever the order of their rows, the records are what all rows of the kept
\* pages come to at once (sources.py l.97-112, l.168-180).
THEOREM SlicingUnseenHolds == Spec => []SlicingUnseen
<1>1. Whole => SlicingUnseen
  BY DEF Whole
<1>2. QED
  BY <1>1, Accounts, PTL

\* A full page is only ever kept in silence when the slice is so long that
\* MaxDepth halvings leave more than MinSlice of it (sources.py l.145-146,
\* l.333-349).
THEOREM SilenceNeedsLongSlicesHolds == Spec => []SilenceNeedsLongSlices
<1>1. Deep => SilenceNeedsLongSlices
  BY DEF Deep
<1>2. QED
  BY <1>1, Accounts, PTL

\* A fetch makes no more requests than the full binary trees above windows of
\* MinSlice have nodes, one tree for each slice of what was asked, whatever the
\* upstream answers (sources.py l.321-350).
THEOREM EffortBoundedHolds == Spec => []EffortBounded
<1>1. Affordable => EffortBounded
  <2>1. SUFFICES ASSUME Affordable
                 PROVE  EffortBounded
    OBVIOUS
  <2>2. PICK rest \in [0..Len(todo) -> Nat] : stats.requests + rest[0] <= Fund
    BY <2>1 DEF Affordable
  <2>3. stats.requests \in Nat /\ Fund \in Nat /\ rest[0] \in Nat
    BY <2>1 DEF Affordable
  <2>4. QED
    BY <2>2, <2>3 DEF EffortBounded, Fund, SliceCount
<1>2. QED
  BY <1>1, Accounts, PTL

=============================================================================
