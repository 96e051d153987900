----------------------------- MODULE Hrr_proofs -----------------------------
(***************************************************************************)
(* Proofs about Hrr for any threads and any notifications: an answer always *)
(* comes from a list, the pulled list stays in force, and a start takes up  *)
(* what was saved.                                                          *)
(***************************************************************************)
EXTENDS Hrr, TLAPS

Attributes == {"map", "marking", "generated"}
Kinds == {"map", "payload", "refresh"}

Shape ==
  /\ renames \in BOOLEAN /\ loaded \in BOOLEAN
  /\ disk \in {"absent", "torn", "whole"}
  /\ saved \in [Attributes -> Lists]
  /\ force \in [Attributes -> Lists \cup {None}]
  /\ pc \in [Threads -> PCs]
  /\ kind \in [Threads -> Kinds]
  /\ step \in [Threads -> 0..2]
  /\ new \in [Threads -> [Attributes -> Lists]]
  /\ took \in [Threads -> Seq(Lists)]
  /\ pulled \in Lists
  /\ window \in Nat \X Nat /\ window[1] >= 1
  /\ renames => disk # "torn"

\* Where a thread is says how far it has come.
Progress == \A t \in Threads :
  /\ pc[t] \notin {"seeding", "installing"} => step[t] = 0
  /\ Len(took[t]) <= 4
  /\ pc[t] = "gathering" => Len(took[t]) <= 3
  /\ pc[t] \in {"writing", "refilling"} => Len(took[t]) = 4
  /\ pc[t] \notin {"gathering", "writing", "refilling", "answered"} => took[t] = <<>>

\* The attributes are filled before the flag is raised, and nobody goes past
\* ensure_loaded before that.
Filled ==
  /\ loaded => \A f \in Attributes : force[f] # None
  /\ \A t \in Threads :
       /\ pc[t] \in {"using", "pulling", "installing", "gathering", "writing",
                     "refilling", "answered"} => loaded
       /\ pc[t] = "seeding" => \A i \in 1..step[t] : force[Fields[i]] # None

\* There is one refresh at a time, it alone installs and writes, and whoever
\* loads the list had found it not loaded.
OneRefresh ==
  /\ pulled # 0 => loaded
  /\ \A t \in Threads :
       /\ pc[t] \in {"loading", "seeding"} => t \in early
       /\ pc[t] = "ensuring" /\ ~loaded => t \in early
       /\ pc[t] = "idle" => kind[t] = "map"
       /\ pc[t] \in {"pulling", "installing", "writing", "refilling"}
            => kind[t] = "refresh"
       /\ pc[t] = "installing"
            => new[t]["map"] # 0 /\ (step[t] >= 1 => pulled = new[t]["map"])
       /\ kind[t] = "refresh" /\ pc[t] \in {"gathering", "writing", "refilling"}
            => pulled # 0
  /\ \A t, u \in Threads : kind[t] = "refresh" /\ kind[u] = "refresh" => t = u

OnDisk == IF disk = "whole" THEN saved["map"] ELSE 0

\* Until the list is loaded every thread that loads it takes the same one.
SameSeed ==
  ~loaded => \A t \in Threads : pc[t] = "seeding" =>
    /\ new[t]["map"] = OnDisk
    /\ step[t] >= 1 => force["map"] = OnDisk

IInv == /\ Shape /\ Progress /\ Filled /\ OneRefresh /\ SameSeed
        /\ FreshStays /\ LastKnownGood

LEMMA AllFacts ==
  /\ DOMAIN All(0) = Attributes
  /\ \A v : /\ DOMAIN All(v) = Attributes
            /\ All(v)["map"] = v /\ All(v)["marking"] = v /\ All(v)["generated"] = v
            /\ \A S : v \in S => All(v) \in [Attributes -> S]
BY DEF All, Attributes

LEMMA ListsFacts == Len(Posted) \in Nat /\ Lists \subseteq Nat /\ 0 \in Lists /\ None \notin Lists
BY HrrAssumption DEF Lists, None

LEMMA TypesFollow == Shape /\ Progress => TypeOK
BY AllFacts DEF Shape, Progress, TypeOK, PCs

LEMMA InitIInv == Init => IInv
<1> SUFFICES ASSUME Init
             PROVE  IInv
  OBVIOUS
<1> USE AllFacts, ListsFacts DEF Init
<1>1. renames \in BOOLEAN /\ loaded \in BOOLEAN
  BY Zenon
<1>2. /\ saved \in [Attributes -> Lists] /\ force \in [Attributes -> Lists \cup {None}]
      /\ new \in [Threads -> [Attributes -> Lists]] /\ took \in [Threads -> Seq(Lists)]
  <2>1. All(0) \in [Attributes -> Lists] /\ All(None) \in [Attributes -> Lists \cup {None}]
    <3>1. None \in Lists \cup {None}
      OBVIOUS
    <3>2. QED
      BY <3>1
  <2>2. new \in [Threads -> [Attributes -> Lists]]
    BY <2>1
  <2>3. took \in [Threads -> Seq(Lists)]
    OBVIOUS
  <2>4. QED
    BY <2>1, <2>2, <2>3
<1>3. Shape
  BY <1>1, <1>2 DEF Shape, PCs, Kinds
<1>4. Progress /\ Filled /\ OneRefresh /\ SameSeed
  BY DEF Progress, Filled, OneRefresh, SameSeed
<1>5. FreshStays /\ LastKnownGood
  BY DEF FreshStays, LastKnownGood
<1>6. QED
  BY <1>3, <1>4, <1>5 DEF IInv

LEMMA StepIInv == IInv /\ [Next]_vars => IInv'
<1> SUFFICES ASSUME IInv, [Next]_vars
             PROVE  IInv'
  OBVIOUS
<1> USE DEF IInv, None
<1>1. ASSUME NEW t \in Threads, NEW k \in Kinds, Call(t, k), UNCHANGED renames
      PROVE  IInv'
  <2>1. Shape'
    BY <1>1 DEF Shape, PCs, Kinds, Attributes, Call, Goto
  <2>2. Progress'
    BY <1>1 DEF Shape, Progress, Call, Goto
  <2>3. Filled'
    BY <1>1 DEF Shape, Filled, Progress, Attributes, Call, Goto
  <2>4. OneRefresh'
    BY <1>1 DEF Shape, OneRefresh, Progress, Filled, Call, Goto
  <2>5. SameSeed'
    BY <1>1 DEF Shape, SameSeed, OnDisk, OneRefresh, Filled, Progress, Call, Goto
  <2>6. (FreshStays /\ LastKnownGood)'
    BY <1>1 DEF Shape, FreshStays, LastKnownGood, OnDisk, OneRefresh, Filled, SameSeed, Progress, Attributes, Call, Goto
  <2>7. QED
    BY <2>1, <2>2, <2>3, <2>4, <2>5, <2>6
<1>2. ASSUME NEW t \in Threads, Ensure(t), UNCHANGED renames
      PROVE  IInv'
  <2>1. Shape'
    BY <1>2 DEF Shape, PCs, Kinds, Attributes, Ensure
  <2>2. Progress'
    BY <1>2 DEF Shape, Progress, Ensure
  <2>3. Filled'
    BY <1>2 DEF Shape, Filled, Progress, Attributes, Ensure
  <2>4. OneRefresh'
    BY <1>2 DEF Shape, OneRefresh, Progress, Filled, Ensure
  <2>5. SameSeed'
    BY <1>2 DEF Shape, SameSeed, OnDisk, OneRefresh, Filled, Progress, Ensure
  <2>6. (FreshStays /\ LastKnownGood)'
    BY <1>2 DEF Shape, FreshStays, LastKnownGood, OnDisk, OneRefresh, Filled, SameSeed, Progress, Attributes, Ensure
  <2>7. QED
    BY <2>1, <2>2, <2>3, <2>4, <2>5, <2>6
<1>3. ASSUME NEW t \in Threads, LoadCache(t), UNCHANGED renames
      PROVE  IInv'
  <2>0. /\ \A u \in Threads \ {t} : new'[u] = new[u] /\ pc'[u] = pc[u]
        /\ new'[t]["map"] = OnDisk /\ pc[t] = "loading" /\ pc'[t] = "seeding"
        /\ pc' \in [Threads -> PCs] /\ step' = step /\ force' = force /\ loaded' = loaded
        /\ kind' = kind /\ early' = early /\ pulled' = pulled /\ OnDisk' = OnDisk
    BY <1>3, AllFacts DEF Shape, PCs, OnDisk, LoadCache, Goto
  <2>1. Shape'
    <3>1. All(0) \in [Attributes -> Lists]
      BY AllFacts, ListsFacts
    <3>2. new' \in [Threads -> [Attributes -> Lists]]
      BY <1>3, <3>1 DEF LoadCache, Shape
    <3>3. QED
      BY <1>3, <2>0, <3>2 DEF LoadCache, Shape
  <2>2. Progress'
    BY <1>3 DEF Shape, Progress, LoadCache, Goto
  <2>3. Filled'
    BY <1>3 DEF Shape, Filled, Progress, Attributes, LoadCache, Goto
  <2>4. OneRefresh'
    BY <2>0 DEF OneRefresh
  <2>5. SameSeed'
    <3>1. SUFFICES ASSUME ~loaded, NEW u \in Threads, pc'[u] = "seeding"
                   PROVE  /\ new'[u]["map"] = OnDisk
                          /\ step[u] >= 1 => force["map"] = OnDisk
      BY <2>0 DEF SameSeed
    <3>2. CASE u = t
      <4>1. step[t] = 0
        BY <2>0 DEF Progress
      <4>2. QED
        BY <2>0, <3>2, <4>1
    <3>3. CASE u # t
      BY <2>0, <3>1, <3>3 DEF SameSeed
    <3>4. QED
      BY <3>2, <3>3
  <2>6. (FreshStays /\ LastKnownGood)'
    BY <1>3 DEF Shape, FreshStays, LastKnownGood, OnDisk, OneRefresh, Filled, SameSeed, Progress, Attributes, LoadCache, Goto
  <2>7. QED
    BY <2>1, <2>2, <2>3, <2>4, <2>5, <2>6
<1>4. ASSUME NEW t \in Threads, LoadRaises(t), UNCHANGED renames
      PROVE  IInv'
  <2>1. Shape'
    BY <1>4 DEF Shape, PCs, Kinds, Attributes, LoadRaises, Ends
  <2>2. Progress'
    BY <1>4 DEF Shape, Progress, LoadRaises, Ends
  <2>3. Filled'
    BY <1>4 DEF Shape, Filled, Progress, Attributes, LoadRaises, Ends
  <2>4. OneRefresh'
    BY <1>4 DEF Shape, OneRefresh, Progress, Filled, LoadRaises, Ends
  <2>5. SameSeed'
    BY <1>4 DEF Shape, SameSeed, OnDisk, OneRefresh, Filled, Progress, LoadRaises, Ends
  <2>6. (FreshStays /\ LastKnownGood)'
    BY <1>4 DEF Shape, FreshStays, LastKnownGood, OnDisk, OneRefresh, Filled, SameSeed, Progress, Attributes, LoadRaises, Ends
  <2>7. QED
    BY <2>1, <2>2, <2>3, <2>4, <2>5, <2>6
<1>5. ASSUME NEW t \in Threads, Assign(t), UNCHANGED renames
      PROVE  IInv'
  <2> DEFINE f == Fields[step[t] + 1]
  <2>a. /\ step[t] \in 0..2 /\ new[t] \in [Attributes -> Lists] /\ f \in Attributes
        /\ step[t] = 0 => f = "map"
        /\ step[t] = 1 => f = "marking"
        /\ step[t] = 2 => f = "generated"
    BY DEF Shape, Fields, Attributes
  <2> HIDE DEF f
  <2>b. /\ pc[t] \in {"seeding", "installing"}
        /\ force' = [force EXCEPT ![f] = new[t][f]]
        /\ step' = [step EXCEPT ![t] = (@ + 1) % 3]
        /\ pulled' = IF pc[t] = "installing" THEN new[t]["map"] ELSE pulled
        /\ UNCHANGED <<renames, disk, saved, window, kind, took, early>>
        /\ ~raced' => ~raced /\ ~Races(t)
    BY <1>5 DEF Assign, Assigning, f
  <2>s. /\ step[t] = 2 => ~(step[t] < 2)
        /\ step[t] # 2 => step[t] < 2
        /\ pc[t] = "seeding" => pc[t] # "installing"
    BY <2>a
  <2>c. /\ step[t] # 2 => pc' = pc /\ loaded' = loaded /\ new' = new
        /\ step[t] = 2 /\ pc[t] = "seeding" =>
             loaded' = TRUE /\ pc' = [pc EXCEPT ![t] = "using"]
        /\ step[t] = 2 /\ pc[t] = "installing" =>
             loaded' = loaded /\ pc' = [pc EXCEPT ![t] = "gathering"]
        /\ step[t] = 2 => new' = [new EXCEPT ![t] = All(0)]
    BY <1>5, <2>b, <2>s, Zenon DEF Assign, Assigning, Goto
  <2>d. /\ \A u \in Threads \ {t} : pc'[u] = pc[u] /\ step'[u] = step[u] /\ new'[u] = new[u]
        /\ step[t] # 2 => step'[t] = step[t] + 1 /\ pc'[t] = pc[t] /\ new'[t] = new[t]
        /\ step[t] = 2 => step'[t] = 0 /\ pc'[t] \in {"using", "gathering"}
        /\ pc' \in [Threads -> PCs] /\ step' \in [Threads -> 0..2]
        /\ new' \in [Threads -> [Attributes -> Lists]]
    <3>1. All(0) \in [Attributes -> Lists]
      BY AllFacts, ListsFacts
    <3>2. new' \in [Threads -> [Attributes -> Lists]]
      BY <2>a, <2>c, <3>1 DEF Shape
    <3>3. step' \in [Threads -> 0..2]
      BY <2>a, <2>b DEF Shape
    <3>4. pc' \in [Threads -> PCs]
      BY <2>a, <2>b, <2>c DEF Shape, PCs
    <3>5. CASE step[t] # 2
      BY <2>a, <2>b, <2>c, <3>2, <3>3, <3>4, <3>5 DEF Shape
    <3>6. CASE step[t] = 2
      BY <2>a, <2>b, <2>c, <3>2, <3>3, <3>4, <3>6 DEF Shape
    <3>7. QED
      BY <3>5, <3>6
  <2>e. /\ force' \in [Attributes -> Lists \cup {None}]
        /\ force'[f] = new[t][f] /\ \A a \in Attributes \ {f} : force'[a] = force[a]
    BY <2>a, <2>b DEF Shape
  <2>l. /\ loaded => loaded'
        /\ ~loaded /\ loaded' => step[t] = 2 /\ pc[t] = "seeding"
        /\ loaded' \in BOOLEAN
        /\ step[t] = 2 /\ pc[t] = "seeding" => loaded'
    <3>1. loaded \in BOOLEAN
      BY DEF Shape
    <3>2. CASE step[t] # 2
      <4>1. loaded' = loaded
        BY <2>c, <3>2
      <4>2. QED
        BY <3>1, <3>2, <4>1
    <3>3. CASE step[t] = 2 /\ pc[t] = "seeding"
      BY <2>c, <3>3, Zenon
    <3>4. CASE step[t] = 2 /\ pc[t] = "installing"
      <4>1. loaded' = loaded
        BY <2>c, <3>4
      <4>2. QED
        BY <2>s, <3>1, <3>4, <4>1
    <3>5. QED
      BY <2>b, <3>2, <3>3, <3>4, Zenon
  <2>1. Shape'
    <3>1. loaded' \in BOOLEAN /\ renames' \in BOOLEAN
      BY <2>b, <2>l, Zenon DEF Shape
    <3>2. pulled' \in Lists
      BY <2>a, <2>b DEF Shape, Attributes
    <3>3. QED
      BY <2>b, <2>d, <2>e, <3>1, <3>2 DEF Shape
  <2>2. Progress'
    BY <2>a, <2>b, <2>d DEF Progress
  <2>3. Filled'
    <3>1. \A a \in Attributes : force[a] # None => force'[a] # None
      BY <2>a, <2>e, ListsFacts
    <3>2. \A u \in Threads : pc[u] = "seeding" =>
            \A i \in 1..step[u] : force[Fields[i]] # None /\ Fields[i] \in Attributes
      <4>1. SUFFICES ASSUME NEW u \in Threads, pc[u] = "seeding", NEW i \in 1..step[u]
                     PROVE  force[Fields[i]] # None /\ Fields[i] \in Attributes
        OBVIOUS
      <4>2. i = 1 \/ i = 2
        <5>1. step[u] \in 0..2
          BY DEF Shape
        <5>2. QED
          BY <5>1
      <4>3. Fields[i] \in Attributes
        BY <4>2 DEF Fields, Attributes
      <4>4. QED
        BY <4>1, <4>3 DEF Filled
    <3>3. ASSUME pc'[t] = "seeding", NEW i \in 1..step'[t]
          PROVE  force'[Fields[i]] # None
      <4>1. CASE i <= step[t]
        BY <2>a, <2>d, <3>1, <3>2, <3>3, <4>1
      <4>2. CASE i = step[t] + 1
        BY <2>a, <2>e, <4>2, ListsFacts DEF f
      <4>3. QED
        BY <2>a, <2>b, <2>d, <3>3, <4>1, <4>2
    <3>4. \A u \in Threads : pc'[u] = "seeding" => \A i \in 1..step'[u] : force'[Fields[i]] # None
      BY <2>d, <3>1, <3>2, <3>3
    <3>5. ASSUME loaded'
          PROVE  \A a \in Attributes : force'[a] # None
      <4>1. CASE loaded
        BY <3>1, <4>1 DEF Filled
      <4>2. CASE ~loaded
        <5>1. step[t] = 2 /\ pc[t] = "seeding"
          BY <2>l, <3>5, <4>2
        <5>2. force["map"] # None /\ force["marking"] # None
          BY <3>2, <5>1 DEF Fields
        <5>3. QED
          BY <2>a, <2>e, <5>1, <5>2, ListsFacts DEF Attributes
      <4>3. QED
        BY <4>1, <4>2
    <3>6. \A u \in Threads : pc'[u] \in {"using", "pulling", "installing", "gathering",
                                       "writing", "refilling", "answered"} => loaded'
      BY <2>b, <2>c, <2>d, <2>l DEF Filled
    <3>7. QED
      BY <3>4, <3>5, <3>6 DEF Filled
  <2>4. OneRefresh'
    <3>1. pulled' # 0 => loaded'
      BY <2>b, <2>l DEF OneRefresh, Filled
    <3>2. \A u \in Threads :
            /\ pc'[u] \in {"loading", "seeding"} => u \in early'
            /\ pc'[u] = "ensuring" /\ ~loaded' => u \in early'
            /\ pc'[u] = "idle" => kind'[u] = "map"
            /\ pc'[u] \in {"pulling", "installing", "writing", "refilling"}
                 => kind'[u] = "refresh"
      BY <2>b, <2>d, <2>l DEF OneRefresh
    <3>3. \A u \in Threads : pc'[u] = "installing" =>
            new'[u]["map"] # 0 /\ (step'[u] >= 1 => pulled' = new'[u]["map"])
      <4>1. CASE pc[t] = "seeding"
        BY <2>b, <2>d, <4>1 DEF OneRefresh
      <4>2. CASE pc[t] = "installing"
        <5>1. \A u \in Threads \ {t} : pc'[u] # "installing"
          BY <2>d, <4>2 DEF OneRefresh
        <5>2. QED
          BY <2>b, <2>d, <4>2, <5>1 DEF OneRefresh
      <4>3. QED
        BY <2>b, <4>1, <4>2
    <3>4. \A u \in Threads :
            kind'[u] = "refresh" /\ pc'[u] \in {"gathering", "writing", "refilling"}
              => pulled' # 0
      <4>1. CASE pc[t] = "seeding"
        BY <2>b, <2>c, <2>d, <4>1 DEF OneRefresh
      <4>2. CASE pc[t] = "installing"
        BY <2>b, <4>2 DEF OneRefresh
      <4>3. QED
        BY <2>b, <4>1, <4>2
    <3>5. \A u, v \in Threads : kind'[u] = "refresh" /\ kind'[v] = "refresh" => u = v
      BY <2>b DEF OneRefresh
    <3>6. QED
      BY <3>1, <3>2, <3>3, <3>4, <3>5 DEF OneRefresh
  <2>5. SameSeed'
    <3>1. SUFFICES ASSUME ~loaded', NEW u \in Threads, pc'[u] = "seeding"
                   PROVE  /\ new'[u]["map"] = OnDisk
                          /\ step'[u] >= 1 => force'["map"] = OnDisk
      BY <2>b DEF SameSeed, OnDisk
    <3>2. ~loaded /\ pc[t] = "seeding" /\ pc[u] = "seeding" /\ step[t] # 2 /\ new'[u] = new[u]
      BY <2>b, <2>d, <2>l, <3>1 DEF Filled
    <3>3. new[u]["map"] = OnDisk /\ new[t]["map"] = OnDisk
      BY <3>2 DEF SameSeed
    <3>4. CASE step[t] = 0
      BY <2>a, <2>e, <3>2, <3>3, <3>4
    <3>5. CASE step[t] = 1
      <4>1. force["map"] = OnDisk
        BY <3>2, <3>5 DEF SameSeed
      <4>2. QED
        BY <2>a, <2>e, <3>2, <3>3, <3>5, <4>1 DEF Attributes
    <3>6. QED
      BY <2>a, <3>2, <3>4, <3>5
  <2>6. (FreshStays /\ LastKnownGood)'
    <3>1. ASSUME ~raced', pc[t] = "seeding", loaded
          PROVE  force' = force
      BY <2>a, <2>b, <2>e, <3>1 DEF Races, OneRefresh, Shape
    <3>2. ASSUME ~raced', pulled' # 0
          PROVE  force'["map"] = pulled'
      <4>1. CASE pc[t] = "seeding"
        BY <2>b, <3>1, <3>2, <4>1 DEF OneRefresh, FreshStays
      <4>2. CASE pc[t] = "installing" /\ step[t] = 0
        BY <2>a, <2>b, <2>e, <4>2
      <4>3. CASE pc[t] = "installing" /\ step[t] # 0
        BY <2>a, <2>b, <2>e, <3>2, <4>3 DEF OneRefresh, FreshStays, Attributes
      <4>4. QED
        BY <2>b, <4>1, <4>2, <4>3
    <3>3. ASSUME loaded', pulled' = 0, ~raced'
          PROVE  force'["map"] = OnDisk
      <4>1. pc[t] = "seeding" /\ pulled = 0
        BY <2>b, <3>3 DEF OneRefresh
      <4>2. CASE loaded
        BY <2>b, <3>1, <3>3, <4>1, <4>2 DEF LastKnownGood, OnDisk
      <4>3. CASE ~loaded
        <5>1. step[t] = 2
          BY <2>l, <3>3, <4>3
        <5>2. QED
          BY <2>a, <2>e, <4>1, <4>3, <5>1 DEF SameSeed, Attributes
      <4>4. QED
        BY <4>2, <4>3
    <3>4. OnDisk' = OnDisk
      BY <2>b DEF OnDisk
    <3>5. QED
      BY <3>2, <3>3, <3>4 DEF FreshStays, LastKnownGood, OnDisk
  <2>7. QED
    BY <2>1, <2>2, <2>3, <2>4, <2>5, <2>6
<1>6. ASSUME NEW t \in Threads, Use(t), UNCHANGED renames
      PROVE  IInv'
  <2>0. /\ pc[t] = "using" /\ loaded /\ force["map"] \in Lists /\ took[t] = <<>>
        /\ \A u \in Threads \ {t} : pc'[u] = pc[u] /\ took'[u] = took[u]
        /\ pc' \in [Threads -> PCs] /\ pc'[t] \in {"answered", "gathering", "pulling"}
    <3>1. pc[t] = "using" /\ loaded /\ took[t] = <<>>
      BY <1>6 DEF Use, Filled, Progress
    <3>2. force["map"] \in Lists
      BY <3>1 DEF Shape, Filled, Attributes
    <3>3. /\ \A u \in Threads \ {t} : pc'[u] = pc[u]
          /\ pc' \in [Threads -> PCs] /\ pc'[t] \in {"answered", "gathering", "pulling"}
      BY <1>6 DEF Use, Shape, PCs
    <3>4. \A u \in Threads \ {t} : took'[u] = took[u]
      BY <1>6 DEF Use, Shape
    <3>5. QED
      BY <3>1, <3>2, <3>3, <3>4
  <2>a. /\ took' \in [Threads -> Seq(Lists)] /\ Len(took'[t]) <= 1
        /\ pc'[t] # "answered" => took'[t] = <<>>
    <3>1. CASE took' = took
      BY <2>0, <3>1 DEF Shape
    <3>2. CASE took' = [took EXCEPT ![t] = <<force["map"]>>] /\ pc'[t] = "answered"
      <4>1. <<force["map"]>> \in Seq(Lists) /\ Len(<<force["map"]>>) = 1
        BY <2>0
      <4>2. QED
        BY <3>2, <4>1 DEF Shape
    <3>3. QED
      BY <1>6, <3>1, <3>2 DEF Use, Shape
  <2>1. Shape'
    <3>1. UNCHANGED <<renames, loaded, disk, saved, force, kind, step, new, pulled, window>>
      BY <1>6 DEF Use
    <3>2. QED
      BY <2>0, <2>a, <3>1 DEF Shape
  <2>2. Progress'
    <3>1. \A u \in Threads : Len(took[u]) \in Nat /\ Len(took'[u]) \in Nat
      BY <2>a DEF Shape
    <3>2. step' = step
      BY <1>6 DEF Use
    <3>3. /\ step[t] = 0 /\ Len(took'[t]) <= 4
          /\ pc'[t] = "gathering" => Len(took'[t]) <= 3
          /\ pc'[t] \notin {"seeding", "installing", "writing", "refilling"}
          /\ pc'[t] \notin {"gathering", "answered"} => took'[t] = <<>>
      <4>1. step[t] = 0
        BY <2>0 DEF Progress
      <4>2. QED
        BY <2>0, <2>a, <3>1, <4>1
    <3>4. QED
      BY <2>0, <2>a, <3>2, <3>3 DEF Progress
  <2>3. Filled'
    <3>1. loaded' = loaded /\ force' = force /\ step' = step
      BY <1>6 DEF Use
    <3>2. QED
      BY <2>0, <3>1 DEF Filled
  <2>4. OneRefresh'
    BY <1>6 DEF Shape, OneRefresh, Progress, Filled, Use
  <2>5. SameSeed'
    BY <1>6 DEF Shape, SameSeed, OnDisk, OneRefresh, Filled, Progress, Use
  <2>6. (FreshStays /\ LastKnownGood)'
    BY <1>6 DEF Shape, FreshStays, LastKnownGood, OnDisk, OneRefresh, Filled, SameSeed, Progress, Attributes, Use
  <2>7. QED
    BY <2>1, <2>2, <2>3, <2>4, <2>5, <2>6
<1>7. ASSUME NEW t \in Threads, KeepList(t), UNCHANGED renames
      PROVE  IInv'
  <2>1. Shape'
    BY <1>7 DEF Shape, PCs, Kinds, Attributes, KeepList, Ends, Windows
  <2>2. Progress'
    BY <1>7 DEF Shape, Progress, KeepList, Ends, Windows
  <2>3. Filled'
    BY <1>7 DEF Shape, Filled, Progress, Attributes, KeepList, Ends, Windows
  <2>4. OneRefresh'
    BY <1>7 DEF Shape, OneRefresh, Progress, Filled, KeepList, Ends, Windows
  <2>5. SameSeed'
    BY <1>7 DEF Shape, SameSeed, OnDisk, OneRefresh, Filled, Progress, KeepList, Ends, Windows
  <2>6. (FreshStays /\ LastKnownGood)'
    BY <1>7 DEF Shape, FreshStays, LastKnownGood, OnDisk, OneRefresh, Filled, SameSeed, Progress, Attributes, KeepList, Ends, Windows
  <2>7. QED
    BY <2>1, <2>2, <2>3, <2>4, <2>5, <2>6
<1>8. ASSUME NEW t \in Threads, Pull(t), UNCHANGED renames
      PROVE  IInv'
  <2>0. PICK w \in Windows : \E i \in Newest(w) : window' = w /\ Pulls(t, All(i))
    BY <1>8 DEF Pull
  <2>b. PICK i \in Newest(w) : window' = w /\ Pulls(t, All(i))
    BY <2>0
  <2>a. i \in Lists /\ i # 0 /\ w \in Nat \X Nat /\ w[1] >= 1
        /\ new' = [new EXCEPT ![t] = All(i)] /\ All(i) \in [Attributes -> Lists]
        /\ All(i)["map"] = i /\ pc[t] = "pulling" /\ pc' = [pc EXCEPT ![t] = "installing"]
        /\ UNCHANGED <<disk, saved, force, loaded, kind, step, took, pulled, raced, early>>
    <3>1. i \in Lists /\ i # 0 /\ w \in Nat \X Nat /\ w[1] >= 1
      BY <2>b, ListsFacts DEF Windows, Newest, ParseHrr, Shape, Lists
    <3>2. QED
      BY <2>b, <3>1, AllFacts DEF Pulls, Goto
  <2>1. Shape'
    <3>1. new' \in [Threads -> [Attributes -> Lists]]
      BY <2>a DEF Shape
    <3>2. pc' \in [Threads -> PCs]
      BY <2>a DEF Shape, PCs
    <3>3. QED
      BY <1>8, <2>b, <2>a, <3>1, <3>2 DEF Shape
  <2>2. Progress'
    BY <2>a DEF Progress, Shape
  <2>3. Filled'
    BY <2>a DEF Filled, Shape
  <2>4. OneRefresh'
    BY <2>a DEF OneRefresh, Progress, Shape
  <2>5. SameSeed'
    BY <2>a DEF SameSeed, OnDisk, Filled, Shape
  <2>6. (FreshStays /\ LastKnownGood)'
    BY <2>a DEF FreshStays, LastKnownGood, OnDisk, Shape
  <2>7. QED
    BY <2>1, <2>2, <2>3, <2>4, <2>5, <2>6
<1>9. ASSUME NEW t \in Threads, Gather(t), UNCHANGED renames
      PROVE  IInv'
  <2>0. /\ pc[t] = "gathering" /\ Len(took[t]) \in 0..3 /\ took[t] \in Seq(Lists)
        /\ \A a \in Attributes : force[a] \in Lists
    <3>0. pc[t] = "gathering"
      BY <1>9 DEF Gather
    <3>1. /\ pc[t] = "gathering" /\ Len(took[t]) \in 0..3 /\ took[t] \in Seq(Lists)
      <4>1. took[t] \in Seq(Lists) /\ Len(took[t]) <= 3
        BY <3>0 DEF Shape, Progress
      <4>2. Len(took[t]) \in Nat
        BY <4>1
      <4>3. \A n \in Nat : n <= 3 => n \in 0..3
        OBVIOUS
      <4>4. QED
        BY <3>0, <4>1, <4>2, <4>3, Zenon
    <3>2. \A a \in Attributes : force[a] \in Lists
      BY <3>1 DEF Shape, Filled
    <3>3. QED
      BY <3>1, <3>2
  <2>a. Gathered[Len(took[t]) + 1] \in Attributes
    <3>0. PICK n \in 0..3 : n = Len(took[t])
      BY <2>0
    <3>1. n + 1 = 1 \/ n + 1 = 2 \/ n + 1 = 3 \/ n + 1 = 4
      OBVIOUS
    <3>2. QED
      BY <3>0, <3>1 DEF Gathered, Attributes
  <2>1. Shape'
    <3>1. took' \in [Threads -> Seq(Lists)]
      BY <1>9, <2>0, <2>a DEF Gather, Shape
    <3>2. pc' \in [Threads -> PCs]
      BY <1>9 DEF Gather, Shape, PCs
    <3>3. QED
      BY <1>9, <3>1, <3>2 DEF Gather, Shape
  <2>2. Progress'
    BY <1>9 DEF Shape, Progress, Gather, Gathered
  <2>3. Filled'
    BY <1>9 DEF Shape, Filled, Progress, Attributes, Gather, Gathered
  <2>4. OneRefresh'
    BY <1>9 DEF Shape, OneRefresh, Progress, Filled, Gather, Gathered
  <2>5. SameSeed'
    BY <1>9 DEF Shape, SameSeed, OnDisk, OneRefresh, Filled, Progress, Gather, Gathered
  <2>6. (FreshStays /\ LastKnownGood)'
    BY <1>9 DEF Shape, FreshStays, LastKnownGood, OnDisk, OneRefresh, Filled, SameSeed, Progress, Attributes, Gather, Gathered
  <2>7. QED
    BY <2>1, <2>2, <2>3, <2>4, <2>5, <2>6
<1>10. ASSUME NEW t \in Threads, Write(t), UNCHANGED renames
      PROVE  IInv'
  <2>1. Shape'
    <3>1. pc[t] \in {"writing", "refilling"} /\ took[t] \in Seq(Lists) /\ Len(took[t]) = 4
      BY <1>10 DEF Write, Shape, Progress
    <3>2. saved' \in [Attributes -> Lists]
      BY <1>10, <3>1 DEF Write, Packed, Attributes
    <3>3. /\ pc' \in [Threads -> PCs] /\ kind' \in [Threads -> Kinds]
          /\ took' \in [Threads -> Seq(Lists)]
      BY <1>10 DEF Write, Ends, Shape, PCs, Kinds
    <3>4. QED
      BY <1>10, <3>2, <3>3 DEF Write, Shape
  <2>2. Progress'
    BY <1>10 DEF Shape, Progress, Write, Ends, Packed
  <2>3. Filled'
    BY <1>10 DEF Shape, Filled, Progress, Attributes, Write, Ends, Packed
  <2>4. OneRefresh'
    BY <1>10 DEF Shape, OneRefresh, Progress, Filled, Write, Ends, Packed
  <2>5. SameSeed'
    BY <1>10 DEF Shape, SameSeed, OnDisk, OneRefresh, Filled, Progress, Write, Ends, Packed
  <2>6. (FreshStays /\ LastKnownGood)'
    BY <1>10 DEF Shape, FreshStays, LastKnownGood, OnDisk, OneRefresh, Filled, SameSeed, Progress, Attributes, Write, Ends, Packed
  <2>7. QED
    BY <2>1, <2>2, <2>3, <2>4, <2>5, <2>6
<1>11. ASSUME NEW t \in Threads, Truncate(t), UNCHANGED renames
      PROVE  IInv'
  <2>1. Shape'
    BY <1>11 DEF Shape, PCs, Kinds, Attributes, Truncate, Goto
  <2>2. Progress'
    BY <1>11 DEF Shape, Progress, Truncate, Goto
  <2>3. Filled'
    BY <1>11 DEF Shape, Filled, Progress, Attributes, Truncate, Goto
  <2>4. OneRefresh'
    BY <1>11 DEF Shape, OneRefresh, Progress, Filled, Truncate, Goto
  <2>5. SameSeed'
    BY <1>11 DEF Shape, SameSeed, OnDisk, OneRefresh, Filled, Progress, Truncate, Goto
  <2>6. (FreshStays /\ LastKnownGood)'
    BY <1>11 DEF Shape, FreshStays, LastKnownGood, OnDisk, OneRefresh, Filled, SameSeed, Progress, Attributes, Truncate, Goto
  <2>7. QED
    BY <2>1, <2>2, <2>3, <2>4, <2>5, <2>6
<1>12. ASSUME NEW t \in Threads, WriteRaises(t), UNCHANGED renames
      PROVE  IInv'
  <2>1. Shape'
    BY <1>12 DEF Shape, PCs, Kinds, Attributes, WriteRaises, Ends
  <2>2. Progress'
    BY <1>12 DEF Shape, Progress, WriteRaises, Ends
  <2>3. Filled'
    BY <1>12 DEF Shape, Filled, Progress, Attributes, WriteRaises, Ends
  <2>4. OneRefresh'
    BY <1>12 DEF Shape, OneRefresh, Progress, Filled, WriteRaises, Ends
  <2>5. SameSeed'
    BY <1>12 DEF Shape, SameSeed, OnDisk, OneRefresh, Filled, Progress, WriteRaises, Ends
  <2>6. (FreshStays /\ LastKnownGood)'
    BY <1>12 DEF Shape, FreshStays, LastKnownGood, OnDisk, OneRefresh, Filled, SameSeed, Progress, Attributes, WriteRaises, Ends
  <2>7. QED
    BY <2>1, <2>2, <2>3, <2>4, <2>5, <2>6
<1>13. ASSUME NEW t \in Threads, Return(t), UNCHANGED renames
      PROVE  IInv'
  <2>1. Shape'
    BY <1>13 DEF Shape, PCs, Kinds, Attributes, Return, Ends
  <2>2. Progress'
    BY <1>13 DEF Shape, Progress, Return, Ends
  <2>3. Filled'
    BY <1>13 DEF Shape, Filled, Progress, Attributes, Return, Ends
  <2>4. OneRefresh'
    BY <1>13 DEF Shape, OneRefresh, Progress, Filled, Return, Ends
  <2>5. SameSeed'
    BY <1>13 DEF Shape, SameSeed, OnDisk, OneRefresh, Filled, Progress, Return, Ends
  <2>6. (FreshStays /\ LastKnownGood)'
    BY <1>13 DEF Shape, FreshStays, LastKnownGood, OnDisk, OneRefresh, Filled, SameSeed, Progress, Attributes, Return, Ends
  <2>7. QED
    BY <2>1, <2>2, <2>3, <2>4, <2>5, <2>6
<1>14. CASE Crash /\ UNCHANGED renames
  <2>1. Shape'
    <3>1. None \in Lists \cup {None}
      OBVIOUS
    <3>2. /\ force' \in [Attributes -> Lists \cup {None}]
          /\ new' \in [Threads -> [Attributes -> Lists]]
      BY <1>14, <3>1, AllFacts, ListsFacts DEF Crash
    <3>3. took' \in [Threads -> Seq(Lists)]
      BY <1>14 DEF Crash
    <3>4. pc' \in [Threads -> PCs] /\ kind' \in [Threads -> Kinds] /\ step' \in [Threads -> 0..2]
      BY <1>14 DEF Crash, PCs, Kinds
    <3>5. pulled' \in Lists /\ loaded' \in BOOLEAN /\ renames' = renames
      BY <1>14, ListsFacts DEF Crash
    <3>6. UNCHANGED <<disk, saved, window>>
      BY <1>14 DEF Crash
    <3>7. QED
      BY <3>2, <3>3, <3>4, <3>5, <3>6 DEF Shape
  <2>2. Progress'
    BY <1>14 DEF Shape, Progress, Crash
  <2>3. Filled'
    BY <1>14 DEF Shape, Filled, Progress, Attributes, Crash
  <2>4. OneRefresh'
    BY <1>14 DEF Shape, OneRefresh, Progress, Filled, Crash
  <2>5. SameSeed'
    BY <1>14 DEF Shape, SameSeed, OnDisk, OneRefresh, Filled, Progress, Crash
  <2>6. (FreshStays /\ LastKnownGood)'
    BY <1>14 DEF Crash, FreshStays, LastKnownGood
  <2>7. QED
    BY <2>1, <2>2, <2>3, <2>4, <2>5, <2>6
<1>15. CASE UNCHANGED vars
  <2>1. Shape'
    BY <1>15 DEF Shape, PCs, Kinds, Attributes, vars
  <2>2. Progress'
    BY <1>15 DEF Shape, Progress, vars
  <2>3. Filled'
    BY <1>15 DEF Shape, Filled, Progress, Attributes, vars
  <2>4. OneRefresh'
    BY <1>15 DEF Shape, OneRefresh, Progress, Filled, vars
  <2>5. SameSeed'
    BY <1>15 DEF Shape, SameSeed, OnDisk, OneRefresh, Filled, Progress, vars
  <2>6. (FreshStays /\ LastKnownGood)'
    BY <1>15 DEF Shape, FreshStays, LastKnownGood, OnDisk, OneRefresh, Filled, SameSeed, Progress, Attributes, vars
  <2>7. QED
    BY <2>1, <2>2, <2>3, <2>4, <2>5, <2>6
<1>16. QED
  BY <1>1, <1>2, <1>3, <1>4, <1>5, <1>6, <1>7, <1>8, <1>9, <1>10, <1>11, <1>12, <1>13, <1>14, <1>15 DEF Next, Kinds

-----------------------------------------------------------------------------
(* The file never goes back *)

Fit(v) == v = 0 \/ (v <= window[2] /\ Yields(Posted[v]))

\* Unless lists raced, what is pulled is never behind what is saved, and what
\* is written is what was pulled.
Order ==
  ~raced =>
    /\ Fit(saved["map"]) /\ Fit(pulled)
    /\ pulled # 0 => pulled >= saved["map"]
    /\ \A t \in Threads :
         /\ pc[t] = "installing" =>
              Fit(new[t]["map"]) /\ new[t]["map"] >= saved["map"]
         /\ pc[t] \in {"writing", "refilling"} => took[t][4] = pulled

LEMMA InitOrder == Init => Order
BY AllFacts DEF Init, Order, Fit

LEMMA StepOrder == IInv /\ Order /\ [Next]_vars => Order'
<1> SUFFICES ASSUME IInv, Order, [Next]_vars
             PROVE  Order'
  OBVIOUS
<1> USE DEF IInv
<1>1. ASSUME NEW t \in Threads, NEW k \in Kinds, Call(t, k), UNCHANGED renames
      PROVE  Order'
  BY <1>1 DEF Order, Fit, Shape, Call, Goto
<1>2. ASSUME NEW t \in Threads, Ensure(t), UNCHANGED renames
      PROVE  Order'
  BY <1>2 DEF Order, Fit, Shape, Ensure
<1>3. ASSUME NEW t \in Threads, LoadCache(t), UNCHANGED renames
      PROVE  Order'
  BY <1>3 DEF Order, Fit, Shape, LoadCache, Goto
<1>4. ASSUME NEW t \in Threads, LoadRaises(t), UNCHANGED renames
      PROVE  Order'
  BY <1>4 DEF Order, Fit, Shape, LoadRaises, Ends
<1>5. ASSUME NEW t \in Threads, Use(t), UNCHANGED renames
      PROVE  Order'
  BY <1>5 DEF Order, Fit, Shape, Use
<1>6. ASSUME NEW t \in Threads, Truncate(t), UNCHANGED renames
      PROVE  Order'
  BY <1>6 DEF Order, Fit, Shape, Truncate, Goto
<1>7. ASSUME NEW t \in Threads, WriteRaises(t), UNCHANGED renames
      PROVE  Order'
  BY <1>7 DEF Order, Fit, Shape, WriteRaises, Ends
<1>8. ASSUME NEW t \in Threads, Return(t), UNCHANGED renames
      PROVE  Order'
  BY <1>8 DEF Order, Fit, Shape, Return, Ends
<1>9. ASSUME NEW t \in Threads, KeepList(t), UNCHANGED renames
      PROVE  Order'
  <2>1. window'[2] >= window[2] /\ window'[2] \in Nat /\ window[2] \in Nat
    BY <1>9, ListsFacts DEF KeepList, Windows, Shape
  <2>2. \A v \in Lists : Fit(v) => Fit(v)'
    BY <2>1, ListsFacts DEF Fit
  <2>3. QED
    BY <1>9, <2>2 DEF KeepList, Ends, Order, Shape, Attributes
<1>10. ASSUME NEW t \in Threads, Pull(t), UNCHANGED renames
       PROVE  Order'
  <2>1. PICK w \in Windows : \E i \in Newest(w) : window' = w /\ Pulls(t, All(i))
    BY <1>10 DEF Pull
  <2>2. PICK i \in Newest(w) : window' = w /\ Pulls(t, All(i))
    BY <2>1
  <2>3. /\ w \in Nat \X Nat /\ w[1] >= 1 /\ w[2] >= window[2] /\ window[2] \in Nat
        /\ i \in w[1]..w[2] /\ Yields(Posted[i])
        /\ \A j \in w[1]..w[2] : Yields(Posted[j]) => j <= i
    BY <2>2, ListsFacts DEF Windows, Newest, ParseHrr, Shape
  <2>4. \A v \in Lists : Fit(v) => Fit(v)'
    BY <2>2, <2>3, ListsFacts DEF Fit
  <2>5. Fit(i)' /\ \A v \in Lists : Fit(v) => i >= v
    BY <2>2, <2>3, ListsFacts DEF Fit
  <2>6. /\ new' = [new EXCEPT ![t] = All(i)] /\ All(i)["map"] = i
        /\ pc' = [pc EXCEPT ![t] = "installing"]
        /\ UNCHANGED <<saved, took, pulled, raced>>
    BY <2>2, AllFacts DEF Pulls, Goto
  <2>7. QED
    BY <2>4, <2>5, <2>6 DEF Order, Shape, Attributes
<1>11. ASSUME NEW t \in Threads, Assign(t), UNCHANGED renames
       PROVE  Order'
  <2>1. /\ pc[t] \in {"seeding", "installing"} /\ step[t] \in 0..2
        /\ pulled' = IF pc[t] = "installing" THEN new[t]["map"] ELSE pulled
        /\ ~raced' => ~raced
        /\ UNCHANGED <<saved, window, took, kind>>
    BY <1>11 DEF Assign, Assigning, Shape
  <2>2. /\ \A u \in Threads \ {t} : pc'[u] = pc[u] /\ new'[u] = new[u]
        /\ pc'[t] \notin {"writing", "refilling"}
        /\ pc'[t] = "installing" => pc[t] = "installing" /\ new'[t] = new[t]
    <3>1. CASE step[t] < 2
      BY <1>11, <2>1, <3>1 DEF Assign, Shape
    <3>2. CASE ~(step[t] < 2) /\ pc[t] = "seeding"
      BY <1>11, <3>2 DEF Assign, Shape, Goto
    <3>3. CASE ~(step[t] < 2) /\ pc[t] = "installing"
      BY <1>11, <3>3 DEF Assign, Shape, Goto
    <3>4. QED
      BY <2>1, <3>1, <3>2, <3>3
  <2>3. \A v : Fit(v)' <=> Fit(v)
    BY <2>1 DEF Fit
  <2>4. CASE pc[t] = "seeding"
    BY <2>1, <2>2, <2>3, <2>4 DEF Order
  <2>5. CASE pc[t] = "installing"
    <3>1. \A u \in Threads \ {t} :
            pc[u] \notin {"installing", "writing", "refilling"}
      BY <2>5 DEF OneRefresh
    <3>2. QED
      BY <2>1, <2>2, <2>3, <2>5, <3>1 DEF Order
  <2>6. QED
    BY <2>1, <2>4, <2>5
<1>12. ASSUME NEW t \in Threads, Gather(t), UNCHANGED renames
       PROVE  Order'
  <2>1. /\ pc[t] = "gathering" /\ Len(took[t]) <= 3 /\ took[t] \in Seq(Lists)
        /\ UNCHANGED <<saved, window, pulled, new, raced>>
        /\ took' = [took EXCEPT ![t] = Append(@, force[Gathered[Len(@) + 1]])]
    BY <1>12 DEF Gather, Shape, Progress
  <2>2. /\ \A u \in Threads \ {t} : pc'[u] = pc[u] /\ took'[u] = took[u]
        /\ pc'[t] # "installing" /\ pc'[t] # "refilling"
        /\ pc'[t] = "writing" => kind[t] = "refresh" /\ ~(Len(took[t]) < 3)
    BY <1>12, <2>1 DEF Gather, Shape
  <2>3. ASSUME pc'[t] = "writing", ~raced
        PROVE  took'[t][4] = pulled
    <3>1. Len(took[t]) \in Nat
      BY <2>1
    <3>2. Len(took[t]) = 3
      <4>1. ~(Len(took[t]) < 3)
        BY <2>2, <2>3
      <4>2. \A n \in Nat : n <= 3 /\ ~(n < 3) => n = 3
        OBVIOUS
      <4>3. QED
        BY <2>1, <3>1, <4>1, <4>2, Zenon
    <3>3. took'[t] = Append(took[t], force["map"])
      BY <2>1, <3>2 DEF Gathered, Shape
    <3>4. Append(took[t], force["map"])[4] = force["map"]
      <4>1. force["map"] \in Lists
        BY <2>1 DEF Filled, Shape, Attributes
      <4>2. \A s \in Seq(Lists), e \in Lists : Append(s, e)[Len(s) + 1] = e
        OBVIOUS
      <4>3. Append(took[t], force["map"])[Len(took[t]) + 1] = force["map"]
        BY <2>1, <4>1, <4>2, Zenon
      <4>4. Len(took[t]) + 1 = 4
        BY <3>2
      <4>5. QED
        BY <4>3, <4>4, Zenon
    <3>5. force["map"] = pulled
      BY <2>1, <2>2, <2>3 DEF OneRefresh, FreshStays
    <3>6. QED
      BY <3>3, <3>4, <3>5
  <2>4. \A v : Fit(v)' <=> Fit(v)
    BY <2>1 DEF Fit
  <2>5. QED
    BY <2>1, <2>2, <2>3, <2>4 DEF Order
<1>13. ASSUME NEW t \in Threads, Write(t), UNCHANGED renames
       PROVE  Order'
  <2>1. /\ pc[t] \in {"writing", "refilling"} /\ saved'["map"] = took[t][4]
        /\ pc' = [pc EXCEPT ![t] = "idle"]
        /\ took' = [took EXCEPT ![t] = <<>>]
        /\ UNCHANGED <<window, pulled, new, raced>>
    BY <1>13 DEF Write, Ends, Packed, Shape
  <2>2. \A u \in Threads \ {t} : pc[u] \notin {"installing", "writing", "refilling"}
    BY <2>1 DEF OneRefresh
  <2>3. \A v : Fit(v)' <=> Fit(v)
    BY <2>1 DEF Fit
  <2>4. QED
    BY <2>1, <2>2, <2>3, ListsFacts DEF Order, Shape
<1>14. CASE Crash /\ UNCHANGED renames
  BY <1>14 DEF Crash, Order, Fit
<1>15. CASE UNCHANGED vars
  BY <1>15 DEF vars, Order, Fit
<1>16. QED
  BY <1>1, <1>2, <1>3, <1>4, <1>5, <1>6, <1>7, <1>8, <1>9, <1>10, <1>11, <1>12,
     <1>13, <1>14, <1>15 DEF Next, Kinds

LEMMA StepForward ==
  IInv /\ Order /\ [Next]_vars =>
    (renames /\ ~raced' =>
       (disk = "whole" => disk' = "whole" /\ saved'.map >= saved.map))
<1> SUFFICES ASSUME IInv, Order, [Next]_vars, renames, ~raced', disk = "whole"
             PROVE  disk' = "whole" /\ saved'.map >= saved.map
  OBVIOUS
<1> USE DEF IInv
<1>1. CASE UNCHANGED <<disk, saved>>
  <2>1. saved.map \in Nat
    BY ListsFacts DEF Shape, Attributes
  <2>2. saved' = saved /\ disk' = disk
    BY <1>1
  <2>3. QED
    BY <2>1, <2>2
<1>2. ASSUME NEW t \in Threads, Write(t)
      PROVE  disk' = "whole" /\ saved'.map >= saved.map
  <2>1. /\ pc[t] \in {"writing", "refilling"} /\ saved'["map"] = took[t][4]
        /\ disk' = "whole" /\ ~raced
    BY <1>2 DEF Write, Packed
  <2>2. pulled # 0
    BY <2>1 DEF OneRefresh
  <2>3. QED
    BY <2>1, <2>2 DEF Order
<1>3. ASSUME NEW t \in Threads, Truncate(t)
      PROVE  FALSE
  BY <1>3 DEF Truncate
<1>4. ASSUME NEW t \in Threads, \/ \E k \in Kinds : Call(t, k)
                                \/ Ensure(t) \/ LoadCache(t) \/ LoadRaises(t)
                                \/ Assign(t) \/ Use(t) \/ KeepList(t) \/ Pull(t)
                                \/ Gather(t) \/ WriteRaises(t) \/ Return(t)
      PROVE  UNCHANGED <<disk, saved>>
  BY <1>4 DEF Call, Ensure, LoadCache, LoadRaises, Assign, Use, KeepList, Pull,
              Pulls, Gather, WriteRaises, Return
<1>5. ASSUME Crash \/ UNCHANGED vars
      PROVE  UNCHANGED <<disk, saved>>
  BY <1>5 DEF Crash, vars
<1>6. QED
  BY <1>1, <1>2, <1>3, <1>4, <1>5 DEF Next, Kinds

-----------------------------------------------------------------------------
(* Answers are whole *)

Even(v) == v["marking"] = v["map"] /\ v["generated"] = v["map"]

Half(t) == pc[t] = "installing" /\ step[t] > 0

\* Unless lists raced, attributes belong together wherever they are kept: in
\* the file, in the hands of a thread that assigns them, and in force except
\* while a refresh is half way through.  What is being gathered is then the
\* list in force, and a refresh gathers the list it pulled.
Together ==
  /\ mixed \in [Threads -> BOOLEAN]
  /\ ~raced =>
       /\ Even(saved)
       /\ \A t \in Threads : Even(new[t])
       /\ \A t \in Threads : Assigning(t) =>
            \A i \in 1..step[t] : force[Fields[i]] = new[t]["map"]
       /\ (loaded /\ \A t \in Threads : ~Half(t)) => Even(force)
       /\ \A t \in Threads :
            (kind[t] = "refresh" /\ pc[t] \in {"gathering", "writing", "refilling"}) =>
              \A i \in 1..Len(took[t]) : took[t][i] = pulled
       /\ \A t \in Threads : (pc[t] = "gathering" /\ ~mixed[t]) =>
            /\ \A u \in Threads : ~Half(u)
            /\ \A i \in 1..Len(took[t]) : took[t][i] = force["map"]
       /\ WholePayload

LEMMA InitTogether == Init => Together
BY AllFacts DEF Init, Together, Even, Assigning, Half, WholePayload

\* Steps that neither assign nor gather: whoever goes on, goes on with what it
\* has, or with nothing.
LEMMA SameTogether ==
  ASSUME Together, UNCHANGED <<force, step, pulled, raced>>, mixed' \in [Threads -> BOOLEAN],
         ~raced => Even(saved)' /\ \A t \in Threads : Even(new[t])',
         loaded' => loaded,
         \A t \in Threads :
           /\ pc'[t] = "installing" => pc[t] = "installing" \/ step[t] = 0
           /\ pc[t] = "installing" => pc'[t] = "installing"
           /\ Assigning(t)' => (Assigning(t) /\ new'[t] = new[t]) \/ step[t] = 0
           /\ \/ took'[t] = <<>>
              \/ /\ UNCHANGED <<took[t], kind[t]>> /\ mixed'[t] = mixed[t]
                 /\ pc'[t] = pc[t] \/ (pc[t] = "writing" /\ pc'[t] = "refilling")
              \/ Len(took'[t]) = 1 /\ pc'[t] = "answered"
           /\ (pc'[t] = "gathering" /\ ~mixed'[t]) =>
                (pc[t] = "gathering" /\ ~mixed[t]) \/ \A u \in Threads : ~Assigning(u)
  PROVE  Together'
<1> SUFFICES ASSUME ~raced
             PROVE  Together'
  BY DEF Together
<1> USE DEF Half, Assigning
<1>1. Even(saved)' /\ \A t \in Threads : Even(new[t])'
  OBVIOUS
<1>2. \A t \in Threads : Assigning(t)' =>
         \A i \in 1..step'[t] : force'[Fields[i]] = new'[t]["map"]
  BY DEF Together
<1>3. \A t \in Threads : Half(t)' <=> Half(t)
  OBVIOUS
<1>4. (loaded' /\ \A t \in Threads : ~Half(t)') => Even(force)'
  BY <1>3 DEF Together, Even
<1>5. \A t \in Threads :
         (kind'[t] = "refresh" /\ pc'[t] \in {"gathering", "writing", "refilling"}) =>
           \A i \in 1..Len(took'[t]) : took'[t][i] = pulled'
  BY DEF Together
<1>6. \A t \in Threads : (pc'[t] = "gathering" /\ ~mixed'[t]) =>
         /\ \A u \in Threads : ~Half(u)'
         /\ \A i \in 1..Len(took'[t]) : took'[t][i] = force'["map"]
  BY <1>3 DEF Together
<1>7. WholePayload'
  BY DEF Together, WholePayload
<1>8. QED
  BY <1>1, <1>2, <1>4, <1>5, <1>6, <1>7 DEF Together

LEMMA AssignTogether ==
  ASSUME IInv, Together, NEW t \in Threads, Assign(t)
  PROVE  Together'
<1> SUFFICES ASSUME ~raced'
             PROVE  Together'
  BY DEF Together, Assign
<1> DEFINE f == Fields[step[t] + 1]
<1>0. mixed' \in [Threads -> BOOLEAN]
  BY DEF Assign, Together
<1>1. /\ pc[t] \in {"seeding", "installing"} /\ step[t] \in 0..2
      /\ f \in Attributes /\ f = Fields[step[t] + 1]
      /\ ~raced /\ ~Races(t)
      /\ force' = [force EXCEPT ![f] = new[t][f]] /\ force \in [Attributes -> Lists \cup {None}]
      /\ step' = [step EXCEPT ![t] = (@ + 1) % 3]
      /\ pulled' = IF pc[t] = "installing" THEN new[t]["map"] ELSE pulled
      /\ mixed' = [u \in Threads |-> mixed[u] \/ pc[u] = "gathering"]
      /\ UNCHANGED <<saved, kind, took>>
  <2>1. pc[t] \in {"seeding", "installing"} /\ step[t] \in 0..2
    BY DEF IInv, Shape, Assign, Assigning
  <2>2. f \in Attributes
    BY <2>1 DEF Fields, Attributes
  <2>3. ~raced /\ ~Races(t)
    BY DEF Assign
  <2>4. QED
    BY <2>1, <2>2, <2>3 DEF Assign, IInv, Shape
<1>2. new[t][f] = new[t]["map"]
  BY <1>1 DEF Together, Even, Attributes
<1>3. /\ \A u \in Threads \ {t} : pc'[u] = pc[u] /\ new'[u] = new[u] /\ step'[u] = step[u]
      /\ step[t] < 2 => /\ pc'[t] = pc[t] /\ new'[t] = new[t] /\ loaded' = loaded
                        /\ step'[t] = step[t] + 1
      /\ ~(step[t] < 2) =>
            /\ pc'[t] = (IF pc[t] = "seeding" THEN "using" ELSE "gathering")
            /\ new'[t] = All(0) /\ step'[t] = 0 /\ step[t] = 2
            /\ pc[t] = "installing" => loaded' = loaded
  <2>1. CASE step[t] < 2
    BY <1>1, <2>1 DEF Assign, IInv, Shape
  <2>2. CASE ~(step[t] < 2) /\ pc[t] = "seeding"
    BY <1>1, <2>2 DEF Assign, IInv, Shape, Goto
  <2>3. CASE ~(step[t] < 2) /\ pc[t] = "installing"
    BY <1>1, <2>3 DEF Assign, IInv, Shape, Goto
  <2>4. QED
    BY <1>1, <2>1, <2>2, <2>3
\* Who assigns at the same time has the same list in hand.
<1>4. \A u \in Threads : Assigning(u) => new[u] = new[t]
  BY <1>1 DEF Races
\* A load that comes late finds in force what it assigns.
<1>5. (pc[t] = "seeding" /\ loaded) => force' = force /\ force = new[t]
  BY <1>1 DEF IInv, OneRefresh, Races
<1>6. force'[f] = new[t]["map"] /\ \A g \in Attributes \ {f} : force'[g] = force[g]
  BY <1>1, <1>2
<1>7. \A i \in 1..step[t] : force[Fields[i]] = new[t]["map"]
  BY <1>1 DEF Together, Assigning
<1>8. step[t] = 2 => Even(force') /\ force'["map"] = new[t]["map"]
  BY <1>1, <1>6, <1>7 DEF Even, Fields, Attributes
<1>9. \A u \in Threads \ {t} : pc[u] # "installing" \/ pc[t] # "installing"
  BY DEF IInv, OneRefresh
<1>10. Even(saved)' /\ \A u \in Threads : Even(new[u])'
  <2>1. Even(saved) /\ (\A u \in Threads : Even(new[u])) /\ Even(All(0))
    BY <1>1, AllFacts DEF Together, Even
  <2>2. \A u \in Threads : new'[u] = new[u] \/ new'[u] = All(0)
    BY <1>1, <1>3
  <2>3. saved' = saved
    BY <1>1
  <2>4. QED
    BY <2>1, <2>2, <2>3 DEF Even
<1>11. ASSUME NEW u \in Threads, Assigning(u)', NEW i \in 1..step'[u]
       PROVE  force'[Fields[i]] = new'[u]["map"]
  <2>1. Assigning(u) /\ new'[u] = new[t] /\ step'[u] \in 0..2
    BY <1>1, <1>3, <1>4, <1>11 DEF Assigning, IInv, Shape
  <2>2. CASE u = t
    BY <1>1, <1>3, <1>6, <1>7, <1>11, <2>1, <2>2 DEF Assigning, Fields, Attributes
  <2>3. CASE u # t
    <3>1. force[Fields[i]] = new[t]["map"] /\ Fields[i] \in Attributes
      BY <1>1, <1>3, <1>4, <1>11, <2>1, <2>3 DEF Together, Fields, Attributes
    <3>2. QED
      BY <1>6, <2>1, <3>1
  <2>4. QED
    BY <2>2, <2>3
<1>12. ASSUME loaded', \A u \in Threads : ~Half(u)'
       PROVE  Even(force)'
  <2>1. CASE step[t] = 2
    BY <1>8, <2>1 DEF Even
  <2>2. CASE step[t] # 2
    <3>1. step[t] < 2 /\ loaded
      BY <1>1, <1>3, <1>12, <2>2
    <3>2. pc[t] = "seeding"
      BY <1>1, <1>3, <1>12, <3>1 DEF Half
    <3>3. QED
      BY <1>1, <1>5, <3>1, <3>2 DEF Even, Together
  <2>3. QED
    BY <2>1, <2>2
<1>13. ASSUME NEW u \in Threads, kind'[u] = "refresh",
              pc'[u] \in {"gathering", "writing", "refilling"}, NEW i \in 1..Len(took'[u])
       PROVE  took'[u][i] = pulled'
  <2>1. CASE u = t
    <3>1. took[t] = <<>>
      BY <1>1 DEF IInv, Progress
    <3>2. QED
      BY <1>1, <1>13, <2>1, <3>1
  <2>2. CASE u # t
    <3>1. pc[t] # "installing" /\ pc[u] = pc'[u]
      BY <1>1, <1>3, <1>13, <2>2 DEF IInv, OneRefresh
    <3>2. QED
      BY <1>1, <1>13, <3>1 DEF Together
  <2>3. QED
    BY <2>1, <2>2
<1>14. ASSUME NEW u \in Threads, pc'[u] = "gathering", ~mixed'[u]
       PROVE  /\ \A x \in Threads : ~Half(x)'
              /\ \A i \in 1..Len(took'[u]) : took'[u][i] = force'["map"]
  <2>1. u = t
    BY <1>1, <1>3, <1>14
  <2>2. step[t] = 2 /\ pc[t] = "installing" /\ took'[u] = <<>>
    BY <1>1, <1>3, <1>14, <2>1 DEF IInv, Progress
  <2>3. \A x \in Threads : ~Half(x)'
    BY <1>3, <1>9, <2>1, <2>2 DEF Half
  <2>4. QED
    BY <2>2, <2>3
<1>15. WholePayload'
  BY <1>1 DEF Together, WholePayload
<1>16. QED
  BY <1>0, <1>10, <1>11, <1>12, <1>13, <1>14, <1>15 DEF Together

LEMMA GatherTogether ==
  ASSUME IInv, Together, NEW t \in Threads, Gather(t)
  PROVE  Together'
<1> SUFFICES ASSUME ~raced
             PROVE  Together'
  BY DEF Together, Gather
<1> DEFINE v == force[Gathered[Len(took[t]) + 1]]
<1>1. /\ pc[t] = "gathering" /\ took[t] \in Seq(Lists) /\ Len(took[t]) \in 0..3 /\ loaded
      /\ UNCHANGED <<saved, force, loaded, kind, step, new, pulled, raced, mixed>>
      /\ took' = [took EXCEPT ![t] = Append(took[t], v)]
      /\ \A u \in Threads \ {t} : pc'[u] = pc[u] /\ took'[u] = took[u]
      /\ took'[t] = Append(took[t], v)
      /\ pc'[t] \in {"gathering", "writing", "answered"}
      /\ pc'[t] = "writing" => kind[t] = "refresh"
  <2>1. pc[t] = "gathering" /\ took[t] \in Seq(Lists) /\ Len(took[t]) <= 3 /\ loaded
    BY DEF Gather, IInv, Shape, Progress, Filled
  <2>2. Len(took[t]) \in 0..3
    <3>1. Len(took[t]) \in Nat
      BY <2>1
    <3>2. \A n \in Nat : n <= 3 => n \in 0..3
      OBVIOUS
    <3>3. QED
      BY <2>1, <3>1, <3>2, Zenon
  <2>3. /\ UNCHANGED <<saved, force, loaded, kind, step, new, pulled, raced, mixed>>
        /\ took' = [took EXCEPT ![t] = Append(took[t], v)]
    BY DEF Gather
  <2>4. /\ \A u \in Threads \ {t} : pc'[u] = pc[u]
        /\ pc'[t] \in {"gathering", "writing", "answered"}
        /\ pc'[t] = "writing" => kind[t] = "refresh"
    BY DEF Gather, IInv, Shape
  <2>5. (\A u \in Threads \ {t} : took'[u] = took[u]) /\ took'[t] = Append(took[t], v)
    BY <2>3 DEF IInv, Shape
  <2>6. QED
    BY <2>1, <2>2, <2>3, <2>4, <2>5
<1>2. v \in Lists /\ Gathered[Len(took[t]) + 1] \in Attributes
  <2>1. \A i \in 1..4 : Gathered[i] \in Attributes
    BY DEF Gathered, Attributes
  <2>2. Gathered[Len(took[t]) + 1] \in Attributes
    BY <1>1, <2>1
  <2>3. force \in [Attributes -> Lists \cup {None}] /\ \A f \in Attributes : force[f] # None
    BY <1>1 DEF IInv, Shape, Filled
  <2>4. QED
    BY <2>2, <2>3
<1>3. /\ took'[t] \in Seq(Lists) /\ Len(took'[t]) = Len(took[t]) + 1
      /\ took'[t][Len(took[t]) + 1] = v
      /\ \A i \in 1..Len(took[t]) : took'[t][i] = took[t][i]
  BY <1>1, <1>2
<1>4. \A u \in Threads : (Half(u)' <=> Half(u)) /\ (Assigning(u)' <=> Assigning(u))
  BY <1>1 DEF Half, Assigning
<1>5. (\A u \in Threads : ~Half(u)) => v = force["map"]
  BY <1>1, <1>2 DEF Together, Even, Attributes
<1>6. ASSUME kind[t] = "refresh"
      PROVE  \A i \in 1..Len(took'[t]) : took'[t][i] = pulled
  <2>1. \A u \in Threads : ~Half(u)
    BY <1>1, <1>6 DEF IInv, OneRefresh, Half
  <2>2. v = pulled
    BY <1>1, <1>5, <1>6, <2>1 DEF IInv, OneRefresh, FreshStays
  <2>3. QED
    BY <1>1, <1>3, <1>6, <2>2 DEF Together
<1>7. ASSUME ~mixed[t]
      PROVE  /\ \A u \in Threads : ~Half(u)
             /\ \A i \in 1..Len(took'[t]) : took'[t][i] = force["map"]
  BY <1>1, <1>3, <1>5, <1>7 DEF Together
<1>8. WholePayload'
  <2>1. ASSUME NEW u \in Threads, Len(took'[u]) = 4, ~mixed[u], NEW i \in 1..3
        PROVE  took'[u][i] = took'[u][4]
    <3>1. CASE u = t
      BY <1>7, <2>1, <3>1
    <3>2. CASE u # t
      BY <1>1, <2>1, <3>2 DEF Together, WholePayload
    <3>3. QED
      BY <3>1, <3>2
  <2>2. QED
    BY <1>1, <2>1 DEF WholePayload
<1>9. /\ mixed' \in [Threads -> BOOLEAN] /\ Even(saved)'
      /\ \A u \in Threads : Even(new[u])'
      /\ \A u \in Threads : Assigning(u)' =>
           \A i \in 1..step'[u] : force'[Fields[i]] = new'[u]["map"]
      /\ (loaded' /\ \A u \in Threads : ~Half(u)') => Even(force)'
  BY <1>1, <1>4 DEF Together, Even
<1>10. \A u \in Threads :
         (kind'[u] = "refresh" /\ pc'[u] \in {"gathering", "writing", "refilling"}) =>
           \A i \in 1..Len(took'[u]) : took'[u][i] = pulled'
  BY <1>1, <1>6 DEF Together
<1>11. \A u \in Threads : (pc'[u] = "gathering" /\ ~mixed'[u]) =>
         /\ \A x \in Threads : ~Half(x)'
         /\ \A i \in 1..Len(took'[u]) : took'[u][i] = force'["map"]
  BY <1>1, <1>4, <1>7 DEF Together
<1>12. QED
  BY <1>8, <1>9, <1>10, <1>11 DEF Together

LEMMA StepTogether == IInv /\ Together /\ [Next]_vars => Together'
<1> SUFFICES ASSUME IInv, Together, [Next]_vars
             PROVE  Together'
  OBVIOUS
<1> USE DEF IInv
<1>1. ASSUME NEW t \in Threads, NEW k \in Kinds, Call(t, k)
      PROVE  Together'
  BY <1>1, SameTogether DEF Call, Goto, Shape, Progress, Together, Even, Assigning
<1>2. ASSUME NEW t \in Threads, Ensure(t)
      PROVE  Together'
  BY <1>2, SameTogether DEF Ensure, Shape, Progress, Together, Even, Assigning
<1>3. ASSUME NEW t \in Threads, LoadCache(t)
      PROVE  Together'
  <2>1. ~raced => Even(IF disk = "whole" THEN saved ELSE All(0))
    BY AllFacts DEF Together, Even
  <2>2. /\ saved' = saved /\ step[t] = 0
        /\ new'[t] = (IF disk = "whole" THEN saved ELSE All(0))
        /\ \A u \in Threads \ {t} : new'[u] = new[u]
    BY <1>3 DEF LoadCache, Goto, Shape, Progress
  <2>3. ~raced => Even(saved') /\ \A u \in Threads : Even(new'[u])
    BY <2>1, <2>2 DEF Together
  <2>4. QED
    <3>1. /\ UNCHANGED <<force, loaded, kind, step, took, pulled, raced, mixed>>
          /\ pc'[t] = "seeding" /\ pc[t] = "loading"
          /\ \A u \in Threads \ {t} : pc'[u] = pc[u]
      BY <1>3 DEF LoadCache, Goto, Shape
    <3>2. mixed' \in [Threads -> BOOLEAN]
      BY <3>1 DEF Together
    <3>3. ~raced => Even(saved)' /\ \A u \in Threads : Even(new[u])'
      BY <2>3 DEF Even
    <3>4. \A u \in Threads :
            /\ pc'[u] = pc[u] \/ (u = t /\ pc'[u] = "seeding" /\ pc[u] = "loading")
            /\ new'[u] = new[u] \/ (u = t /\ step[u] = 0)
      BY <2>2, <3>1
    <3>5. \A u \in Threads :
            /\ pc'[u] = "installing" => pc[u] = "installing" \/ step[u] = 0
            /\ pc[u] = "installing" => pc'[u] = "installing"
            /\ Assigning(u)' => (Assigning(u) /\ new'[u] = new[u]) \/ step[u] = 0
            /\ (pc'[u] = "gathering" /\ ~mixed'[u]) => pc[u] = "gathering" /\ ~mixed[u]
      BY <2>2, <3>1, <3>4 DEF Assigning
    <3>6. \A u \in Threads : took'[u] = <<>> \/ pc'[u] = pc[u]
      BY <3>1, <3>4 DEF Progress
    <3>7. QED
      BY <3>1, <3>2, <3>3, <3>5, <3>6, SameTogether
<1>4. ASSUME NEW t \in Threads, LoadRaises(t) \/ WriteRaises(t) \/ Return(t)
      PROVE  Together'
  <2>1. /\ Ends(t) /\ pc[t] \in {"loading", "writing", "refilling", "answered"}
        /\ UNCHANGED <<saved, force, loaded, step, new, pulled, raced>>
    BY <1>4 DEF LoadRaises, WriteRaises, Return
  <2>2. QED
    BY <2>1, SameTogether DEF Ends, Shape, Together, Even, Assigning
<1>5. ASSUME NEW t \in Threads, Use(t)
      PROVE  Together'
  <2>1. took[t] = <<>> /\ pc[t] = "using" /\ step[t] = 0
    BY <1>5 DEF Use, Progress
  <2>2. /\ UNCHANGED <<saved, force, loaded, kind, step, new, pulled, raced>>
        /\ mixed' \in [Threads -> BOOLEAN]
        /\ pc'[t] \in {"answered", "gathering", "pulling"}
        /\ pc'[t] = "gathering" /\ ~mixed'[t] => \A u \in Threads : ~Assigning(u)
        /\ \A u \in Threads \ {t} : pc'[u] = pc[u] /\ took'[u] = took[u] /\ mixed'[u] = mixed[u]
    BY <1>5 DEF Use, Shape, Together
  <2>3. took'[t] = <<>> \/ (Len(took'[t]) = 1 /\ pc'[t] = "answered")
    BY <1>5, <2>1 DEF Use, Shape
  <2>4. QED
    BY <2>1, <2>2, <2>3, SameTogether DEF Together, Even, Assigning
<1>6. ASSUME NEW t \in Threads, KeepList(t)
      PROVE  Together'
  BY <1>6, SameTogether DEF KeepList, Ends, Shape, Progress, Together, Even, Assigning
<1>7. ASSUME NEW t \in Threads, Pull(t)
      PROVE  Together'
  <2>1. PICK i : Pulls(t, All(i))
    BY <1>7 DEF Pull
  <2>2. QED
    BY <2>1, SameTogether, AllFacts DEF Pulls, Goto, Shape, Progress, Together, Even, Assigning
<1>8. ASSUME NEW t \in Threads, Truncate(t)
      PROVE  Together'
  BY <1>8, SameTogether DEF Truncate, Goto, Shape, Progress, Together, Even, Assigning
<1>9. ASSUME NEW t \in Threads, Write(t)
      PROVE  Together'
  <2>1. pc[t] \in {"writing", "refilling"} /\ kind[t] = "refresh" /\ Len(took[t]) = 4
    BY <1>9 DEF Write, OneRefresh, Progress
  <2>2. ~raced => Even(Packed(t))
    BY <2>1 DEF Together, Packed, Even
  <2>3. QED
    BY <1>9, <2>1, <2>2, SameTogether DEF Write, Ends, Shape, Progress, Together, Even, Assigning
<1>10. CASE Crash
  BY <1>10, AllFacts DEF Crash, Together, Even, Assigning, Half, WholePayload
<1>11. CASE UNCHANGED vars
  BY <1>11, SameTogether DEF vars, Together, Even, Assigning
<1>12. QED
  BY <1>1, <1>2, <1>3, <1>4, <1>5, <1>6, <1>7, <1>8, <1>9, <1>10, <1>11,
     AssignTogether, GatherTogether DEF Next, Kinds

-----------------------------------------------------------------------------
(* The theorems *)

LEMMA Invariance == Spec => [](IInv /\ Order /\ Together)
<1>1. Init => IInv /\ Order /\ Together
  BY InitIInv, InitOrder, InitTogether
<1>2. (IInv /\ Order /\ Together) /\ [Next]_vars => (IInv /\ Order /\ Together)'
  BY StepIInv, StepOrder, StepTogether
<1>3. QED
  BY <1>1, <1>2, PTL DEF Spec

\* Every variable of the store keeps its type, and a volume with rename never
\* holds a torn file (hrr.py l.183-192).
THEOREM TypeCorrect == Spec => []TypeOK
<1>1. IInv => TypeOK
  BY TypesFollow DEF IInv
<1>2. QED
  BY <1>1, Invariance, PTL

\* However many threads find the list not loaded at the same time, none is
\* answered with, or saves, a list that is not there (hrr.py l.195-229).
THEOREM NeverEmptyHolds == Spec => []NeverEmpty
<1>1. IInv => NeverEmpty
  <2>1. SUFFICES ASSUME IInv, NEW t \in Threads, NEW i \in 1..Len(took[t])
                 PROVE  took[t][i] # None
    BY DEF NeverEmpty
  <2>2. took[t] \in Seq(Lists)
    BY <2>1 DEF IInv, Shape
  <2>3. took[t][i] \in Lists
    BY <2>1, <2>2
  <2>4. QED
    BY <2>3, ListsFacts
<1>2. QED
  BY <1>1, Invariance, PTL

\* Failing pulls, answers without a list and failing writes leave the list in
\* force that was pulled last (hrr.py l.304-335).
THEOREM FreshStaysHolds == Spec => []FreshStays
<1>1. IInv => FreshStays
  BY DEF IInv
<1>2. QED
  BY <1>1, Invariance, PTL

\* What an answer, or the file, says of the list is said of one list, unless
\* something was assigned while it was put together (hrr.py l.217-224, l.268-284).
THEOREM WholePayloadHolds == Spec => []WholePayload
<1>1. IInv /\ Together => WholePayload
  BY DEF Together, WholePayload
<1>2. QED
  BY <1>1, Invariance, PTL

\* A process that has pulled nothing works with the list that was saved last,
\* or with the bundled one when there is none (hrr.py l.195-215).
THEOREM LastKnownGoodHolds == Spec => []LastKnownGood
<1>1. IInv => LastKnownGood
  BY DEF IInv
<1>2. QED
  BY <1>1, Invariance, PTL

\* On a volume with rename the saved list never goes back to an older one, over
\* any number of restarts (hrr.py l.217-224, l.304-335).
THEOREM SavedForwardHolds == Spec => SavedForward
<1>1. (IInv /\ Order) /\ [Next]_vars =>
        [(renames /\ ~raced') =>
           (disk = "whole" => disk' = "whole" /\ saved'.map >= saved.map)]_vars
  BY StepForward
<1>2. QED
  BY <1>1, Invariance, PTL DEF Spec, SavedForward

=============================================================================
