-------------------------------- MODULE Api --------------------------------
(***************************************************************************)
(* The reading side of psirens.main: the requests of one client pass a rate *)
(* limiter (psirens.security), of which there are two, and are answered     *)
(* from what the stores hold then.  A call stamps the time before it takes  *)
(* the limiter's lock, so calls may be counted in another order than they   *)
(* are stamped in.                                                          *)
(***************************************************************************)
EXTENDS Tle, Tracks, Screening

CONSTANTS
  Threads,
  Limit,   \* limit of each limiter: global_rl for reads, strict_rl for pulls
  Period,  \* window_s
  Queries, \* what is asked, of which data: records with a kind
  MaxTime

ASSUME NumbersAssumption ==
  /\ {"global", "strict"} \subseteq DOMAIN Limit
  /\ \A r \in DOMAIN Limit : Limit[r] \in Nat
  /\ Period \in Nat /\ MaxTime \in Nat /\ FitWindow \in Nat /\ MinSpan \in Nat
  /\ MaxHours \in Nat \ {0} /\ Turn \in Nat \ {0} /\ Coarse \in Nat \ {0}

\* Samples are in the order of time; longitudes are normalised; the window of a
\* screening is whole coarse steps.
ASSUME QueriesAssumption ==
  \A q \in Queries :
    /\ q.kind = "pull" => q.start \in Int /\ q.end \in Int /\ q.hours \in Int
    /\ q.kind = "tle" =>
         /\ q.fixes \in Seq(Fix) /\ q.priority \in Seq(STRING)
    /\ q.kind = "drift" =>
         /\ q.samples \in Seq([at : Int, lon : Int])
         /\ \A i, j \in DOMAIN q.samples : i < j => q.samples[i].at <= q.samples[j].at
    /\ q.kind \in {"conjunctions", "coplanar"} =>
         /\ IsFiniteSet(DOMAIN q.objects) /\ q.cap \in Nat /\ q.halfWidth \in Int
         /\ \A o \in DOMAIN q.objects :
              /\ q.range[o] \in Int
              /\ q.objects[o].lon \in {NoLon} \cup -(Turn \div 2)..Turn \div 2
    /\ q.kind = "conjunctions" =>
         /\ q.window \in {k * Coarse : k \in 0..q.window}
         /\ q.over \in [0..q.window -> Int]

VARIABLES
  now,
  pc,       \* "idle", "stamped" or "admitted"
  tier,     \* the limiter a call has to pass
  stamp,    \* the time a call read
  hits,     \* the stamps that each limiter holds
  query, answer, \* the last one that was answered
  latest,   \* the latest stamp that each limiter has seen
  admitted  \* the stamps of the calls that each limiter let in, but for late
            \* ones: those that it saw after a later stamp

vars == <<now, pc, tier, stamp, hits, query, answer, latest, admitted>>

Tiers == DOMAIN Limit
Nothing == [kind |-> "nothing"]

TypeOK ==
  /\ now \in 0..MaxTime
  /\ pc \in [Threads -> {"idle", "stamped", "admitted"}]
  /\ tier \in [Threads -> Tiers]
  /\ stamp \in [Threads -> 0..MaxTime]
  /\ \A r \in Tiers : /\ Len(hits[r]) <= Limit[r]
                      /\ \A i \in DOMAIN hits[r] : hits[r][i] \in 0..now
  /\ query.kind = "pull" =>
       \/ answer = NoWindow
       \/ answer.start < answer.end /\ answer.end - answer.start <= MaxHours

Init ==
  /\ now = 0
  /\ pc = [t \in Threads |-> "idle"] /\ stamp = [t \in Threads |-> 0]
  /\ tier = [t \in Threads |-> "global"]
  /\ hits = [r \in Tiers |-> <<>>] /\ latest = [r \in Tiers |-> 0]
  /\ query = Nothing /\ answer = Nothing
  /\ admitted = [r \in Tiers |-> <<>>]

Tick ==
  /\ now < MaxTime /\ now' = now + 1
  /\ query' = Nothing /\ answer' = Nothing
  /\ UNCHANGED <<pc, tier, stamp, hits, latest, admitted>>

Arrive(t, r) ==
  /\ pc[t] = "idle"
  /\ pc' = [pc EXCEPT ![t] = "stamped"]
  /\ tier' = [tier EXCEPT ![t] = r]
  /\ stamp' = [stamp EXCEPT ![t] = now]
  /\ query' = Nothing /\ answer' = Nothing
  /\ UNCHANGED <<now, hits, latest, admitted>>

InPeriod(stamps, at) == RowsAt(stamps, {i \in DOMAIN stamps : at - stamps[i] < Period})

\* Slip: one too many is let in.
HoldsOneMore(t) ==
  [kept |-> InPeriod(hits[tier[t]], stamp[t]),
   open |-> Len(InPeriod(hits[tier[t]], stamp[t])) <= Limit[tier[t]]]

\* What is left of the hits under the lock, and whether there is room.
Holds(t) ==
  [kept |-> InPeriod(hits[tier[t]], stamp[t]),
   open |-> Len(InPeriod(hits[tier[t]], stamp[t])) < Limit[tier[t]]]

Allow(t) ==
  LET r == tier[t]
  IN /\ pc[t] = "stamped"
     /\ latest' = [latest EXCEPT ![r] = Max({@, stamp[t]})]
     /\ IF Holds(t).open
        THEN /\ pc' = [pc EXCEPT ![t] = "admitted"]
             /\ hits' = [hits EXCEPT ![r] = Append(Holds(t).kept, stamp[t])]
             /\ admitted' = IF stamp[t] < latest[r] THEN admitted
                            ELSE [admitted EXCEPT ![r] = Append(@, stamp[t])]
             /\ UNCHANGED tier
        ELSE /\ pc' = [pc EXCEPT ![t] = "idle"]
             /\ tier' = [tier EXCEPT ![t] = "global"]
             /\ hits' = [hits EXCEPT ![r] = Holds(t).kept]
             /\ UNCHANGED admitted
     /\ stamp' = [stamp EXCEPT ![t] = 0]
     /\ query' = Nothing /\ answer' = Nothing
     /\ UNCHANGED now

-----------------------------------------------------------------------------
(* The handlers *)

\* Answers are read from the stores and change nothing, so they are looked at
\* one at a time.
Answers(t, q, a) ==
  /\ query = Nothing
  /\ pc[t] = "admitted" /\ tier[t] = (IF q.kind = "pull" THEN "strict" ELSE "global")
  /\ pc' = [pc EXCEPT ![t] = "idle"]
  /\ tier' = [tier EXCEPT ![t] = "global"]
  /\ query' = q /\ answer' = a
  /\ UNCHANGED <<now, stamp, hits, latest, admitted>>

GetTracks(t, q) ==
  /\ q.kind = "tracks"
  /\ LET modes == ParseModes(q.view, q.modes)
     IN Answers(t, q, IF modes = Refused \/ ~ParseRanks(q.ranks)
                      THEN [tracks |-> {}, banner |-> "refused"]
                      ELSE TracksPayload(q.objects, q.list, modes, q.ranks))

GetHrr(t, q) ==
  /\ q.kind = "hrr"
  /\ Answers(t, q, [o \in DOMAIN q.list |->
                      [entry |-> q.list[o], affiliation |-> AffiliationOf(q.list[o].country)]])

\* What the two screenings show, each object under its name.
Named(q, shown) ==
  [i \in DOMAIN shown |->
     [id |-> shown[i],
      name |-> DisplayName(shown[i], q.objects[shown[i]].name, Names(q.list))]]

GetConjunctions(t, q) ==
  /\ q.kind = "conjunctions"
  /\ Answers(t, q, [shown |-> Named(q, ConjunctionsFor(q.objects, q.target, q.range,
                                                       q.halfWidth, q.cap)),
                    approach |-> ClosestApproach(q.over, q.window)])

GetCoplanar(t, q) ==
  /\ q.kind = "coplanar"
  /\ Answers(t, q, [shown |-> Named(q, CoplanarFor(q.objects, q.target, q.range,
                                                   q.halfWidth, q.cap))])

\* The part of a conjunctions answer that is one object's element set.
GetTle(t, q) ==
  /\ q.kind = "tle"
  /\ Answers(t, q, TleFor(Retained(q.fixes), q.number, ParsePriority(q.priority)))

\* The part of a tracks answer that the drift rate is fitted to.
GetDrift(t, q) ==
  /\ q.kind = "drift"
  /\ Answers(t, q, Unwrap(WindowOf(q.samples)))

PostPull(t, q) ==
  /\ q.kind = "pull"
  /\ Answers(t, q, ResolveWindow(q, now))

Next ==
  \/ Tick
  \/ \E t \in Threads :
       \/ \E r \in Tiers : Arrive(t, r)
       \/ Allow(t)
       \/ pc[t] = "admitted" /\ query = Nothing /\ \E q \in Queries :
            \/ GetTracks(t, q) \/ GetHrr(t, q) \/ GetConjunctions(t, q)
            \/ GetCoplanar(t, q) \/ GetTle(t, q) \/ GetDrift(t, q) \/ PostPull(t, q)

Spec == Init /\ [][Next]_vars

-----------------------------------------------------------------------------
(* Properties *)

\* However calls overtake each other between stamping the time and taking the
\* lock, of the calls that did not come late no period holds more admitted
\* stamps than the limit (security.py l.33-42).
AdmittedBounded ==
  \A r \in Tiers : \A from \in 0..now :
    Cardinality({i \in DOMAIN admitted[r] : admitted[r][i] - from \in 0..Period - 1}) <= Limit[r]

\* The published fix is the best of those that stand: the fixes that can be
\* propagated and that no later one of their provider has replaced.  None that
\* stands is of an earlier class of the policy, and none of the same class is
\* newer; what is published stands itself, and only when none does is it the
\* newest fix of all, manual ones included, also under the policy "any", which
\* tle.py l.20-22 calls newest-fix-wins across all sources.  Native lines that are served name
\* the object itself (tle.py l.9-24 "the first class holding any candidate
\* wins, and within that class the newest epoch wins").
PolicyHolds ==
  query.kind = "tle" =>
    LET policy == ParsePriority(query.priority)
        el == answer.elset
        fixes == query.fixes
        standing == {i \in DOMAIN fixes :
                       /\ fixes[i].candidate /\ fixes[i].usable
                       /\ ~\E j \in DOMAIN fixes :
                             /\ fixes[j].candidate /\ fixes[j].source = fixes[i].source
                             /\ Replaces(fixes, j, i)}
        place(x) == Min({Len(policy) + 1} \cup
                        {i \in DOMAIN policy : policy[i] = ClassifySource(x.source)})
    IN /\ \A i \in standing :
            /\ place(el) <= place(fixes[i])
            /\ place(el) = place(fixes[i]) => fixes[i].epoch <= el.epoch
       /\ standing # {} => \E i \in standing : el = fixes[i]
       /\ standing = {} /\ el # NoFix =>
            /\ el.usable
            /\ \E i \in DOMAIN fixes : el = fixes[i] /\ \A j \in DOMAIN fixes : ~Replaces(fixes, j, i)
       /\ el.source \in Government => answer.provenance.class = "government"
       /\ answer.native =>
            /\ query.number \in {NoNumber, el.lines[1].number}
            /\ answer.provenance.epoch = el.epoch

Apart(a, b, range) == \E k \in {-1, 0, 1} : a - b + k * Turn \in -range..range

\* What a screening may show around the seam as elsewhere.
Near(q, fit(_)) ==
  {o \in DOMAIN q.objects \ {q.target} :
     /\ q.target \in DOMAIN q.objects /\ fit(q.objects[o]) /\ fit(q.objects[q.target])
     /\ q.objects[o].lon # NoLon /\ q.objects[q.target].lon # NoLon
     /\ Apart(q.objects[o].lon, q.objects[q.target].lon, q.halfWidth)}

\* The first of them: none that is left out, or comes later, is before one that
\* is shown, and none is left out while there is room.
FirstAreShown(near, shown, cap, before(_, _)) ==
  LET ids == {shown[i].id : i \in DOMAIN shown}
  IN /\ ids \subseteq near
     /\ Len(shown) = Min({cap, Cardinality(near)}) /\ Cardinality(ids) = Len(shown)
     /\ \A o \in ids, x \in near \ ids : ~before(x, o)
     /\ \A i, j \in DOMAIN shown : i < j => ~before(shown[j].id, shown[i].id)

\* A screening shows the neighbours that are nearest now, or in the nearest
\* planes (conjunction.py l.237-254, coplanar.py l.123-152).  The closest
\* approach that goes with one is no longer than the range at any time when the
\* range has one dip, and with several is off by no more than the range can
\* change in half a coarse step (conjunction.py l.149-160).
ClosestShown ==
  /\ query.kind = "conjunctions" =>
       LET fit(obj) == obj.elset
           before(x, o) == /\ query.range[x] # NoRange
                           /\ \/ query.range[o] = NoRange
                              \/ query.range[x] < query.range[o]
           r == query.over
           times == 0..query.window
           least == Min({r[t] : t \in times})
           dips(t) == /\ \A u \in 0..t - 1 : r[u] > r[u + 1]
                      /\ \A u \in t..query.window - 1 : r[u] < r[u + 1]
       IN /\ FirstAreShown(Near(query, fit), answer.shown, query.cap, before)
          /\ (NoRange \notin {r[t] : t \in times}) =>
               /\ r[answer.approach.tca] = answer.approach.min
               /\ (\E t \in times : dips(t)) => answer.approach.min = least
               /\ (\A t \in 1..query.window : r[t] - r[t - 1] \in -1..1) =>
                    answer.approach.min <= least + Coarse \div 2
  /\ query.kind = "coplanar" =>
       LET fit(obj) == obj.plane
           lon(o) == query.objects[o].lon - query.objects[query.target].lon
           nearer(x, o) == \A d \in 0..Turn : Apart(lon(o), 0, d) => Apart(lon(x), 0, d)
           before(x, o) == \/ query.range[x] < query.range[o]
                           \/ query.range[x] = query.range[o] /\ nearer(x, o) /\ ~nearer(o, x)
       IN FirstAreShown(Near(query, fit), answer.shown, query.cap, before)

\* All that a query of tracks would show without its ranks, and for one rank.
AllTracks == TracksPayload(query.objects, query.list, ParseModes(query.view, query.modes), {}).tracks
OfRank(k) == TracksPayload(query.objects, query.list, ParseModes(query.view, query.modes), {k}).tracks
TracksShown == query.kind = "tracks" /\ answer.banner # "refused"
MarkingsShown == {query.objects[o].marking : o \in answer.tracks}

\* What the plot loads rank by rank is what it would load at once: an object
\* is shown for one of the five ranks and no other, but for those that the list
\* ranks outside of 1 to 5, which are shown for none, though main.py l.91-92 calls
\* them background.  The banner is one of the markings it stands above, and none
\* that the table knows is higher; l.74 says so of any marking, but one that the
\* table does not know counts as "U" (main.py l.74-97, l.126-139).
TracksComplete ==
  TracksShown =>
    LET missed == {o \in DOMAIN query.list : query.list[o].rank \notin {NoRank} \cup 1..5}
    IN /\ \A o \in AllTracks \ missed : \E k \in 1..5 :
            \A j \in 1..5 : o \in OfRank(j) <=> j = k
       /\ \A k \in 1..5 : OfRank(k) \subseteq AllTracks \ missed
       /\ answer.banner \in {"UNCLASSIFIED"} \cup MarkingsShown
       /\ \A m \in MarkingsShown \cap DOMAIN MarkingRank :
            MarkingRank[m] <= MarkingRank[answer.banner]

\* A rate is fitted to a window that ends with the newest fix and spans a full
\* sidereal day, and to none only when the whole history is shorter; crossing
\* the seam is not a jump: the fitted longitudes are those of the fixes, taken
\* the shortest way round (astro.py l.145-160, l.246-263).
DriftHonest ==
  query.kind = "drift" =>
    LET s == query.samples
        fitted == answer
        n == Len(fitted)
        offset == Len(s) - n
    IN /\ n = 0 \/ (n >= 2 /\ Span(fitted) >= MinSpan)
       /\ n = 0 => Len(s) < 2 \/ Span(s) < MinSpan
       /\ \A i \in 1..n :
            /\ fitted[i].at = s[offset + i].at
            /\ (fitted[i].lon - s[offset + i].lon) % Turn = 0
            /\ i > 1 => fitted[i].lon - fitted[i - 1].lon \in -(Turn \div 2)..(Turn \div 2)

=============================================================================
