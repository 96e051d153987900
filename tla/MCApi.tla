------------------------------- MODULE MCApi -------------------------------
(* A small instance of Api.  A turn is 12 longitudes; the queries are the    *)
(* inputs of each handler around its borders.                               *)
EXTENDS Api, TLC

Limits == [global |-> 2, strict |-> 1]
AnyOrder == Permutations(Threads)

-----------------------------------------------------------------------------
(* Tracks and the list *)

Obj(mode, marking, samples) == [mode |-> mode, marking |-> marking, samples |-> samples]
Entry(name, country, rank) == [name |-> name, country |-> country, rank |-> rank]

Stored ==
  [a |-> Obj("REAL", "S", {1}), b |-> Obj("SIMULATED", "CUI", {1}),
   c |-> Obj("LIVE", "SECRET", {1}), d |-> Obj("REAL", "TS", {})]

Ranked == [a |-> Entry("a", "", 1), b |-> Entry("Bird", "r", NoRank), d |-> Entry("Dog", "x", 2)]
OutOfRange == [a |-> Entry("a", "b", 7)]

TrackQueries ==
  [kind : {"tracks"}, objects : {Stored}, list : {Ranked, OutOfRange},
   view : {"combined", "other"}, modes : {{}, {"REAL", "TEST"}, {"odd"}},
   ranks : {{}, {1}, {2, 5}, {0}}]

HrrQueries == [kind : {"hrr"}, list : {Ranked, OutOfRange}]

-----------------------------------------------------------------------------
(* Screening: a target beside the seam and its neighbours *)

Place(lon, plane, elset) == [lon |-> lon, plane |-> plane, elset |-> elset, name |-> "n"]

Placed ==
  {[a |-> Place(5, TRUE, TRUE), b |-> Place(x, TRUE, TRUE), c |-> Place(y, TRUE, TRUE),
    d |-> Place(4, TRUE, e), e |-> Place(-1000, TRUE, TRUE)] :
      x \in {-6, -4, 2}, y \in {-5, 3}, e \in BOOLEAN}
  \cup {[a |-> Place(5, FALSE, FALSE), b |-> Place(5, TRUE, TRUE)]}

Ranges == {[a |-> 0, b |-> 2, c |-> 1, d |-> 3, e |-> 0],
           [a |-> 0, b |-> 1, c |-> 1, d |-> -1, e |-> 0]}
Overs == {[t \in 0..6 |-> f[t + 1]] : f \in
            {<<5, 4, 3, 2, 1, 2, 3>>, <<5, 4, 3, 1, 2, 3, 4>>, <<1, 2, 3, 4, 5, 6, 7>>,
             <<3, 2, 3, 4, 3, 2, 3>>, <<7, 6, 5, 4, 3, 1, 2>>, <<3, -1, 2, -1, -1, 1, 4>>}}

BeltQueries ==
  {[kind |-> "conjunctions", list |-> Ranked, objects |-> objs, target |-> g, range |-> r,
    halfWidth |-> 3, cap |-> 2, over |-> o, window |-> 6] :
      objs \in Placed, g \in {"a", "z"}, r \in Ranges,
      o \in {CHOOSE o \in Overs : TRUE}}
  \cup {[kind |-> "conjunctions", list |-> Ranked, objects |-> CHOOSE p \in Placed : TRUE,
         target |-> "b", range |-> CHOOSE r \in Ranges : TRUE,
         halfWidth |-> 2, cap |-> 1, over |-> o, window |-> 6] : o \in Overs}
  \cup {[kind |-> "coplanar", list |-> Ranked, objects |-> objs, target |-> g,
         range |-> [a |-> 0, b |-> 2, c |-> 1, d |-> 1, e |-> 0],
         halfWidth |-> w, cap |-> 2] : objs \in Placed, g \in {"a", "z"}, w \in {1, 3}}

-----------------------------------------------------------------------------
(* Element sets *)

Pair(n) == <<[mark |-> "1", sound |-> TRUE, number |-> n], [mark |-> "2", sound |-> TRUE, number |-> n]>>
Torn == <<[mark |-> "1", sound |-> FALSE, number |-> 5], [mark |-> "2", sound |-> TRUE, number |-> 5]>>

F(epoch, source, usable, candidate, marking, lines) ==
  [epoch |-> epoch, source |-> source, usable |-> usable, candidate |-> candidate,
   lines |-> lines, marking |-> marking]

\* Of EXO an older and a newer fix, and one of the same epoch that is unusable.
Fixes ==
  {F(1, "EXO", TRUE, TRUE, <<"U", "PR">>, Pair(5)),
   F(3, "EXO", TRUE, TRUE, <<"U">>, Pair(6)),
   F(3, "EXO", FALSE, TRUE, <<"U">>, <<>>),
   F(2, "JCO", TRUE, TRUE, <<"U">>, Pair(105)),
   F(3, "JCO by EXO", TRUE, TRUE, <<"S">>, Torn),
   F(4, "other", TRUE, TRUE, <<"U">>, Pair(NoNumber)),
   F(5, "MANUAL", TRUE, FALSE, <<"U">>, <<>>)}

Arrivals(k) == {f \in [1..k -> Fixes] : IsInjective(f)}

TleQueries ==
  [kind : {"tle"}, fixes : UNION {Arrivals(k) : k \in 0..2},
   number : {NoNumber, 5}, priority : {<<"any">>, <<"government", "mil">>}]
  \cup [kind : {"tle"}, fixes : Arrivals(3), number : {5}, priority : {<<>>}]

-----------------------------------------------------------------------------
(* Drift and pulls *)

At(at, lon) == [at |-> at, lon |-> lon]

DriftQueries ==
  [kind : {"drift"},
   samples : {<<>>, <<At(1, 5)>>, <<At(1, 5), At(2, -6)>>,
              <<At(1, 4), At(2, 5), At(4, -6), At(5, 5)>>,
              <<At(0, -5), At(3, 5), At(8, 4), At(9, -6)>>,
              <<At(0, -5), At(8, 5)>>,
              <<At(0, 0), At(4, 5), At(6, -2), At(10, 4)>>}]

PullQueries ==
  [kind : {"pull"}, start : {Unset, 0, 3}, end : {Unset, 3, 9}, hours : {0, 2, 9}]

AllQueries ==
  TrackQueries \cup HrrQueries \cup BeltQueries \cup TleQueries \cup DriftQueries
    \cup PullQueries
=============================================================================
