------------------------------ MODULE UdlFetch ------------------------------
(***************************************************************************)
(* psirens.sources.UDLElsetSource.fetch: a window is cut into slices, each  *)
(* slice is one request, and a page that looks truncated is thrown away and *)
(* its window halved.  The recursion of _fetch_slice is the list of windows *)
(* still to be requested; its nested merges are one merge per page in the   *)
(* same order, which comes to the same as later fixes win at every level.   *)
(*                                                                         *)
(* The upstream goes on receiving rows while it is asked.  It answers with  *)
(* at most Cap rows, the oldest, and does not say when there were more.     *)
(***************************************************************************)
EXTENDS Integers, FiniteSets, SequencesExt

CONSTANTS
  Rows,       \* the rows that the upstream may hold
  Windows,    \* the windows that callers ask for
  SliceSpans, \* the values that UDL_SLICE_HOURS may be set to
  Providers,
  Cap,        \* rows per answer, also when UDL_MAX_RESULTS asks for fewer
  Threshold,  \* UDL_TRUNCATION_THRESHOLD
  MinSlice,   \* _MIN_SLICE
  MaxDepth,   \* _MAX_SPLIT_DEPTH
  MaxFails,   \* bound on failing requests
  MaxBlanks,  \* bound on the windows that are answered by no list
  MaxLate     \* bound on rows that arrive during a fetch

\* A row is usable, skipped for a field that is missing or does not propagate,
\* or no object at all, on which _normalise raises.
Row == [id : STRING, epoch : Nat \ {0}, source : Providers,
        form : {"usable", "skipped", "alien"}]

ASSUME UdlFetchAssumption ==
  /\ Rows \subseteq Row /\ IsFiniteSet(Rows)
  \* Both callers see to it that a window begins before it ends.
  /\ \A w \in Windows : w.start \in Nat /\ w.end \in Nat /\ w.start < w.end
  /\ MinSlice \in Nat \ {0} /\ MaxDepth \in Nat \ {0}
  \* UDL_SLICE_HOURS below one hour counts as one, and that is two _MIN_SLICE.
  /\ SliceSpans \subseteq Nat /\ \A s \in SliceSpans : MinSlice <= s
  /\ Threshold \in Int /\ Cap \in Int
  /\ Threshold <= Cap  \* or a full page could never be told from a short one

VARIABLES
  upstream,  \* the rows it holds
  span,      \* UDL_SLICE_HOURS; it never changes
  pc,        \* "idle", "asking", "done" or "raised"
  asked,     \* the window of this fetch
  todo,      \* windows still to be requested, each with its depth of splitting
  merged,    \* the records gathered
  stats,     \* last_stats
  due,       \* usable rows of the window that were there when the fetch began
  got,       \* usable rows of the pages that were kept
  cut,       \* the windows of the full pages that were kept
  blank      \* the windows whose answer was no list (these four say what the
             \* fetch could have known; the program does not have them)

ghosts == <<due, got, cut, blank>>
vars == <<upstream, span, pc, asked, todo, merged, stats, ghosts>>

NoStats == [requests |-> 0, failures |-> 0, rows |-> 0, objects |-> 0]
NoRecords == [o \in {} |-> 0]

TypeOK ==
  /\ upstream \subseteq Rows
  /\ span \in SliceSpans
  /\ pc \in {"idle", "asking", "done", "raised"}
  /\ \A i \in DOMAIN todo :
       todo[i].start < todo[i].end /\ todo[i].depth \in 0..MaxDepth
  /\ stats \in [DOMAIN NoStats -> Nat] /\ stats.failures <= stats.requests
  /\ due \cup got \subseteq Rows
  /\ \A w \in cut \cup blank : w.start < w.end /\ w.depth \in 0..MaxDepth

Init ==
  /\ upstream \in SUBSET Rows
  /\ span \in SliceSpans
  /\ pc = "idle"
  /\ asked \in Windows
  /\ todo = <<>> /\ merged = NoRecords /\ stats = NoStats
  /\ due = {} /\ got = {} /\ cut = {} /\ blank = {}

-----------------------------------------------------------------------------
(* Rows to records, and records merged into records *)

Within(w) == {r \in upstream : w.start <= r.epoch /\ r.epoch <= w.end}
Usable(rows) == {r \in rows : r.form = "usable"}

Later(e, f) == IF f >= e THEN f ELSE e
Newest(epochs) == Max({0} \cup epochs)  \* 0 stands for no fix

\* What _normalise and _record_elset make of the usable rows of one object.
RecordOf(rows) ==
  [samples |-> {r.epoch : r \in rows},
   elset |-> Newest({r.epoch : r \in rows}),
   candidates |-> [p \in Providers |->
                     Newest({r.epoch : r \in {x \in rows : x.source = p}})]]

Normalise(page) ==
  [o \in {r.id : r \in Usable(page)} |-> RecordOf({r \in Usable(page) : r.id = o})]

\* Slip: the element sets of a record that is held already are passed over.
MergeSamplesOnly(held, rec) == [held EXCEPT !.samples = @ \cup rec.samples]

MergeRecord(held, rec) ==
  [samples |-> held.samples \cup rec.samples,
   elset |-> Newest({held.elset} \cup {rec.candidates[p] : p \in Providers}),
   candidates |-> [p \in Providers |-> Later(held.candidates[p], rec.candidates[p])]]

MergeRecords(acc, incoming) ==
  [o \in DOMAIN acc \cup DOMAIN incoming |->
     IF o \notin DOMAIN acc THEN incoming[o]
     ELSE IF o \notin DOMAIN incoming THEN acc[o]
     ELSE MergeRecord(acc[o], incoming[o])]

-----------------------------------------------------------------------------
(* fetch and _fetch_slice *)

\* Slip: the last slice is dropped when it is not a whole one.
WholeSlices(w) ==
  [i \in 1..((w.end - w.start) \div span) |->
     [start |-> w.start + (i - 1) * span, end |-> w.start + i * span, depth |-> 0]]

Slices(w) ==
  [i \in 1..((w.end - w.start + span - 1) \div span) |->
     [start |-> w.start + (i - 1) * span,
      end |-> IF w.start + i * span < w.end THEN w.start + i * span ELSE w.end,
      depth |-> 0]]

Half(w) == (w.end - w.start) \div 2

\* Slip: windows are halved for as long as pages are full.
SplitsAlways(w, n) == n >= Threshold

Splits(w, n) == n >= Threshold /\ w.depth < MaxDepth /\ Half(w) >= MinSlice

\* Slip: both the caller and the callee count the depth.
HalvesTwice(w) ==
  LET middle == w.start + Half(w)
  IN <<[start |-> w.start, end |-> middle, depth |-> w.depth + 2],
       [start |-> middle, end |-> w.end, depth |-> w.depth + 2]>>

Halves(w) ==
  LET middle == w.start + Half(w)
  IN <<[start |-> w.start, end |-> middle, depth |-> w.depth + 1],
       [start |-> middle, end |-> w.end, depth |-> w.depth + 1]>>

Fetch(w) ==
  /\ pc # "asking"
  /\ pc' = "asking" /\ asked' = w
  /\ todo' = Slices(w) /\ merged' = NoRecords /\ stats' = NoStats
  /\ due' = Usable(Within(w)) /\ got' = {} /\ cut' = {} /\ blank' = {}
  /\ UNCHANGED <<upstream, span>>

Requested(n) == [stats EXCEPT !.requests = @ + 1, !.rows = @ + n]

\* The oldest rows that match, Cap of them when there are more.
Pages(w) ==
  LET n == Cardinality(Within(w))
  IN {page \in SUBSET Within(w) :
        /\ Cardinality(page) = IF n < Cap THEN n ELSE Cap
        /\ \A r \in page, x \in Within(w) \ page : r.epoch <= x.epoch}

\* JSON that is no list is taken for an empty page, whatever the window holds.
Answers(w) == Pages(w) \cup (IF Cardinality(blank) < MaxBlanks THEN {{}} ELSE {})

\* The page looks truncated: both halves of its window are requested instead.
AskHalves(page) ==
  /\ pc = "asking" /\ todo # <<>>
  /\ Splits(Head(todo), Cardinality(page))
  /\ todo' = Halves(Head(todo)) \o Tail(todo)
  /\ stats' = Requested(Cardinality(page))
  /\ UNCHANGED <<upstream, span, pc, asked, merged, ghosts>>

\* The page is kept, also one that looks truncated and cannot be split: then
\* the log says so, unless it is the depth that forbids it.
KeepPage(page) ==
  LET w == Head(todo)
      full == Cardinality(page) >= Threshold
  IN /\ pc = "asking" /\ todo # <<>>
     /\ ~Splits(w, Cardinality(page))
     /\ \A r \in page : r.form # "alien"
     /\ todo' = Tail(todo)
     /\ merged' = MergeRecords(merged, Normalise(page))
     /\ stats' = Requested(Cardinality(page))
     /\ got' = got \cup Usable(page)
     /\ cut' = cut \cup (IF full THEN {w} ELSE {})
     /\ blank' = blank \cup (IF page \in Pages(w) THEN {} ELSE {w})
     /\ UNCHANGED <<upstream, span, pc, asked, due>>

\* A row that is no object raises out of fetch, and what was gathered is lost.
RaiseOnPage(page) ==
  /\ pc = "asking" /\ todo # <<>>
  /\ ~Splits(Head(todo), Cardinality(page))
  /\ \E r \in page : r.form = "alien"
  /\ pc' = "raised" /\ todo' = <<>> /\ merged' = NoRecords
  /\ stats' = Requested(Cardinality(page))
  /\ UNCHANGED <<upstream, span, asked, ghosts>>

\* An answer that is refused, late or no JSON is counted and its window given
\* up, also when it is half of a window of which a page had been there.
FailRequest ==
  /\ pc = "asking" /\ todo # <<>> /\ stats.failures < MaxFails
  /\ todo' = Tail(todo)
  /\ stats' = [Requested(0) EXCEPT !.failures = @ + 1]
  /\ UNCHANGED <<upstream, span, pc, asked, merged, ghosts>>

Finish ==
  /\ pc = "asking" /\ todo = <<>>
  /\ pc' = "done"
  /\ stats' = [stats EXCEPT !.objects = Cardinality(DOMAIN merged)]
  /\ UNCHANGED <<upstream, span, asked, todo, merged, ghosts>>

\* The upstream receives a row.
Arrive(r) ==
  /\ pc = "asking"
  /\ Cardinality(Usable(Within(asked)) \ due) < MaxLate
  /\ upstream' = upstream \cup {r}
  /\ UNCHANGED <<span, pc, asked, todo, merged, stats, ghosts>>

Next ==
  \/ \E w \in Windows : Fetch(w)
  \/ pc = "asking" /\ todo # <<>> /\ \E page \in Answers(Head(todo)) :
       AskHalves(page) \/ KeepPage(page) \/ RaiseOnPage(page)
  \/ FailRequest
  \/ Finish
  \/ \E r \in Rows : Arrive(r)

Spec == Init /\ [][Next]_vars

-----------------------------------------------------------------------------
(* Refresher.diagnosis, for a fetch of which kept objects passed the filters. *)

\* Slip: the failures of a fetch that brought something are not looked at.
DiagnosisOfObjects(kept) ==
  IF stats.objects = 0 /\ stats.failures > 0 THEN "failing"
  ELSE IF stats.requests = 0 /\ stats.objects = 0 THEN "no pull"
  ELSE IF stats.objects = 0 THEN "nothing returned"
  ELSE IF kept = 0 THEN "filtered away"
  ELSE "merged"

Diagnosis(kept) ==
  IF stats.failures > 0 THEN "failing"
  ELSE IF stats.requests = 0 /\ stats.objects = 0 THEN "no pull"
  ELSE IF stats.objects = 0 THEN "nothing returned"
  ELSE IF kept = 0 THEN "filtered away"
  ELSE "merged"

-----------------------------------------------------------------------------
(* Properties *)

Gathered(r) == r.id \in DOMAIN merged /\ r.epoch \in merged[r.id].samples
Healthy == pc = "done" /\ \E kept \in 0..stats.objects : Diagnosis(kept) # "failing"

\* What goes missing while no request is known to have failed is confined: a
\* usable row that was upstream when the fetch began is in its result, unless
\* it lies in a window whose full page could not be split, or whose answer was
\* no list: the diagnosis tells of neither, though sources.py l.309-312 says of a
\* request that it is "never silent" (sources.py l.325-328 "treat a suspiciously full response as truncated
\* and halve the window"; refresh.py l.311-329).
CompleteOrTold ==
  Healthy => \A r \in due :
    Gathered(r) \/ \E w \in cut \cup blank : w.start <= r.epoch /\ r.epoch <= w.end

\* A full page is only ever kept in silence when the slices are so long that halving
\* them _MAX_SPLIT_DEPTH times still leaves a window of _MIN_SLICE or more, but
\* for the rounding of the halves; with UDL_SLICE_HOURS below 32 it never is
\* (sources.py l.145-146).
SilenceNeedsLongSlices ==
  (\E w \in cut : w.depth >= MaxDepth) => span > (2 * MinSlice - 1) * 2^(MaxDepth - 1)

\* However the window was sliced and split, and whatever order pages came in,
\* the records are what normalising all rows of the kept pages at once gives:
\* no sample lost or invented, the newest fix overall and of each provider
\* (sources.py l.97-112, l.168-180).
SlicingUnseen ==
  pc \in {"asking", "done"} =>
    /\ DOMAIN merged = {r.id : r \in got}
    /\ \A o \in DOMAIN merged : merged[o] = RecordOf({r \in got : r.id = o})

\* The work of a fetch is bounded by its window: one request per slice, and at
\* most the full binary tree above windows of _MIN_SLICE for each.
EffortBounded ==
  stats.requests <= Cardinality({i \in 1..asked.end : (i - 1) * span < asked.end - asked.start})
                      * (2 * (span \div MinSlice) - 1)

=============================================================================
