------------------------------- MODULE Tracks -------------------------------
(***************************************************************************)
(* What /api/tracks makes of the history and the high-interest list         *)
(* (psirens.main), the drift rate's window and its unwrapping               *)
(* (psirens.astro), and the window of a pull.                               *)
(***************************************************************************)
EXTENDS HrrList, Longitudes, Ordered, FiniteSetsExt

CONSTANTS
  FitWindow, \* DRIFT_WINDOW_DAYS, in hours
  MinSpan,   \* MIN_DRIFT_SPAN_H
  MaxHours   \* 366 days, in hours

ViewModes ==
  [real |-> {"REAL"}, sim |-> {"SIMULATED"},
   combined |-> {"REAL", "SIMULATED", "TEST", "EXERCISE"}]

\* An unknown mode of a record counts as real; one of a query is refused.
ModeOf(rec) == IF rec.mode \in ViewModes.combined THEN rec.mode ELSE "REAL"

Refused == {"refused"}

ParseModes(view, modes) ==
  IF view \notin DOMAIN ViewModes THEN Refused
  ELSE IF modes = {} THEN ViewModes[view]
  ELSE IF modes \subseteq ViewModes.combined THEN modes
  ELSE Refused

\* No rank means no filter, and one outside 1..5 is refused.
ParseRanks(ranks) == ranks = {} \/ ranks \subseteq 1..5

\* Slip: an object without a rank has none.
RankOrNone(o, list) == IF o \in DOMAIN list THEN list[o].rank ELSE 5

RankOf(o, list) ==
  IF o \in DOMAIN list /\ list[o].rank # NoRank THEN list[o].rank ELSE 5

MarkingRank == [U |-> 0, UNCLASSIFIED |-> 0, CUI |-> 1, C |-> 2, S |-> 3, TS |-> 4]

\* A marking that is not in the table ranks with the unclassified ones.
RankOfMarking(m) == IF m \in DOMAIN MarkingRank THEN MarkingRank[m] ELSE 0

Banner(markings) ==
  LET best == Max({0} \cup {RankOfMarking(m) : m \in markings})
  IN IF best = 0 THEN "UNCLASSIFIED"
     ELSE CHOOSE m \in markings : RankOfMarking(m) = best

DisplayName(o, stored, names) ==
  IF o \in DOMAIN names /\ names[o] # NoText THEN names[o]
  ELSE IF stored # NoText THEN stored
  ELSE o

TracksPayload(objects, list, modes, ranks) ==
  LET shown == {o \in DOMAIN objects :
                  /\ ModeOf(objects[o]) \in modes
                  /\ ranks = {} \/ RankOf(o, list) \in ranks
                  /\ objects[o].samples # {}}
  IN [tracks |-> shown, banner |-> Banner({objects[o].marking : o \in shown})]

-----------------------------------------------------------------------------
(* drift_fit: samples are [at, lon] in the order of time *)

Span(samples) == samples[Len(samples)].at - samples[1].at

Recent(samples) ==
  RowsAt(samples, {i \in DOMAIN samples : samples[Len(samples)].at - samples[i].at <= FitWindow})

\* Slip: the span of a window is measured with its fixes in any number.
WindowAnySpan(samples) == Recent(samples)

\* The trailing window when it is long enough, else all, else nothing.
WindowOf(samples) ==
  LET fits(rows) == Len(rows) >= 2 /\ Span(rows) >= MinSpan
  IN IF samples = <<>> THEN <<>>
     ELSE IF fits(Recent(samples)) THEN Recent(samples)
     ELSE IF fits(samples) THEN samples
     ELSE <<>>

Unwrap(samples) ==
  LET lon[i \in 1..Len(samples)] ==
        IF i = 1 THEN samples[1].lon
        ELSE lon[i - 1] + Step(samples[i - 1].lon, samples[i].lon)
  IN [i \in 1..Len(samples) |-> [at |-> samples[i].at, lon |-> lon[i]]]

-----------------------------------------------------------------------------
(* _resolve_window: q.start and q.end are times, or Unset *)

Unset == -1

\* Slip: the hours of a query are taken as they are.
HoursAsAsked(hours) == hours

Hours(hours) == Max({1, Min({hours, MaxHours})})

NoWindow == [start |-> Unset, end |-> Unset]

ResolveWindow(q, now) ==
  IF (q.start = Unset) # (q.end = Unset) THEN NoWindow
  ELSE IF q.start # Unset
    THEN IF q.start < q.end /\ q.end - q.start <= MaxHours
         THEN [start |-> q.start, end |-> q.end]
         ELSE NoWindow
  ELSE [start |-> now - Hours(q.hours), end |-> now]

=============================================================================
