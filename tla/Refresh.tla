------------------------------ MODULE Refresh ------------------------------
(***************************************************************************)
(* psirens.refresh.Refresher: the refresh job that the scheduler and the   *)
(* operators' requests share behind the single-flight guard, with what it  *)
(* publishes for the health view.                                          *)
(*                                                                         *)
(* A call of the store is one step on the whole history, which is what     *)
(* HistoryStore implements; between two of them the other threads of the   *)
(* process run.  Time is in the unit of the epochs.                        *)
(***************************************************************************)
EXTENDS History

CONSTANTS
  Scheduler,     \* the thread of the background loop
  Operators,     \* the threads that serve POST /api/refresh and /api/pull
  Sources,       \* how many sources there are, asked in order
  Answers,       \* per source: the ways a fetch may end
  Lists,         \* the high-interest lists that a pull of the list may give
  Snapshot,      \* the bundled list, which a torn hrr.json is read as
  MaxLate,       \* bound on the requests that load the list at the same time
  Windows,       \* the windows an operator may ask for
  Injections,    \* what a POST of a manual element set merges
  UdlEnabled,
  HrrPeriod,     \* Config.hrr_refresh_seconds
  StoreFails,    \* calls of the store may raise OSError
  StartTime,     \* the clock when the process starts
  MaxTime        \* bound on the clock

Threads == Operators \cup {Scheduler}
Kinds == {"run", "real", "sim", "combined"}

\* How a fetch ends: the records it offers, the upstream requests it made, and
\* of those the failed ones; raised is set when it ends by an exception.
IsAnswer(a) ==
  /\ IsPull(a.pull) /\ IsFiniteSet(DOMAIN a.pull)
  /\ a.requests \in Nat /\ a.failures \in 0..a.requests
  /\ a.raised \in BOOLEAN /\ (a.raised => DOMAIN a.pull = {})

IsWindow(w) == w \in [start : Nat, end : Nat] /\ w.start < w.end

ASSUME RefreshAssumption ==
  /\ Scheduler \notin Operators
  /\ Sources \in Nat
  /\ \A i \in 1..Sources : \A a \in Answers[i] : IsAnswer(a)
  /\ Lists \subseteq SUBSET Ids /\ Snapshot \in Lists
  /\ MaxLate \in Nat
  /\ \A w \in Windows : IsWindow(w)
  /\ \A pull \in Injections : IsPull(pull) /\ IsFiniteSet(DOMAIN pull)
  /\ UdlEnabled \in BOOLEAN
  /\ HrrPeriod \in Nat
  /\ StoreFails \in BOOLEAN
  /\ MaxTime \in Nat /\ StartTime \in 0..MaxTime
  /\ None \notin Nat
  /\ \A list \in SUBSET Ids : list # None

VARIABLES
  history,   \* the store
  listed,    \* the high-interest list in force (HrrStore)
  loaded,    \* HrrStore._loaded
  late,      \* how many requests are in _load_cache, whose list is not yet in force
  cached,    \* the lists that these may have read from hrr.json
  lost,      \* a pulled list that such a load has put out of force, or None
             \* (history variable)
  running,   \* SingleFlight._running
  clock,
  first,     \* the scheduler has not given its first verdict yet
  pc,        \* per thread: where it is in run_once, pull_window or scheduler
  kind,      \* per thread: which of them it serves
  window,    \* per thread: the window asked for
  now,       \* per thread: the instant its cycle is stamped with
  pass,      \* per thread: which ingest it is in
  ids,       \* per thread: the list its ingest filters and prunes by
  src,       \* per thread: the source it is at
  offered,   \* per thread: what is left of the last fetch after the filters
  res,       \* per thread: the counts of its cycle
  delivered, \* per thread and object: the epochs that its cycle has merged and
             \* retains (history variable)
  pub        \* what the health view reads: the last_... attributes

flight == <<running, first, pc>>
args == <<kind, window, now>>
ingest == <<pass, ids, src, offered, res, delivered>>
hrr == <<listed, loaded, late, cached, lost>>
vars == <<history, hrr, clock, flight, args, ingest, pub>>

NoResult == [added |-> 0, errors |-> 0, requests |-> 0, failures |-> 0,
             fetched |-> 0, kept |-> 0]
NoPull == [o \in {} |-> NoObject]
NoWindow == [start |-> 0, end |-> 0]
Nothing == [o \in Ids |-> {}]

InFlight == {"hrr", "ingest", "fetch", "merge", "last_run", "last_added",
             "last_errors", "last_ingest", "last_ok", "end"}
Steps == InFlight \cup {"idle", "begin", "verdict", "dead"}
Times == Nat \cup {None}

IngestResult == [added : Nat, errors : Nat, requests : Nat, failures : Nat,
                 fetched : Nat, kept : Nat]

TypeOK ==
  /\ listed \subseteq Ids
  /\ loaded \in BOOLEAN
  /\ late \in 0..MaxLate
  /\ cached \subseteq Lists
  /\ lost \in Lists \cup {None}
  /\ running \in BOOLEAN
  /\ clock \in StartTime..MaxTime
  /\ first \in BOOLEAN
  /\ pc \in [Threads -> Steps]
  /\ kind \in [Threads -> Kinds]
  /\ window \in [Threads -> [start : Nat, end : Nat]]
  /\ now \in [Threads -> Nat]
  /\ pass \in [Threads -> {"all", "real", "sim"}]
  /\ DOMAIN ids = Threads
  /\ \A t \in Threads : ids[t] = None \/ ids[t] \subseteq Ids
  /\ src \in [Threads -> Nat]
  /\ DOMAIN offered = Threads
  /\ res \in [Threads -> IngestResult]
  /\ delivered \in [Threads -> [Ids -> SUBSET Nat]]
  /\ pub \in [run : Times, hrr : Times, ok : Times, added : Nat, errors : Nat,
              ingest : IngestResult]

Init ==
  /\ history = EmptyHistory
  /\ listed \in Lists
  /\ loaded = FALSE
  /\ late = 0
  /\ cached = {}
  /\ lost = None
  /\ running = FALSE
  /\ clock = StartTime
  /\ first = TRUE
  /\ pc = [t \in Threads |-> "idle"]
  /\ kind = [t \in Threads |-> "run"]
  /\ window = [t \in Threads |-> NoWindow]
  /\ now = [t \in Threads |-> 0]
  /\ pass = [t \in Threads |-> "all"]
  /\ ids = [t \in Threads |-> None]
  /\ src = [t \in Threads |-> 1]
  /\ offered = [t \in Threads |-> NoPull]
  /\ res = [t \in Threads |-> NoResult]
  /\ delivered = [t \in Threads |-> Nothing]
  /\ pub = [run |-> None, hrr |-> None, ok |-> None, added |-> 0, errors |-> 0,
            ingest |-> NoResult]

Goto(t, from, to) == pc[t] = from /\ pc' = [pc EXCEPT ![t] = to]
Publishes(field, value) == pub' = [pub EXCEPT ![field] = value]

-----------------------------------------------------------------------------
(* The callers: the loop of the scheduler and the two routes. *)

\* An operator's request, or the next tick of the loop.
Call(t, k, w) ==
  /\ Goto(t, "idle", "begin")
  /\ t = Scheduler => k = "run"
  /\ k = "run" => w = NoWindow
  /\ k # "run" => w \in Windows
  /\ kind' = [kind EXCEPT ![t] = k]
  /\ window' = [window EXCEPT ![t] = w]
  /\ UNCHANGED <<history, hrr, clock, running, first, now, ingest, pub>>

\* Where the caller goes on when run_once or pull_window is over.
Returned(t) == IF t = Scheduler /\ first THEN "verdict" ELSE "idle"

\* The log line about the first refresh, for which the store is read once more;
\* the read is outside the try statement of the loop.
Verdict ==
  /\ Goto(Scheduler, "verdict", "idle")
  /\ first' = FALSE
  /\ UNCHANGED <<history, hrr, clock, running, args, ingest, pub>>

VerdictRaises ==
  /\ Goto(Scheduler, "verdict", "dead")
  /\ UdlEnabled /\ StoreFails
  /\ first' = FALSE
  /\ UNCHANGED <<history, hrr, clock, running, args, ingest, pub>>

-----------------------------------------------------------------------------
(* The guard *)

FirstPass(k) == CASE k = "run" -> "all" [] k = "sim" -> "sim" [] OTHER -> "real"

\* Slip: the flag is set without being looked at.
BeginAnyway(t) ==
  /\ Goto(t, "begin", IF kind[t] = "sim" THEN "ingest" ELSE "hrr")
  /\ running' = TRUE
  /\ now' = [now EXCEPT ![t] = clock]
  /\ pass' = [pass EXCEPT ![t] = FirstPass(kind[t])]
  /\ res' = [res EXCEPT ![t] = NoResult]
  /\ delivered' = [delivered EXCEPT ![t] = Nothing]
  /\ UNCHANGED <<history, hrr, clock, first, kind, window, ids, src, offered, pub>>

Begin(t) ==
  /\ ~running
  /\ Goto(t, "begin", IF kind[t] = "sim" THEN "ingest" ELSE "hrr")
  /\ running' = TRUE
  /\ now' = [now EXCEPT ![t] = clock]
  /\ pass' = [pass EXCEPT ![t] = FirstPass(kind[t])]
  /\ res' = [res EXCEPT ![t] = NoResult]
  /\ delivered' = [delivered EXCEPT ![t] = Nothing]
  /\ UNCHANGED <<history, hrr, clock, first, kind, window, ids, src, offered, pub>>

Busy(t) ==
  /\ running
  /\ Goto(t, "begin", Returned(t))
  /\ UNCHANGED <<history, hrr, clock, running, first, args, ingest, pub>>

\* The finally clause, after a result or an exception alike; the locals go.
End(t) ==
  /\ Goto(t, "end", Returned(t))
  /\ running' = FALSE
  /\ kind' = [kind EXCEPT ![t] = "run"]
  /\ window' = [window EXCEPT ![t] = NoWindow]
  /\ now' = [now EXCEPT ![t] = 0]
  /\ pass' = [pass EXCEPT ![t] = "all"]
  /\ ids' = [ids EXCEPT ![t] = None]
  /\ src' = [src EXCEPT ![t] = 1]
  /\ offered' = [offered EXCEPT ![t] = NoPull]
  /\ res' = [res EXCEPT ![t] = NoResult]
  /\ delivered' = [delivered EXCEPT ![t] = Nothing]
  /\ UNCHANGED <<history, hrr, clock, first, pub>>

-----------------------------------------------------------------------------
(* _maybe_refresh_hrr *)

HrrForced(t) == kind[t] # "run" \/ t # Scheduler

HrrDue(t) ==
  /\ UdlEnabled
  /\ HrrForced(t) \/ (pub.hrr # None => now[t] - pub.hrr >= HrrPeriod)

HrrSkipped(t) ==
  /\ Goto(t, "hrr", "ingest")
  /\ ~HrrDue(t)
  /\ UNCHANGED <<history, hrr, clock, running, first, args, ingest, pub>>

\* A pulled list is in force before _persist writes it; a load that is still
\* under way may read the old file, the new one, or a torn one.
Install(list) ==
  /\ listed' = list /\ lost' = None
  /\ cached' = IF late = 0 THEN {} ELSE cached \cup {list, Snapshot}

\* HrrStore.refresh returns: with a new list, or with the last-known-good one
\* after a failed request or an empty answer.  Both count as refreshed.
HrrRefreshed(t) ==
  /\ Goto(t, "hrr", "ingest")
  /\ HrrDue(t)
  /\ loaded' = TRUE
  /\ \/ UNCHANGED <<listed, cached, lost>>
     \/ \E list \in Lists : Install(list)
  /\ Publishes("hrr", now[t])
  /\ UNCHANGED <<history, late, clock, running, first, args, ingest>>

\* It raises when the list cannot be loaded, when the answer is of no expected
\* shape, or when _persist does; the time of the last refresh stays.
HrrRaises(t) ==
  /\ Goto(t, "hrr", "ingest")
  /\ HrrDue(t)
  /\ \/ StoreFails /\ ~loaded /\ UNCHANGED <<listed, loaded, cached, lost>>
     \/ loaded' = TRUE /\ UNCHANGED <<listed, cached, lost>>
     \/ /\ StoreFails /\ loaded' = TRUE
        /\ \E list \in Lists : Install(list)
  /\ UNCHANGED <<history, late, clock, running, first, args, ingest, pub>>

\* A request for the list that finds it not yet loaded goes on to load it,
\* without a lock, and puts what it read in force whenever it gets there
\* (module Hrr has the steps).
RequestLoads ==
  /\ ~loaded /\ late < MaxLate
  /\ late' = late + 1
  /\ cached' = cached \cup {listed}
  /\ UNCHANGED <<history, listed, loaded, lost, clock, flight, args, ingest, pub>>

\* The list that was pulled last, or loaded first.
Current == IF lost = None THEN listed ELSE lost

LateLoad ==
  /\ late > 0 /\ late' = late - 1
  /\ loaded' = TRUE
  /\ listed' \in cached
  /\ cached' = IF late = 1 THEN {} ELSE cached
  /\ lost' = IF listed' = Current THEN None ELSE Current
  /\ UNCHANGED <<history, clock, flight, args, ingest, pub>>

-----------------------------------------------------------------------------
(* _ingest and _ingest_source *)

ReadsList(t) == UdlEnabled /\ pass[t] # "sim"

StartIngest(t) ==
  /\ Goto(t, "ingest", "fetch")
  /\ ids' = [ids EXCEPT ![t] = IF ReadsList(t) THEN listed ELSE None]
  /\ loaded' = (loaded \/ ReadsList(t))
  /\ src' = [src EXCEPT ![t] = 1]
  /\ UNCHANGED <<history, listed, late, cached, lost, clock, running, first, args,
                 pass, offered, res, delivered, pub>>

\* geo_set loads the list when that has not been done, which may raise.
ListRaises(t) ==
  /\ StoreFails /\ ReadsList(t) /\ ~loaded
  /\ Goto(t, "ingest", "end")
  /\ UNCHANGED <<history, hrr, clock, running, first, args, ingest, pub>>

ModeOf(rec) == IF rec.mode = None THEN "REAL" ELSE rec.mode
Passes(p, m) == p = "all" \/ (p = "real" /\ m = "REAL") \/ (p = "sim" /\ m = "SIMULATED")

\* _filtered: by data mode, then by the list.
Filtered(pull, p, list) ==
  [o \in {x \in DOMAIN pull : Passes(p, ModeOf(pull[x]))
                              /\ (list = None \/ x \in list)} |-> pull[o]]

Flag(b) == IF b THEN 1 ELSE 0

\* Slip: what the filters dropped is taken off the kept ones.
CountedTwice(r, a, kept) ==
  [r EXCEPT !.errors = @ + Flag(a.raised) + Flag(a.failures > 0),
            !.requests = @ + a.requests,
            !.failures = @ + a.failures,
            !.fetched = @ + Cardinality(DOMAIN a.pull),
            !.kept = @ + Cardinality(DOMAIN kept) - Cardinality(DOMAIN a.pull)]

\* What one fetch adds to the counts (_absorb_stats and _ingest_source).
Counted(r, a, kept) ==
  [r EXCEPT !.errors = @ + Flag(a.raised) + Flag(a.failures > 0),
            !.requests = @ + a.requests,
            !.failures = @ + a.failures,
            !.fetched = @ + Cardinality(DOMAIN a.pull),
            !.kept = @ + Cardinality(DOMAIN kept)]

Fetch(t, a) ==
  /\ src[t] <= Sources
  /\ a \in Answers[src[t]]
  /\ LET kept == Filtered(a.pull, pass[t], ids[t])
         some == DOMAIN kept # {}
     IN /\ Goto(t, "fetch", IF some THEN "merge" ELSE "fetch")
        /\ offered' = [offered EXCEPT ![t] = kept]
        /\ res' = [res EXCEPT ![t] = Counted(res[t], a, kept)]
        /\ src' = [src EXCEPT ![t] = @ + Flag(~some)]
  /\ UNCHANGED <<history, hrr, clock, running, first, args, pass, ids, delivered, pub>>

\* The instant retention is reckoned from: now, or the end of the window.
Anchor(t) == IF kind[t] = "run" THEN now[t] ELSE window[t].end

Epochs(list) == {list[i].epoch : i \in DOMAIN list}

\* What t must retain of what it merges (of no effect on the program): the
\* retention ends with the cycle's own time, or with the window that was asked for.
Retained(t, o) ==
  {e \in IF o \in DOMAIN offered[t] THEN Epochs(offered[t][o].samples) ELSE {} :
     e + Retention >= IF kind[t] = "run" THEN now[t] ELSE window[t].end}

MergeCall(t) == [kind |-> "merge", pull |-> offered[t], now |-> Anchor(t)]

Merging(t) ==
  /\ Goto(t, "merge", "fetch")
  /\ history' = After(history, MergeCall(t))
  /\ res' = [res EXCEPT ![t].added = @ + Added(history, offered[t])]
  /\ src' = [src EXCEPT ![t] = @ + 1]
  /\ offered' = [offered EXCEPT ![t] = NoPull]
  /\ delivered' = [delivered EXCEPT ![t] = [o \in Ids |-> @[o] \cup Retained(t, o)]]
  /\ UNCHANGED <<hrr, clock, running, first, args, pass, ids, pub>>

LastPass(t) == kind[t] # "combined" \/ pass[t] = "sim"

\* Slip: prune by the list in force when the ingest is over.
PruneByLatest(t) ==
  /\ src[t] > Sources
  /\ Goto(t, "fetch", IF LastPass(t) THEN "last_run" ELSE "ingest")
  /\ history' = IF ids[t] = None THEN history
                ELSE After(history, [kind |-> "retain", keep |-> listed])
  /\ pass' = [pass EXCEPT ![t] = IF LastPass(t) THEN @ ELSE "sim"]
  /\ UNCHANGED <<hrr, clock, running, first, args, ids, src, offered, res, delivered,
                 pub>>

\* Every source was asked: prune by the list, when there is one.
FinishIngest(t) ==
  /\ src[t] > Sources
  /\ Goto(t, "fetch", IF LastPass(t) THEN "last_run" ELSE "ingest")
  /\ history' = IF ids[t] = None THEN history
                ELSE After(history, [kind |-> "retain", keep |-> ids[t]])
  /\ pass' = [pass EXCEPT ![t] = IF LastPass(t) THEN @ ELSE "sim"]
  /\ UNCHANGED <<hrr, clock, running, first, args, ids, src, offered, res, delivered,
                 pub>>

\* Slip: no finally clause.
RaisesInFlight(t) ==
  /\ StoreFails
  /\ \/ Goto(t, "merge", Returned(t))
     \/ Goto(t, "fetch", Returned(t)) /\ src[t] > Sources /\ ids[t] # None
  /\ UNCHANGED <<history, hrr, clock, running, first, args, ingest, pub>>

\* Slip: the loop does not catch what run_once raises.
RaisesOutOfLoop(t) ==
  /\ StoreFails
  /\ Goto(t, "merge", IF t = Scheduler THEN "dead" ELSE "idle")
  /\ running' = FALSE
  /\ UNCHANGED <<history, hrr, clock, first, args, ingest, pub>>

\* OSError of the store: the cycle is abandoned without publishing anything.
StoreRaises(t) ==
  /\ StoreFails
  /\ \/ Goto(t, "merge", "end")
     \/ Goto(t, "fetch", "end") /\ src[t] > Sources /\ ids[t] # None
  /\ UNCHANGED <<history, hrr, clock, running, first, args, ingest, pub>>

-----------------------------------------------------------------------------
(* The results are published one attribute at a time; pull_window leaves     *)
(* last_ingest alone.                                                         *)

PublishRun(t) ==
  /\ Goto(t, "last_run", "last_added")
  /\ Publishes("run", now[t])
  /\ UNCHANGED <<history, hrr, clock, running, first, args, ingest>>

PublishAdded(t) ==
  /\ Goto(t, "last_added", "last_errors")
  /\ Publishes("added", res[t].added)
  /\ UNCHANGED <<history, hrr, clock, running, first, args, ingest>>

PublishErrors(t) ==
  /\ Goto(t, "last_errors", IF kind[t] = "run" THEN "last_ingest" ELSE "last_ok")
  /\ Publishes("errors", res[t].errors)
  /\ UNCHANGED <<history, hrr, clock, running, first, args, ingest>>

PublishIngest(t) ==
  /\ Goto(t, "last_ingest", "last_ok")
  /\ Publishes("ingest", res[t])
  /\ UNCHANGED <<history, hrr, clock, running, first, args, ingest>>

\* Slip: the success is stamped with the end of the cycle.
PublishOkLate(t) ==
  /\ Goto(t, "last_ok", "end")
  /\ IF res[t].added > 0 THEN Publishes("ok", clock) ELSE UNCHANGED pub
  /\ UNCHANGED <<history, hrr, clock, running, first, args, ingest>>

PublishOk(t) ==
  /\ Goto(t, "last_ok", "end")
  /\ IF res[t].added > 0 THEN Publishes("ok", now[t]) ELSE UNCHANGED pub
  /\ UNCHANGED <<history, hrr, clock, running, first, args, ingest>>

-----------------------------------------------------------------------------
(* Around the flight: merge_one, which takes no part in the guard, and time. *)

\* It ages the record it merges into by the wall clock, which takes back what
\* a cycle may rely on there.
MergeOne(pull) ==
  /\ history' = After(history, [kind |-> "merge", pull |-> pull, now |-> clock])
  /\ delivered' = [t \in Threads |-> [o \in Ids |->
                     {e \in delivered[t][o] :
                        o \in DOMAIN pull => e >= clock - Retention}]]
  /\ UNCHANGED <<hrr, clock, flight, args, pass, ids, src, offered, res, pub>>

Tick ==
  /\ clock < MaxTime
  /\ clock' = clock + 1
  /\ UNCHANGED <<history, hrr, flight, args, ingest, pub>>

Proceed(t) ==
  \/ Begin(t)
  \/ Busy(t)
  \/ End(t)
  \/ HrrSkipped(t)
  \/ HrrRefreshed(t)
  \/ HrrRaises(t)
  \/ StartIngest(t)
  \/ ListRaises(t)
  \/ \E i \in 1..Sources : \E a \in Answers[i] : Fetch(t, a)
  \/ Merging(t)
  \/ FinishIngest(t)
  \/ StoreRaises(t)
  \/ PublishRun(t)
  \/ PublishAdded(t)
  \/ PublishErrors(t)
  \/ PublishIngest(t)
  \/ PublishOk(t)

Tell == Verdict \/ VerdictRaises

CallRun(t) == Call(t, "run", NoWindow)

Next ==
  \/ \E t \in Threads, k \in Kinds, w \in Windows \cup {NoWindow} : Call(t, k, w)
  \/ \E t \in Threads : Proceed(t)
  \/ Tell
  \/ RequestLoads
  \/ LateLoad
  \/ \E pull \in Injections : MergeOne(pull)
  \/ Tick

Spec == Init /\ [][Next]_vars

\* A thread that is inside a call goes on (every request to the upstream has a
\* timeout), and the loop calls again when refresh_seconds have passed.
Fairness ==
  /\ \A t \in Threads : WF_vars(Proceed(t))
  /\ WF_vars(Tell)
  /\ WF_vars(CallRun(Scheduler))

FairSpec == Spec /\ Fairness

-----------------------------------------------------------------------------
(* Properties *)

\* At most one thread is between begin and end, and the flag says so: an
\* exception never leaves it set, a busy caller never clears it
\* (refresh.py l.3-4, security.py l.46).
OneFlight ==
  /\ \A t, u \in Threads : (pc[t] \in InFlight /\ pc[u] \in InFlight) => t = u
  /\ running = (\E t \in Threads : pc[t] \in InFlight)

\* Successive cycles publish in the order of their stamps, and the time of the
\* last cycle that added something never runs ahead of the last cycle: the
\* operator reads "last refresh" and "last successful ingest" as such
\* (refresh.py l.73-82, l.190-195).  The stamps are of the wall clock, which the
\* code trusts not to be set back: Tick only goes forward.
Before(x, y) == x # None => (y # None /\ x <= y)
RunsInOrder ==
  [][Before(pub.run, pub'.run) /\ Before(pub.ok, pub'.ok) /\ Before(pub'.ok, pub'.run)]_pub

\* A prune never drops an object that the list pulled last holds (refresh.py
\* l.187 "list first; ingest filters on it", l.222 "HRR list is always current").
\* The code breaks this: a request that was late in loading the list puts the
\* cached one back in force (run refresh_late).
PrunedByPulledList ==
  [][\A t \in Threads : (pc[t] = "fetch" /\ pc'[t] \in {"last_run", "ingest"})
       => \A o \in Present(history) \ Present(history') : o \notin Current]_vars

\* The guard is always given back, whatever the sources and the store do, so
\* that no caller is told "busy" for ever (refresh.py l.201, l.242).
FlightReleased == running ~> ~running

\* Once the first verdict is out the loop goes on for ever, whatever raises:
\* refresh.py l.5-6 "It never raises out of the background loop", l.248 "A run
\* failure never stops the loop".  The first verdict itself may end it
\* (VerdictRaises), and nothing else does.
LoopGoesOn == (~first /\ pc[Scheduler] # "dead") ~> pc[Scheduler] = "begin"

\* The sample of epoch e is there, or gave way to a full record of newer ones.
Keeps(samples, e) ==
  \/ \E x \in samples : x.epoch = e
  \/ /\ MaxSamples > 0 /\ Cardinality(samples) >= MaxSamples
     /\ \A x \in samples : x.epoch > e

\* What a cycle has merged is there until it ends, back to the retention before
\* its anchor: neither a later source, nor the second pass of a combined pull,
\* nor its own prune takes it away, even when an injection or a late load of
\* the list comes in between (refresh.py l.160-163, l.209-211).
DeliveredHeld ==
  \A t \in Threads : pc[t] \in InFlight =>
    \A o \in Ids : \A e \in delivered[t][o] : Keeps(history[o].samples, e)

=============================================================================
