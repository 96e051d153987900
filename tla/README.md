# Verification of PSIRENS

PSIRENS serves a plot of the geostationary belt. One process runs a FastAPI
application: request handlers in a pool of threads, and a background loop that
runs the hourly refresh in a thread of its own (`Dockerfile` l.37: one gunicorn
worker). Everything durable is in three JSON files that are read and written
whole. The TLA+ modules here model the parts that keep state and share it, and
the pure rules by which the answers are made; TLC checks them on small
instances and TLAPS proves the main results for every value of the constants.

Paths below are relative to `src/src/psirens/` unless they start with `src/`.

## The system

| Part | State | Operations | Interacts with | Modules |
|---|---|---|---|---|
| `store.resilient_write` | a file, a temporary file per call | write a whole text by rename, or in place when the volume has no rename | every component with a file; readers of the same path | `AtomicFile`, `ResilientFile` |
| `store.Store` | `history.json`, `_LOCK` | `load`, `newest_epoch`, `merge_samples`, `retain_only`, `remove_object` | refresh, routes | `History`, `HistorySpec`, `HistoryStore` |
| `sources.ManualElsetSource` | `manual.json` (no lock) | `add`, `remove`, `list_active`, `fetch` | routes `/api/manual-elset`, `/api/meta`; refresh | `ManualElsets` |
| `sources.UDLElsetSource` | `last_stats` | `fetch`: slices, split on truncation, merge | refresh; the upstream | `UdlFetch` |
| `sources.DemoElsetSource` | none | `fetch` | refresh | none |
| `hrr.HrrStore` | list in memory, `hrr.json` | `ensure_loaded`, `refresh`, `names`, `meta`, `as_payload` | refresh; routes; the upstream | `HrrList`, `Hrr` |
| `security.SingleFlight` | `_running` | `begin`, `end` | refresh | `Refresh` |
| `security.RateLimiter` | hits per client | `allow` | routes | `Api` |
| `refresh.Refresher` | `last_run`, `last_ok`, `last_hrr`, `last_added`, `last_errors`, `last_ingest` | `run_once`, `pull_window`, `merge_one`, `scheduler`, `health`, `diagnosis` | all of the above | `Refresh`; `diagnosis` in `UdlFetch` |
| `tle`, `conjunction`, `coplanar`, `astro` | none | functions of the stored elements | routes | `Tle`, `Screening`, `Tracks`, `Longitudes` |
| `main` | none of its own | routes, windows, payloads, lifespan | all of the above | `Api`, `Tracks`; callers in `ManualElsets`, `Refresh` |
| `static/index.html` | view, modes, cached tracks and list | poll, fetch, redraw | routes | none |

What is hard here: threads share files and memory through load-compute-save
cycles, two of them (`manual.json` and the high-interest list) without a lock; a
volume may lack rename, and then a write is truncation and filling; the process
may be killed at any step; a refresh holds what it fetched for a while before
it merges it; sources, store and list may each fail in the middle of a cycle;
the upstream cuts its pages without saying so, and receives rows while it is
asked; what an operator is told is published attribute by attribute.

What makes the parts correct:

- a file is only ever replaced whole, a reader never sees two texts mixed;
- a store operation acts on the whole history at one instant or not at all; a
  refresh never shrinks the history except where the operation says so, and
  never goes back to an older element set;
- an operator's injection lands, a deletion is final, an expired element set
  is forgotten;
- at most one refresh cycle at a time, the guard always returned, the loop
  never ends; times published move forward; what a cycle delivered stays, and
  what it prunes is off the list that was pulled;
- no row of a window that the upstream held goes missing unless the operator
  is told, however the window was cut and whatever failed;
- nobody is answered without a high-interest list, and a pulled list is not
  lost, neither in memory nor over a restart;
- the limiter admits no more than its limit; the element set that is published
  is the best of those held; a screening shows the nearest; the ranks part the
  plot and the banner covers it; a drift rate is fitted to a long enough window.

These are wishes. The code keeps most of them, some only under a premise, and
the section on its documents below names those that it breaks.

## Modules

| Module | Models |
|---|---|
| `AtomicFile` | what `resilient_write` promises: content replaced whole, readers get the content of one instant |
| `ResilientFile` | `resilient_write` and the readers of its path, one action per system call |
| `History` | the data of the store and what `merge_samples`, `retain_only`, `remove_object` compute, as operators |
| `HistorySpec` | what the store promises: each call takes effect at one instant, or raises and changes nothing |
| `HistoryStore` | the store as threads run it: lock, load, compute, write, return; crash |
| `ManualElsets` | `manual.json` and the requests that use it, one action per load and save |
| `Refresh` | single flight, cycle, publication, scheduler |
| `UdlFetch` | the fetch of a window: slices, requests, truncated pages, halving, merging, counters, diagnosis |
| `HrrList` | what a notification says and how the list is taken from one, as operators |
| `Hrr` | the list in memory and on disk under unlocked threads: load, pull, assign, read, save; crash |
| `Tle` | source classes, selection policy, native line validation, provenance, as operators |
| `Ordered` | what Python's `sorted` and its list comprehensions come to |
| `Longitudes` | steps and separations in longitude, the shortest way round |
| `Screening` | which neighbours the two screenings show, and the search for the closest approach |
| `Tracks` | modes, ranks, banner and contents of `/api/tracks`, the window and unwrapping of the drift fit, the window of a pull |
| `Api` | the reading routes behind the two limiters, with the operators of the three modules above |
| `MC...` | constants of the instances that the `.cfg` files name |
| `DataLemmas` | lemmas about data that the proofs share: induction, maxima, sorting, powers of two |
| `..._proofs` | theorems |

How they are stacked: `ResilientFile` implements `AtomicFile`; that is why
`HistoryStore` and `Hrr` take a write by rename as one step (and spell out the
in-place write in two). `HistoryStore` implements `HistorySpec`; that is why
`Refresh` takes a call of the store as one step, `After(history, call)`, with
the operators of `History`. `ManualElsets` takes saves and store calls as steps
for the same two reasons and looks at what happens between them. `Refresh`
takes a fetch as one answer with its counters; `UdlFetch` is how one comes
about. `Api` takes stored data as inputs: a handler reads the store once.

Operators whose comment begins with "Slip:" are mutations of the definition
below them, each the mistake a property is there to catch; no specification
uses them.

### ResilientFile

`path` is the content of the file; contents are complete texts, or `Absent`,
`Empty` (created or truncated), `Torn`. `tmp`, `text`, `pc` and `outcome` are
the locals and the result of a call. Readers hold an inode: `fd` is `Live`
while the path still names it, the old text after a rename, `Mixed` after an
in-place write under it. `renames` is chosen at the start and says which volume
it is; `Faulty` that other errnos occur. `mkstemp` and `makedirs` are one step;
a failure of either before a temporary file exists changes nothing and is left
out.

### History, HistoryStore

A history is a function from ids to records; an id that the file does not hold
has `NoObject` (the code deletes records without a sample). A fix is an epoch
and an opaque value; name, marking, source and target behave like `origin` and
are left out; of the data modes, TEST and EXERCISE behave like SIMULATED. The
sample list is a set, since the code keys it by epoch and sorts it. `disk` is
the file, `kept` the last complete history written to it (a history variable),
`snap` what a thread loaded under the lock. `host` says whether the volume
renames, whether calls fail, and how often the process is killed. `load`
without the lock (`LoadUnlocked`) stands for every GET route and for `health`.

### ManualElsets

The requests are POST (add, then `merge_one`), DELETE (remove, then
`remove_object`), `/api/meta` (`list_active`) and a refresh cycle (`fetch`,
later merge). `mem` is the list a thread holds between its load and its save.
`list_active` loads twice (l.459 and l.462); both are actions. `Fails` is an
OSError at any step: the request ends at `raised`, but `merge_one` swallows what
its fetch raises, merges nothing and lets the POST be answered "added"
(`refresh.py` l.109-113). A save or store call that fails may have failed in
place; the torn file then reads as empty. Elements in the model have epochs
inside the retention window and are propagated without error. `gone` and
`crossed` are history variables: ids whose deletion was confirmed, and whether
two requests were ever in progress at once.

### Refresh

Callers are the scheduler and the operators' requests. `Begin`, `Busy`, `End`
are the guard; `Hrr...` the slow refresh of the high-interest list; then per
source `Fetch` and `Merging`, then `FinishIngest` with the prune; `combined`
runs the ingest twice. `PublishRun`, `PublishAdded`, `PublishErrors`,
`PublishIngest`, `PublishOk` write the attributes in the order of the code. A
fetch ends in any of the `Answers` of its source. `MergeOne` is an injection,
which does not take the guard. `Verdict` and `VerdictRaises` are
`_log_first_verdict`. `report` only reads and logs inside the `try` and is left
out, and so is the cancelling of the loop at shutdown.

The list is not the flight's own: a request that finds it not loaded
(`RequestLoads`) puts what it read in force whenever it gets there (`LateLoad`),
also between `geo_set` and the prune. `cached` is what these may have read: the
list on disk, or, while a pulled one is being written, the bundled `Snapshot` for a
torn file. `geo_set` itself may raise (`ListRaises`). Two history variables:
`lost` is the pulled list that a late load has put out of force, and `delivered`
has, per thread and object, the epochs that its cycle has merged and that the
anchor of that merge retains; an injection, which ages by the wall clock, takes
back the older ones of the objects it offers.

The clock of the model never goes back. The code stamps with
`datetime.now(timezone.utc)` and trusts the host for that; `RunsInOrder` holds
for such a clock only.

### UdlFetch

A row has an object, an epoch, a provider, and a form: usable, skipped for a
missing field, or no object at all, on which `_normalise` raises. The recursion
of `_fetch_slice` is `todo`, the windows still to be requested with their depth;
a page that looks truncated is thrown away and its halves put in front. The
nested merges of the code are one merge per kept page in the same order. The
upstream (`Within`, `Pages`, `Arrive`) holds a set of rows, answers with at most
`Cap`, the oldest, and receives more meanwhile. What the code sees (`Answers`)
is one of these pages, or an empty page for JSON that is no list
(`sources.py` l.317), which is not counted as a failure; an answer that is
refused, late or no JSON is (`FailRequest`). `due`, `got`, `cut` and `blank` are
history variables: what was there at the start, what was kept, and the windows
of the full pages that were kept and of the answers that were no list. Two rows
of a page with one epoch and provider are told apart by nothing else the merge
looks at, so `RecordOf` takes a page as a set.

### HrrList, Hrr

A list is named by the number of the notification it was taken from, 0 for the
bundled snapshot, and `None` before anything is loaded; `ParseHrr` says which
one a lookback window gives. `force` holds the three attributes that the code
assigns one by one (l.329-331, and l.199-212 when loading); `as_payload` and
`_persist` read them one by one (`Gather`). `ensure_loaded` tests a flag and
loads without a lock, in as many threads as there are. `raced` records that a
late load can put the file's list over a pulled one, `mixed` that something was
assigned while a thread gathered. A satellite that a notification lists twice
counts once; which of its rows wins is left open.

### Api, Tle, Screening, Tracks

Each thread stamps the time, passes the limiter of its tier under its lock, and
is answered. Handlers only read, so answers are looked at one at a time, and
one client is modelled, since the limiter keeps clients apart. The queries are
data: records with the inputs of a handler around its borders. Floating point is
taken away: longitudes are integers on a turn of 12, ranges and plane angles
come from outside (a failed propagation included), a line of an element set is
the digit it starts with, whether it is sound (length and checksum), and the
number it is for. Of the retention `Tle` has what selection looks at: `Retained`
is the fixes an object keeps of those merged since it was last put in the store,
in order of arrival; a prune or a deletion starts that sequence anew. A coarse
step of the search for the closest approach is `Coarse` fine ones, 2 in the run
and 30 in the code. A sorted list is any arrangement in which nothing comes after what it
is before (`Ordered`), since rows that compare equal keep the order of a
dictionary, which the model does not have. `admitted` is a history variable.

## Runs

| Run | Checks | Bounds |
|---|---|---|
| `file_volumes` | types, `NeverTorn`, `NoLitter`, `StoredStays`, `ImplementsAtomicFile` | both kinds of volume, 2 writers, 1 reader, 2 texts, faults, 2 crashes |
| `history_hosts` | types, `WellFormed`, `SnapshotCurrent`, `ImplementsHistorySpec`, `AntiShrink`, `FixesNeverOlder`, `LockReleased` | 2 threads, 8 calls, 2 objects, epochs 1 to 4, cap 2; a host with rename, faults and 1 crash, one without rename and without faults |
| `history_torn` | `NeverShrinks` violated | 1 thread, 1 crash, no rename |
| `manual_requests` | types, `UniqueIds`, `DeletionFinalAlone`, `AddLandsAlone`, `ExpiredForgotten` | an operator and a reader that also refreshes, 2 ids, clock to 2, 1 raising step |
| `manual_lost` | `AddLands` violated | 2 threads, 1 id |
| `manual_back` | `DeletedStaysGone` violated | 2 threads, 1 id |
| `refresh_flight` | types, `OneFlight`, `DeliveredHeld` | scheduler and 1 operator, 2 lists, cap 1, a window that is past, an injection, 1 late load; list and store may fail |
| `refresh_lives` | `RunsInOrder`, `FlightReleased`, `LoopGoesOn` | scheduler and 1 operator, clock 0 to 1; source, list and store may fail |
| `refresh_late` | `PrunedByPulledList` violated | scheduler alone, 2 lists, 1 late load |
| `udl_slices` | `CompleteOrTold`, `SilenceNeedsLongSlices`, `SlicingUnseen`, `EffortBounded` | any subset of 7 rows, windows of 6 and 8, slices of 4 and 8, halving down to 1 and 3 deep, pages of 3 that look full from 2, 1 failing request, 1 answer that is no list, 1 late row |
| `hrr_threads` | types, `NeverEmpty`, `FreshStays`, `WholePayload`, `LastKnownGood`, `SavedForward` | 2 threads, 2 notifications, both kinds of volume, 1 failure, 1 crash |
| `api_requests` | types, `AdmittedBounded`, `PolicyHolds`, `ClosestShown`, `TracksComplete`, `DriftHonest` | 2 threads, limits 2 and 1 in a period of 2, clock to 2; the queries of `MCApi` |

What the runs show beyond the proofs: with the liveness properties, that
nothing hangs; with the violations, what the code does against its documents;
with the others, that the invariants of the proofs are reached by the
interesting cases. The runs of a module between them fire every action of it.

Why the bounds are enough: two writers, two threads are what a race of this
code needs, because each keeps at most one snapshot between its load and its
save; two texts tell an old content from a new one; the pulls of
`MCHistoryStore` overlap in an epoch with different fixes, list an epoch twice,
come out of order, fill the cap of 2 inside the window, and one is too old as a
whole; two lists let an object fall off and come back; a clock of two instants
lets a cycle be stamped before the one that ends first. In `refresh_flight`
the clock stands still, as only the stamps depend on it, and these are in
`refresh_lives`; its cap of 1, its past window and its injection make every
clause of `Keeps` and of `delivered` matter. `MaxLate`, `MaxFaults` and
`MaxBlanks` bound the loads that are late, the steps that raise and the answers
that are no list; the proofs hold for any number. A second crash matters
to a file (the first may leave it torn or littered), not to the store or the
list, where a crash forgets all threads and leaves only the file. Rows of
`MCUdlFetch` lie on the border of slices and halves and one crowd cannot be
split; the slice of 8 is long enough, against a depth of 3, for the depth to
end the halving before the least slice does, and the slice of 4 is not. Two
notifications are needed for one to pass out of the lookback behind another.
The queries of `MCApi` lie on both sides of each border in their handler: the
seam, an equal range, a failed propagation, a dip between coarse times, a mode
or rank out of range, equal epochs, classes in conflict with epochs, a history
too short for a rate.

Deadlock is checked in every run. `file_volumes`, `hrr_threads` and
`api_requests` use symmetry and check safety only.

### Fairness

`HistoryStore`: weak fairness for a thread that is inside the lock or has its
answer; the waiting for the lock is not assumed fair. `ManualElsets` and
`Refresh`: weak fairness for the steps of a request under way (each request to
the upstream has a 30 s timeout, file calls end), and for the loop's next
refresh (`asyncio.wait_for` with `refresh_seconds`). Nothing is assumed of
operators, of late loads, or of steps that raise: `MaxFaults` bounds their
number, since a volume that fails every save forgets nothing. The other modules
state safety only.

## What the code does that its documents do not say

Shown by a run:

- `history_torn`: on a volume without rename, a process killed between
  `open(path, "w")` and the end of the write leaves a torn `history.json`;
  `load` answers the empty history and the next merge writes that back with one
  pull in it. Module docstring l.5-6: a refresh never deletes an object or its
  history that the new pull happened not to include.
- `manual_lost`: `list_active` saves the list of its first load when a second
  load has another length; a POST between the two loads is lost before it
  merges. `refresh.py` l.102-104: an injection lands deterministically.
- `manual_back`: a cycle that fetched before a DELETE merges after it. README
  l.177: deleted element sets leave the plot immediately.
- `refresh_late`: a request that was late in `ensure_loaded` puts the cached list
  over the one that a cycle has pulled, and a cycle that takes it then prunes
  objects that the pulled list holds. `refresh.py` l.222: the list is always
  current.

Seen while modelling and visible in the definitions named, without a run of
their own. First those that go against a document; where a property is about
the place, its comment says what it leaves out:

- `merge_one` swallows an OSError of its fetch and the POST is answered "added"
  with nothing on the plot (`Fails`), against `refresh.py` l.102-104 and
  `main.py` l.360; `AddLandsAlone` is about POSTs that get to their merge;
- a cycle that offers an object of a pulled window again ages its record by the
  wall clock and drops what the window had delivered (`Anchor`), against
  `refresh.py` l.209-211; `DeliveredHeld` promises it until the cycle ends;
- `_log_first_verdict` reads the store outside the `try` of the loop, and an
  OSError there ends the loop (`VerdictRaises`), against `refresh.py` l.248;
  `LoopGoesOn` says that nothing else does;
- an answer that is JSON but no list is a page without rows: its rows are
  missing, no failure is counted, and the diagnosis is not "failing"
  (`Answers`), against `sources.py` l.309-312; a full page that cannot be split
  is not told of by the diagnosis either (`KeepPage`). `CompleteOrTold` confines
  what is missing to these windows;
- under the policy `any` a newer manual fix is passed over for a provider's
  (`CandidatesOf`), against `tle.py` l.20-22; `PolicyHolds` says when a manual
  fix is published;
- an object marked "SECRET", which is not in the table, is shown under the
  banner UNCLASSIFIED (`RankOfMarking`), against `main.py` l.74;
  `TracksComplete` speaks of the markings of the table;
- an object that the list ranks 7 is on no rank filter (`RankOf`), against
  `main.py` l.91-92; `TracksComplete` says that only such objects are missed;
- an expired element set is out of the file, so its DELETE is answered 404 and
  its samples stay on the plot (`RemoveLoad`), against src/README.md l.240-242.

Then what no document speaks of:

- two writers of `manual.json` on a volume without rename may leave it torn
  for good (`WriteDirect`); `StoredStays` says what one writer may rely on;
- a merge counts samples that it prunes at once (`Added`), so that a cycle may
  advance `last_successful_ingest` having stored nothing;
- an object that is not offered any more is never aged (`Merge`); with a cap of
  0 every sample is kept (`Newest`, `merged[-0:]`);
- `pull_window` does not publish `last_ingest`: `diagnosis` may say that no
  upstream pull has completed although one has (`PublishErrors`);
- a simulation pull of an id that is held as REAL turns that record into a
  simulated one (`Latest`);
- a window longer than the retention loses its beginning (`Anchor`);
  `DeliveredHeld` promises the part that the anchor keeps;
- a REAL manual object that is not on the list is dropped by the next prune,
  before its time to live (`FinishIngest`);
- a failed pull of the high-interest list counts as a refresh of it, so the
  next is six hours away (`HrrRefreshed`);
- a thread that was late in `ensure_loaded` may leave its marking beside the
  objects of another list (`Assign`);
- the halving of a full page ends at windows of 30 minutes, never at "~22
  minutes" (`sources.py` l.146), and at the depth limit it ends without a
  warning, which needs `UDL_SLICE_HOURS` of 32 or more (`Splits`);
- `UDL_MAX_RESULTS` below `UDL_TRUNCATION_THRESHOLD` disables the truncation
  check (`UdlFetchAssumption` excludes it);
- `validate_native` accepts a line of any catalogue number for a record whose
  own id is not one (`ValidateNative`, `tle.py` l.203-204);
- coplanar screening uses the newest `elset` while conjunctions use the one the
  policy selects; a manual fix is no candidate, so conjunctions never screen or
  serve it for an object that has a usable candidate (`CandidatesOf`);
- a provider's newest fix replaces its older one even when only the older can be
  propagated, and then the provider has no say (`Retained`);
- the staleness alarm goes by the newest sample of any mode, so a future-dated
  or simulated sample silences it (`store.py` l.139-154);
- clients never leave the limiter's table (`security.py` l.33-42).

## What is proved

Every invariant and every action property that a passing run checks is a
theorem for all values of the constants, and so are the two refinements. All
proofs are checked by TLAPS with the SMT, Zenon and PTL backends, from the
named assumptions on the constants; the runs evaluate these assumptions on the
instances. They say that constants have their types and, beyond that:

- markers differ from data (`ResilientFileAssumption`, `HistoryAssumption`,
  `HistoryStoreAssumption`), the scheduler is no operator, an answer offers
  finitely many records and the bundled list is one of the lists
  (`RefreshAssumption`), times to live are positive
  (`ManualElsetsAssumption`), notifications are a sequence of records
  (`HrrAssumption`);
- `UdlFetchAssumption`: windows begin before they end, which both callers see
  to; a slice is no shorter than the least one, since an hour is two of
  `_MIN_SLICE`; a page can look full before it is;
- `NumbersAssumption` and `QueriesAssumption`: a circle, a coarse step and a
  longest window are positive; stored samples are in the order of time
  (`store.py` sorts them); longitudes are normalised (`astro.py` l.112); a
  screening's window is whole coarse steps, because it is whole hours and a
  coarse step is 30 minutes (`conjunction.py` l.142-150); there are finitely
  many objects, and the fixes of an object are a sequence.

| Module | Theorems | Inductive invariant |
|---|---|---|
| `ResilientFile_proofs` | `TypeCorrect`, `RenameNeverTears`, `Refinement`, `NoLitterHolds`, `StoredStaysHolds` | a temporary file about to be renamed holds the whole text of its writer (without which `Replace` could install anything), a call in progress is the one the caller waits for, with rename no descriptor is `Mixed`; for `StoredStays`, a writer that no other has joined finds the file empty when it is about to fill it |
| `HistoryStore_proofs` | `TypeCorrect`, `NoLostUpdate`, `Refinement`, `AntiShrinkHolds`, `WellFormedHolds`, `FixesNeverOlderHolds` | only the thread that holds the lock is between `Load` and the end of its write, its snapshot is `kept`, and the file is `kept` except while that thread fills it |
| `ManualElsets_proofs` | `TypeCorrect`, `UniqueIdsHolds`, `AddLandsAloneHolds`, `DeletionFinalAloneHolds` | not only the file but every list in a thread's hands has one element set per id; while requests came one at a time (`Alone`), a posted item is where its step says or has expired, and a deleted id is in no list, file or hand, whichever steps raised before |
| `Refresh_proofs` | `TypeCorrect`, `Exclusive`, `Forward`, `DeliveredIsHeld` | the stamp of the flight is not before the one published and not after the clock, and equal to it once published; a record has finitely many samples and one per epoch; what the flight has delivered is not older than its anchor retains, belongs to objects that the list it took at the start of the ingest holds, and is in the store or crowded out |
| `UdlFetch_proofs` | `CompleteOrToldHolds`, `SlicingUnseenHolds`, `SilenceNeedsLongSlicesHolds`, `EffortBoundedHolds` | every row that was due is in the records gathered, or in a window still to be requested, or in one whose full page was kept or whose answer was no list, or a failure was counted; each record is what all kept rows of its object come to; a window that was split n times is no wider than a slice halved n times, and no narrower than the least slice unless it never was; the requests made and the trees of those that the windows still to be asked may cost are no more than the trees of all slices |
| `Hrr_proofs` | `TypeCorrect`, `NeverEmptyHolds`, `FreshStaysHolds`, `WholePayloadHolds`, `LastKnownGoodHolds`, `SavedForwardHolds` | where each thread is in its assignments and which of the three attributes are set by then, at most one refresh is under way, and threads that load before anything is pulled load one list; for `SavedForward`, also `Order`: the saved list is newer than neither the one pulled last nor the one about to be installed, and a thread that saves holds the one pulled last; for `WholePayload`, that attributes belong together in the file, in the hands of whoever assigns them, and in force except while a refresh is half way, and that what is gathered so far is of the list in force |
| `Api_proofs` | `TypeOKHolds`, `AdmittedBoundedHolds`, `PolicyIsHeld`, `ClosestShownHolds`, `TracksCompleteHolds`, `DriftHonestHolds` | a limiter holds, for every call it admitted in time within the period that ends with its latest stamp, a hit of that call's own, and no more hits than its limit; the answer at hand is what its handler makes of the query at hand, from which the properties of the answers follow as lemmas about operators |

Some arguments:

- `Refinement` of the store needs nothing of what the calls compute:
  `HistorySpec` takes `After` and `Result` as parameters. `AntiShrinkHolds`
  does, by the lemma that a merge keeps each sample that is in the window and
  not crowded out. It, `NoLostUpdate` and `FixesNeverOlderHolds` speak of
  hosts with rename, or with neither faults nor crashes (`Safe`); `history_torn`
  shows that this is needed. `WellFormedHolds` does not need it: even the
  history that a torn file is read as is well formed. That a merge keeps to the
  cap is proved without induction: the number of newer samples in the pool,
  less than the cap for each that stays, is an injection into the numbers
  below the cap.
- `CompleteOrToldHolds` rests on two lemmas about data: the slices of a window
  leave no gap (`Ceiling` is the arithmetic of it), and the halves of a window
  together hold what it held. A merge of records forgets no sample.
- `SavedForwardHolds` uses that the lookback only moves on: the newest
  notification that yields a list never gets older, so a later pull, even one
  after a restart from the saved list, installs no older one.
- `DeliveredIsHeld` needs no assumption on the list in force: a prune goes by
  the list that the ingest took (`ids`), and what was delivered passed the same
  list. A merge keeps what is delivered because every epoch it is offered is in
  what it chooses from, by the sample that is listed first for it; if that
  sample is not among the newest, the pool has more members than the cap, and
  since they have different epochs they can be counted off by age: the first
  `MaxSamples` of them are exactly what stays, all of them newer.
- `PolicyIsHeld` goes from `Retained` on: the fixes that stand are what a
  provider's candidate is when it can be propagated, and the candidates that can
  be are what the policy selects from.
- `AdmittedBoundedHolds`: calls are counted in another order than they are
  stamped in, so hits and admitted stamps need not be in order. A call drops
  only hits that are a period older than its own stamp, hence than any stamp
  that is not late. A period that begins after
  `latest - Period` holds no more stamps than there are hits; one that begins
  before does not reach the stamp that is added. Late calls are left out of the
  count: the hits of their period may have been dropped by a younger one.
- `ClosestShownHolds`: with a single dip the best coarse time is no further
  from the least range than a coarse step, so the refinement passes over it;
  with a range that changes by one a step, the nearest coarse time is half a
  step away at most.
- `EffortBoundedHolds` and `SilenceNeedsLongSlicesHolds` need powers of two,
  which the prover has no theory of: `PowersOfTwo` gets them from the number
  of subsets of 1..n.

The library's induction theorems take an operator as a parameter, which no
backend can instantiate. `DataLemmas` states induction for sets instead
(`NatSetInduction`, `IntervalInduction`, from the well-foundedness of `<`), and
what folds, sums and sorted lists come to is proved with these: a property of n
becomes the set of those n that have it.

Only model-checked: the liveness properties `LockReleased`, `ExpiredForgotten`,
`FlightReleased` and `LoopGoesOn`, with the fairness that they need, since
the prover does not reason about ENABLED; and the violations, which are single
behaviours.

## Not modelled

- `DemoElsetSource` is a function of the time; the longitude of
  its drifter for a given date changes from day to day.
- Propagation, planes, least squares and the conversion of elements are
  floating-point functions without state. So are the export of two-line element
  sets and the texts of reasons and logs.
- The token compare, CORS, ETags, static routes, environment parsing and the
  schema stamp of `history.json` with the migration that adds it: nothing that
  is modelled depends on them.
- The names under which fields of notifications and rows are looked for; a
  field is there or missing.
- `static/index.html`: its fetch and poll logic is bound to the drawing. Late
  answers of overlapping fetches are listed as a hazard without a property.
- Tools, gates and container scripts: they are outside the running program.
- The bound on the requests of one client is modelled, that the table of
  clients never shrinks is not: nothing reads its size.
