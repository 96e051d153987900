------------------------------ MODULE History ------------------------------
(***************************************************************************)
(* The data of psirens.store.Store and what its three writing operations   *)
(* compute from it: merge_samples, retain_only and remove_object.          *)
(*                                                                         *)
(* A history gives every object id its record.  An id the file does not    *)
(* hold is given NoObject, the record without a sample, because the code   *)
(* deletes every record whose sample list is empty.  Positions, names and  *)
(* markings are abstracted to the opaque val of a fix; data_mode and       *)
(* origin are kept, since retain_only decides by them.                     *)
(***************************************************************************)
EXTENDS Integers, FiniteSets, Sequences

CONSTANTS
  Ids,         \* object ids
  Providers,   \* element set providers
  Vals,        \* what distinguishes two fixes of the same epoch
  MaxSamples,  \* Config.max_samples_per_object
  Retention,   \* Config.retention_days, in the unit of the epochs
  None         \* a field that a record lacks

Modes == {"REAL", "SIMULATED"}       \* TEST and EXERCISE behave as SIMULATED
Origins == {"UDL", "MANUAL"}

ASSUME HistoryAssumption ==
  /\ MaxSamples \in Nat
  /\ Retention \in Nat
  /\ None \notin Modes \cup Origins \cup [epoch : Nat, val : Vals]

Fix == [epoch : Nat, val : Vals]     \* a sample, or a full element set

\* What a pull offers for one object.  Its samples are a list, which may hold
\* an epoch twice: _normalise appends one sample per row.
Record == [mode : Modes \cup {None}, origin : Origins \cup {None},
           elset : Fix \cup {None}, candidates : [Providers -> Fix \cup {None}],
           samples : Seq(Fix)]

\* What the file holds of one: the list is sorted by epoch, so a set says it.
Object == [mode : Modes \cup {None}, origin : Origins \cup {None},
           elset : Fix \cup {None}, candidates : [Providers -> Fix \cup {None}],
           samples : SUBSET Fix]
NoCandidates == [p \in Providers |-> None]
NoObject == [mode |-> None, origin |-> None, elset |-> None,
             candidates |-> NoCandidates, samples |-> {}]

Histories == [Ids -> Object]
EmptyHistory == [o \in Ids |-> NoObject]

\* What merge_samples is handed: records for some of the ids.
IsPull(pull) == DOMAIN pull \subseteq Ids /\ \A o \in DOMAIN pull : pull[o] \in Record

Present(h) == {o \in Ids : h[o].samples # {}}

-----------------------------------------------------------------------------
(* merge_samples *)

\* _copy_meta: the latest value wins, a missing one never blanks.
Latest(held, new) == IF new = None THEN held ELSE new

\* Slip: the incoming fix always wins.
LatestFix(held, new) == IF new = None THEN held ELSE new

\* _retain_elset and, per provider, _retain_candidates: the newest by epoch,
\* the incoming one on a tie.
NewestFix(held, new) ==
  IF new = None \/ (held # None /\ new.epoch < held.epoch) THEN held ELSE new

\* Slip: samples are compared whole, not by epoch.
NewSamples(held, new) == {new[i] : i \in DOMAIN new} \ held

\* by_epoch: a held sample keeps its epoch against an offered one, and an
\* offered one against those that follow it in the list.
NewEpochs(held, new) ==
  {new[i] : i \in {k \in DOMAIN new :
                     /\ \A x \in held : x.epoch # new[k].epoch
                     /\ \A j \in 1..(k - 1) : new[j].epoch # new[k].epoch}}

NewerIn(pool, s) == {x \in pool : x.epoch > s.epoch}

\* merged[-max_samples:], which is the whole list when max_samples is 0.
Newest(pool) ==
  {s \in pool : MaxSamples = 0 \/ Cardinality(NewerIn(pool, s)) < MaxSamples}

MergeSamples(held, new, cutoff) ==
  Newest({s \in held \cup NewEpochs(held, new) : s.epoch >= cutoff})

MergeRecord(held, rec, cutoff) ==
  [mode |-> Latest(held.mode, rec.mode),
   origin |-> Latest(held.origin, rec.origin),
   elset |-> NewestFix(held.elset, rec.elset),
   candidates |-> [p \in Providers |->
                     NewestFix(held.candidates[p], rec.candidates[p])],
   samples |-> MergeSamples(held.samples, rec.samples, cutoff)]

\* Records left without a sample are deleted.
DropEmpty(h) == [o \in Ids |-> IF h[o].samples = {} THEN NoObject ELSE h[o]]

\* Slip: the pull replaces the history.
Overwrite(h, pull, cutoff) ==
  DropEmpty([o \in Ids |-> IF o \in DOMAIN pull
                             THEN MergeRecord(h[o], pull[o], cutoff)
                             ELSE NoObject])

Merge(h, pull, cutoff) ==
  DropEmpty([o \in Ids |-> IF o \in DOMAIN pull
                             THEN MergeRecord(h[o], pull[o], cutoff)
                             ELSE h[o]])

\* The count merge_samples returns.
Added(h, pull) ==
  Cardinality(UNION {{<<o, s.epoch>> : s \in NewEpochs(h[o].samples, pull[o].samples)}
                       : o \in DOMAIN pull})

-----------------------------------------------------------------------------
(* retain_only and remove_object *)

IsReal(obj) == obj.mode \in {"REAL", None}

\* As called by Refresher._ingest: keep_origins is empty, keep_nonreal is set.
Dropped(h, keep) == {o \in Present(h) \ keep : IsReal(h[o])}

\* Slip: a null record takes the place of a removed one.
Blanked(h, gone) == [o \in Ids |-> IF o \in gone THEN None ELSE h[o]]

Without(h, gone) == [o \in Ids |-> IF o \in gone THEN NoObject ELSE h[o]]

-----------------------------------------------------------------------------
(* The operations of the store as calls: what each leaves in the file and   *)
(* what it returns.                                                         *)

IsCall(call) ==
  /\ call.kind \in {"merge", "retain", "remove", "load"}
  /\ call.kind = "merge" => IsPull(call.pull) /\ call.now \in Nat
  /\ call.kind = "retain" => call.keep \subseteq Ids
  /\ call.kind = "remove" => call.id \in Ids

Writes(h, call) ==   \* the early returns write nothing
  CASE call.kind = "merge" -> TRUE
    [] call.kind = "retain" -> Dropped(h, call.keep) # {}
    [] call.kind = "remove" -> call.id \in Present(h)
    [] call.kind = "load" -> FALSE

After(h, call) ==
  CASE ~Writes(h, call) -> h
    [] Writes(h, call) /\ call.kind = "merge" ->
         Merge(h, call.pull, call.now - Retention)
    [] Writes(h, call) /\ call.kind = "retain" ->
         Without(h, Dropped(h, call.keep))
    [] Writes(h, call) /\ call.kind = "remove" -> Without(h, {call.id})

Result(h, call) ==
  CASE call.kind = "merge" -> <<"added", Added(h, call.pull)>>
    [] call.kind = "retain" -> <<"dropped", Cardinality(Dropped(h, call.keep))>>
    [] call.kind = "remove" -> <<"removed", call.id \in Present(h)>>
    [] call.kind = "load" -> <<"loaded", h>>

=============================================================================
