-------------------------------- MODULE Hrr --------------------------------
(***************************************************************************)
(* psirens.hrr.HrrStore.  The list in force is three attributes, which are  *)
(* assigned one after the other and read one after the other, without a     *)
(* lock: by a refresh, of which there is one at a time, and by every thread *)
(* that finds the list not yet loaded.  A list is named by the notification *)
(* it was taken from, 0 for the bundled snapshot.                           *)
(***************************************************************************)
EXTENDS HrrList, Sequences

CONSTANTS
  Threads,
  Posted,   \* the notifications, in the order of their creation
  MaxFails, \* bound on failing requests, reads and writes
  MaxCrashes

None == -1
Lists == 0..Len(Posted)

ASSUME HrrAssumption ==
  Posted \in Seq([readable : BOOLEAN,
                 rows : SUBSET [id : STRING, name : STRING, country : STRING,
                                rank : Int, regime : STRING]])

Fields == <<"map", "marking", "generated">>              \* as they are assigned
Gathered == <<"marking", "generated", "map", "map">>     \* as they are read, the
                                                         \* count before the map
All(v) == [map |-> v, marking |-> v, generated |-> v]

VARIABLES
  renames, \* whether the volume has rename; it never changes
  disk,    \* hrr.json: "absent", "torn", or the list it holds as "whole"
  saved,   \* the attributes in the file when it is whole
  force,   \* _map, _marking and _generated
  loaded,  \* _loaded
  window,  \* the notifications <<oldest, newest>> that the last answer brought
  pc, kind,
  step,    \* attributes assigned so far
  new,     \* the attributes a thread is assigning
  took,    \* the attributes a thread has gathered
  fails, crashes,
  pulled,  \* the list this process pulled last
  raced,   \* two threads have assigned different lists at the same time
  early,   \* calls that began before the list was loaded
  mixed    \* an attribute was assigned while the thread gathered

vars == <<renames, disk, saved, force, loaded, window, pc, kind, step, new,
          took, fails, crashes, pulled, raced, early, mixed>>

PCs == {"idle", "ensuring", "loading", "seeding", "using", "pulling",
        "installing", "gathering", "writing", "refilling", "answered"}

TypeOK ==
  /\ disk \in {"absent", "torn", "whole"}
  /\ saved \in [DOMAIN All(0) -> Lists]
  /\ force \in [DOMAIN All(0) -> Lists \cup {None}]
  /\ loaded \in BOOLEAN
  /\ pc \in [Threads -> PCs]
  /\ step \in [Threads -> 0..2]
  /\ new \in [Threads -> [DOMAIN All(0) -> Lists]]
  /\ \A t \in Threads : Len(took[t]) <= 4
  /\ pulled \in Lists
  /\ (renames => disk # "torn")

Init ==
  /\ renames \in BOOLEAN
  /\ disk = "absent" /\ saved = All(0)
  /\ force = All(None) /\ loaded = FALSE
  /\ window = <<1, 0>>
  /\ pc = [t \in Threads |-> "idle"] /\ kind = [t \in Threads |-> "map"]
  /\ step = [t \in Threads |-> 0] /\ new = [t \in Threads |-> All(0)]
  /\ took = [t \in Threads |-> <<>>]
  /\ fails = 0 /\ crashes = 0
  /\ pulled = 0 /\ raced = FALSE /\ early = {} /\ mixed = [t \in Threads |-> FALSE]

Goto(t, from, to) == pc[t] = from /\ pc' = [pc EXCEPT ![t] = to]

\* A call returns or raises.
Ends(t) ==
  /\ pc' = [pc EXCEPT ![t] = "idle"] /\ kind' = [kind EXCEPT ![t] = "map"]
  /\ took' = [took EXCEPT ![t] = <<>>] /\ mixed' = [mixed EXCEPT ![t] = FALSE]
  /\ early' = early \ {t}

Call(t, k) ==
  /\ k = "refresh" => \A u \in Threads : pc[u] = "idle" \/ kind[u] # "refresh"
  /\ Goto(t, "idle", "ensuring")
  /\ kind' = [kind EXCEPT ![t] = k]
  /\ early' = IF loaded THEN early ELSE early \cup {t}
  /\ UNCHANGED <<disk, saved, force, loaded, window, step, new, took, fails,
                 crashes, pulled, raced, mixed>>

-----------------------------------------------------------------------------
(* ensure_loaded and _load_cache *)

\* Slip: the flag is raised before the list is loaded.
EnsureEarly(t) ==
  /\ pc[t] = "ensuring"
  /\ pc' = [pc EXCEPT ![t] = IF loaded THEN "using" ELSE "loading"]
  /\ loaded' = TRUE
  /\ UNCHANGED <<disk, saved, force, window, kind, step, new, took, fails,
                 crashes, pulled, raced, early, mixed>>

\* Slip: the list is loaded by every call.
EnsureAlways(t) ==
  /\ Goto(t, "ensuring", "loading")
  /\ UNCHANGED <<disk, saved, force, loaded, window, kind, step, new, took,
                 fails, crashes, pulled, raced, early, mixed>>

Ensure(t) ==
  /\ pc[t] = "ensuring"
  /\ pc' = [pc EXCEPT ![t] = IF loaded THEN "using" ELSE "loading"]
  /\ UNCHANGED <<disk, saved, force, loaded, window, kind, step, new, took,
                 fails, crashes, pulled, raced, early, mixed>>

\* Slip: the bundled snapshot comes before the file.
LoadSnapshot(t) ==
  /\ Goto(t, "loading", "seeding")
  /\ new' = [new EXCEPT ![t] = All(0)]
  /\ UNCHANGED <<disk, saved, force, loaded, window, kind, step, took, fails,
                 crashes, pulled, raced, early, mixed>>

\* The file when it is there and whole, the bundled snapshot otherwise.
LoadCache(t) ==
  /\ Goto(t, "loading", "seeding")
  /\ new' = [new EXCEPT ![t] = IF disk = "whole" THEN saved ELSE All(0)]
  /\ UNCHANGED <<disk, saved, force, loaded, window, kind, step, took, fails,
                 crashes, pulled, raced, early, mixed>>

\* Another error than a missing or torn file raises to the caller.
LoadRaises(t) ==
  /\ pc[t] = "loading" /\ Ends(t)
  /\ fails < MaxFails /\ fails' = fails + 1
  /\ UNCHANGED <<disk, saved, force, loaded, window, step, new, crashes, pulled,
                 raced>>

-----------------------------------------------------------------------------
(* Assigning the attributes: the end of _load_cache and of refresh *)

Assigning(u) == pc[u] \in {"seeding", "installing"}

Races(t) ==
  \/ \E u \in Threads \ {t} : Assigning(u) /\ new[u] # new[t]
  \/ t \in early /\ pc[t] = "seeding" /\ loaded /\ force # new[t]

Assign(t) ==
  LET f == Fields[step[t] + 1]
  IN /\ Assigning(t)
     /\ force' = [force EXCEPT ![f] = new[t][f]]
     /\ step' = [step EXCEPT ![t] = (@ + 1) % 3]
     /\ pulled' = IF pc[t] = "installing" THEN new[t].map ELSE pulled
     /\ raced' = (raced \/ Races(t))
     /\ mixed' = [u \in Threads |-> mixed[u] \/ pc[u] = "gathering"]
     /\ IF step[t] < 2 THEN UNCHANGED <<pc, loaded>>
        ELSE IF pc[t] = "seeding" THEN loaded' = TRUE /\ Goto(t, "seeding", "using")
        ELSE UNCHANGED loaded /\ Goto(t, "installing", "gathering")
     /\ new' = IF step[t] < 2 THEN new ELSE [new EXCEPT ![t] = All(0)]
     /\ UNCHANGED <<disk, saved, window, kind, took, fails, crashes, early>>

-----------------------------------------------------------------------------
(* map, names and geo_set; as_payload; refresh *)

Use(t) ==
  /\ pc[t] = "using" /\ early' = early \ {t}
  /\ \/ /\ kind[t] = "map"
        /\ pc' = [pc EXCEPT ![t] = "answered"]
        /\ took' = [took EXCEPT ![t] = <<force.map>>]
        /\ UNCHANGED mixed
     \/ /\ kind[t] = "payload"
        /\ pc' = [pc EXCEPT ![t] = "gathering"]
        /\ mixed' = [mixed EXCEPT ![t] = \E u \in Threads : Assigning(u)]
        /\ UNCHANGED took
     \/ /\ kind[t] = "refresh"
        /\ pc' = [pc EXCEPT ![t] = "pulling"]
        /\ UNCHANGED <<took, mixed>>
  /\ UNCHANGED <<disk, saved, force, loaded, window, kind, step, new, fails,
                 crashes, pulled, raced>>

\* An answer brings what was posted by now and is in the lookback: both only
\* move forward.
Windows == {w \in (window[1]..Len(Posted) + 1) \X (window[2]..Len(Posted)) :
              w[1] <= w[2] + 1}

Newest(w) == ParseHrr(Posted, w[1]..w[2])

\* A refused request, or an answer that yields no list, changes nothing.
KeepList(t) ==
  /\ pc[t] = "pulling" /\ Ends(t)
  /\ \/ \E w \in Windows : Newest(w) = {} /\ window' = w /\ UNCHANGED fails
     \/ fails < MaxFails /\ fails' = fails + 1 /\ UNCHANGED window
  /\ UNCHANGED <<disk, saved, force, loaded, step, new, crashes, pulled, raced>>

Pulls(t, v) ==
  /\ Goto(t, "pulling", "installing")
  /\ new' = [new EXCEPT ![t] = v]
  /\ UNCHANGED <<disk, saved, force, loaded, kind, step, took, fails, crashes,
                 pulled, raced, early, mixed>>

\* Slip: the marking stays what it was.
PullObjects(t) ==
  \E w \in Windows : \E i \in Newest(w) :
    window' = w /\ Pulls(t, [All(i) EXCEPT !.marking = force.marking])

\* Slip: an answer that yields no list brings the snapshot back.
PullAnything(t) ==
  \E w \in Windows : \E i \in (IF Newest(w) = {} THEN {0} ELSE Newest(w)) :
    window' = w /\ Pulls(t, All(i))

Pull(t) ==
  \E w \in Windows : \E i \in Newest(w) :
    window' = w /\ Pulls(t, All(i))

\* as_payload and _persist read the attributes in the same order.
Gather(t) ==
  /\ pc[t] = "gathering"
  /\ took' = [took EXCEPT ![t] = Append(@, force[Gathered[Len(@) + 1]])]
  /\ pc' = [pc EXCEPT ![t] = IF Len(took[t]) < 3 THEN @
                             ELSE IF kind[t] = "refresh" THEN "writing" ELSE "answered"]
  /\ UNCHANGED <<disk, saved, force, loaded, window, kind, step, new, fails,
                 crashes, pulled, raced, early, mixed>>

Packed(t) == [map |-> took[t][4], marking |-> took[t][1], generated |-> took[t][2]]

\* Slip: the file is written in place where rename would do.
TruncateAnyway(t) ==
  /\ Goto(t, "writing", "refilling")
  /\ disk' = "torn"
  /\ UNCHANGED <<saved, force, loaded, window, kind, step, new, took, fails,
                 crashes, pulled, raced, early, mixed>>

\* resilient_write by rename (module AtomicFile), or the end of it in place.
Write(t) ==
  /\ pc[t] = (IF renames THEN "writing" ELSE "refilling") /\ Ends(t)
  /\ disk' = "whole" /\ saved' = Packed(t)
  /\ UNCHANGED <<force, loaded, window, step, new, fails, crashes, pulled, raced>>

Truncate(t) ==
  /\ ~renames
  /\ Goto(t, "writing", "refilling")
  /\ disk' = "torn"
  /\ UNCHANGED <<saved, force, loaded, window, kind, step, new, took, fails,
                 crashes, pulled, raced, early, mixed>>

\* _persist raises, with the new list in force and the old one or none on disk.
WriteRaises(t) ==
  /\ pc[t] \in {"writing", "refilling"} /\ Ends(t)
  /\ fails < MaxFails /\ fails' = fails + 1
  /\ UNCHANGED <<disk, saved, force, loaded, window, step, new, crashes, pulled,
                 raced>>

Return(t) ==
  /\ pc[t] = "answered" /\ Ends(t)
  /\ UNCHANGED <<disk, saved, force, loaded, window, step, new, fails, crashes,
                 pulled, raced>>

-----------------------------------------------------------------------------

Crash ==
  /\ crashes < MaxCrashes /\ crashes' = crashes + 1
  /\ force' = All(None) /\ loaded' = FALSE /\ pulled' = 0
  /\ pc' = [t \in Threads |-> "idle"] /\ kind' = [t \in Threads |-> "map"]
  /\ step' = [t \in Threads |-> 0] /\ new' = [t \in Threads |-> All(0)]
  /\ took' = [t \in Threads |-> <<>>] /\ mixed' = [t \in Threads |-> FALSE]
  /\ UNCHANGED <<disk, saved, window, fails, raced>>
  /\ early' = {}

Next ==
  /\ UNCHANGED renames
  /\ \/ \E t \in Threads :
          \/ \E k \in {"map", "payload", "refresh"} : Call(t, k)
          \/ Ensure(t) \/ LoadCache(t) \/ LoadRaises(t) \/ Assign(t)
          \/ Use(t) \/ KeepList(t) \/ Pull(t) \/ Gather(t)
          \/ Write(t) \/ Truncate(t) \/ WriteRaises(t) \/ Return(t)
     \/ Crash

Spec == Init /\ [][Next]_vars

-----------------------------------------------------------------------------
(* Properties *)

\* Whoever is answered, or writes the file, has got a list, though the first
\* calls load it at the same time and without a lock (main.py l.136-137, "the
\* list seeds from a bundled snapshot of 594 objects and is never empty").
NeverEmpty ==
  \A t \in Threads : \A i \in 1..Len(took[t]) : took[t][i] # None

\* The list that was pulled last stays in force, whatever failed since, unless
\* a load that had begun before it was installed puts another one over it
\* (hrr.py l.305-306, "On any failure or empty parse, keep the last-known-good map").
FreshStays == (~raced /\ pulled # 0) => force.map = pulled

\* Marking, time, count and objects of an answer belong to one list, unless a
\* load or a refresh assigned attributes while they were gathered.
WholePayload ==
  \A t \in Threads :
    (Len(took[t]) = 4 /\ ~mixed[t] /\ ~raced) =>
      \A i \in 1..3 : took[t][i] = took[t][4]

\* After a start the list in force is the one that was saved last, and the
\* bundled one only when the file is missing or torn, until something is pulled.
LastKnownGood ==
  (loaded /\ pulled = 0 /\ ~raced) =>
    force.map = IF disk = "whole" THEN saved.map ELSE 0

\* With rename the saved list never goes back to an older one, over crashes,
\* failing writes, and notifications that pass out of the lookback.
SavedForward == [][(renames /\ ~raced') =>
                     (disk = "whole" => disk' = "whole" /\ saved'.map >= saved.map)]_vars

=============================================================================
