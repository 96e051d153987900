---------------------------- MODULE ManualElsets ----------------------------
(***************************************************************************)
(* Temporary operator-supplied element sets: psirens.sources.              *)
(* ManualElsetSource over manual.json, the routes that use it, and the     *)
(* objects they put on the plot (the store).                               *)
(*                                                                         *)
(* Requests run in the threads of one process.  A save of manual.json and  *)
(* an operation of the store are each one step (ResilientFile and          *)
(* HistoryStore), but nothing holds a lock from a load of manual.json to    *)
(* the save that follows it.  A step that touches a file may raise OSError.  *)
(***************************************************************************)
EXTENDS Naturals, FiniteSets

CONSTANTS
  Threads,
  Routes,    \* which kinds of request each thread serves
  Ids,       \* object ids
  Epochs,    \* epochs of the element sets that operators supply
  Ttls,      \* their times to live
  MaxTime,   \* bound on the clock
  MaxFaults, \* bound on the steps that raise
  NoRequest

Kinds == {"post", "delete", "meta", "refresh"}

ASSUME ManualElsetsAssumption ==
  /\ Routes \in [Threads -> SUBSET Kinds]
  /\ Epochs \subseteq Nat
  /\ Ttls \subseteq Nat \ {0}
  /\ MaxTime \in Nat
  /\ MaxFaults \in Nat

VARIABLES
  file,    \* manual.json: a set of items
  plot,    \* per object id: the epochs of its samples in the store
  clock,
  pc,      \* per thread: the next step of its request
  req,     \* per thread: the request
  mem,     \* per thread: the items it holds in memory
  gone,    \* ids whose deletion was confirmed, and not posted since
  crossed, \* two requests have been in progress at the same time
  faults   \* how many steps have raised

vars == <<file, plot, clock, pc, req, mem, gone, crossed, faults>>

Item == [id : Ids, epoch : Epochs, expires : Nat]

Request ==
  [kind : {"post"}, id : Ids, epoch : Epochs, ttl : Ttls, expires : Nat]
    \cup [kind : {"delete"}, id : Ids]
    \cup [kind : {"meta", "refresh"}]

Steps == {"idle", "add load", "add save", "list load", "list check", "list save",
          "merge", "remove load", "remove save", "drop", "reply", "raised"}
Saves == {"add save", "list save", "remove save"}
Fetches == {"list load", "list check", "list save"}

TypeOK ==
  /\ file \subseteq Item
  /\ plot \in [Ids -> SUBSET Epochs]
  /\ clock \in 0..MaxTime
  /\ pc \in [Threads -> Steps]
  /\ \A t \in Threads : req[t] \in Request \cup {NoRequest}
  /\ mem \in [Threads -> SUBSET Item]
  /\ gone \subseteq Ids
  /\ crossed \in BOOLEAN
  /\ faults \in 0..MaxFaults

Init ==
  /\ file = {}
  /\ plot = [o \in Ids |-> {}]
  /\ clock = 0
  /\ pc = [t \in Threads |-> "idle"]
  /\ req = [t \in Threads |-> NoRequest]
  /\ mem = [t \in Threads |-> {}]
  /\ gone = {}
  /\ crossed = FALSE
  /\ faults = 0

Moves(t, from, to) ==
  /\ pc[t] = from
  /\ pc' = [pc EXCEPT ![t] = to]
  /\ crossed' = (crossed \/ \E u \in Threads \ {t} : pc[u] # "idle")
Goto(t, from, to) == Moves(t, from, to) /\ UNCHANGED faults
Holds(t, items) == mem' = [mem EXCEPT ![t] = items]
Serves(t, r) == r.kind \in Routes[t] /\ req' = [req EXCEPT ![t] = r]

-----------------------------------------------------------------------------
(* POST /api/manual-elset: ManualElsetSource.add, then Refresher.merge_one  *)

Post(t, o, e, ttl) ==
  /\ Goto(t, "idle", "add load")
  /\ Serves(t, [kind |-> "post", id |-> o, epoch |-> e, ttl |-> ttl, expires |-> 0])
  /\ gone' = gone \ {o}
  /\ UNCHANGED <<file, plot, clock, mem>>

\* Slip: the item is stamped with the time of the request.
AddStamped(t) ==
  /\ Goto(t, "add load", "add save")
  /\ LET r == req[t]
         item == [id |-> r.id, epoch |-> clock, expires |-> clock + r.ttl]
     IN /\ Holds(t, {i \in file : i.id # r.id} \cup {item})
        /\ req' = [req EXCEPT ![t].expires = item.expires]
  /\ UNCHANGED <<file, plot, clock, gone>>

\* Slip: the item of the same id is kept beside the new one.
AddBeside(t) ==
  /\ Goto(t, "add load", "add save")
  /\ LET r == req[t]
         item == [id |-> r.id, epoch |-> r.epoch, expires |-> clock + r.ttl]
     IN /\ Holds(t, file \cup {item})
        /\ req' = [req EXCEPT ![t].expires = item.expires]
  /\ UNCHANGED <<file, plot, clock, gone>>

\* The items of the other ids, with the new one appended.
AddLoad(t) ==
  /\ Goto(t, "add load", "add save")
  /\ LET r == req[t]
         item == [id |-> r.id, epoch |-> r.epoch, expires |-> clock + r.ttl]
     IN /\ Holds(t, {i \in file : i.id # r.id} \cup {item})
        /\ req' = [req EXCEPT ![t].expires = item.expires]
  /\ UNCHANGED <<file, plot, clock, gone>>

AddSave(t) ==
  /\ Goto(t, "add save", "list load")
  /\ file' = mem[t]
  /\ UNCHANGED <<plot, clock, req, mem, gone>>

-----------------------------------------------------------------------------
(* list_active, and fetch, which is list_active followed by the conversion  *)
(* to records.                                                               *)

Expired(i) == i.expires <= clock

List(t, kind) ==
  /\ Goto(t, "idle", "list load")
  /\ Serves(t, [kind |-> kind])
  /\ UNCHANGED <<file, plot, clock, mem, gone>>

\* Slip: the comparison is turned round.
ListExpired(t) ==
  /\ Goto(t, "list load", "list check")
  /\ Holds(t, {i \in file : Expired(i)})
  /\ UNCHANGED <<file, plot, clock, req, gone>>

ListLoad(t) ==
  /\ Goto(t, "list load", "list check")
  /\ Holds(t, {i \in file : ~Expired(i)})
  /\ UNCHANGED <<file, plot, clock, req, gone>>

\* What follows list_active in the request.
AfterList(t) == IF req[t].kind = "meta" THEN "reply" ELSE "merge"

\* Slip: expired items are filtered out and never pruned from the file.
NoPrune(t) ==
  /\ Goto(t, "list check", AfterList(t))
  /\ UNCHANGED <<file, plot, clock, req, mem, gone>>

\* len(active) != len(self._load()): a second load, for its length only.
ListCheck(t) ==
  /\ Goto(t, "list check", IF Cardinality(mem[t]) # Cardinality(file)
                             THEN "list save" ELSE AfterList(t))
  /\ UNCHANGED <<file, plot, clock, req, mem, gone>>

ListSave(t) ==
  /\ Goto(t, "list save", AfterList(t))
  /\ file' = mem[t]
  /\ UNCHANGED <<plot, clock, req, mem, gone>>

\* merge_one, or the refresh cycle, merges what fetch returned.
Merge(t) ==
  /\ Goto(t, "merge", "reply")
  /\ plot' = [o \in Ids |-> plot[o] \cup {i.epoch : i \in {j \in mem[t] : j.id = o}}]
  /\ UNCHANGED <<file, clock, req, mem, gone>>

-----------------------------------------------------------------------------
(* DELETE /api/manual-elset/{id}: remove, then Store.remove_object *)

Delete(t, o) ==
  /\ Goto(t, "idle", "remove load")
  /\ Serves(t, [kind |-> "delete", id |-> o])
  /\ UNCHANGED <<file, plot, clock, mem, gone>>

\* An id that is not in the file is answered 404 at once.
RemoveLoad(t) ==
  /\ LET others == {i \in file : i.id # req[t].id}
     IN /\ Goto(t, "remove load", IF others = file THEN "reply" ELSE "remove save")
        /\ Holds(t, others)
  /\ UNCHANGED <<file, plot, clock, req, gone>>

RemoveSave(t) ==
  /\ Goto(t, "remove save", "drop")
  /\ file' = mem[t]
  /\ UNCHANGED <<plot, clock, req, mem, gone>>

Posting(o) == \E t \in Threads :
  /\ pc[t] # "idle"
  /\ req[t].kind = "post"
  /\ req[t].id = o

\* Slip: the route leaves the store alone.
DropNothing(t) ==
  /\ Goto(t, "drop", "reply")
  /\ gone' = IF Posting(req[t].id) THEN gone ELSE gone \cup {req[t].id}
  /\ UNCHANGED <<file, plot, clock, req, mem>>

Drop(t) ==
  /\ Goto(t, "drop", "reply")
  /\ plot' = [plot EXCEPT ![req[t].id] = {}]
  /\ gone' = IF Posting(req[t].id) THEN gone ELSE gone \cup {req[t].id}
  /\ UNCHANGED <<file, clock, req, mem>>

-----------------------------------------------------------------------------
(* A step raises: the request ends in an error, but for the fetch of a POST, *)
(* which merge_one swallows: it merges nothing and the answer is "added".    *)
(* A save that fails in place leaves a torn file, which loads as no items,   *)
(* and a store that fails so is empty.                                       *)

Fails(t) ==
  /\ faults < MaxFaults /\ faults' = faults + 1
  /\ \E step \in Steps \ {"idle", "reply", "raised"} :
       /\ Moves(t, step, IF step \in Fetches /\ req[t].kind = "post"
                          THEN "reply" ELSE "raised")
       /\ file' \in {file} \cup {{} : s \in {step} \cap Saves}
       /\ plot' \in {plot} \cup {[o \in Ids |-> {}] : s \in {step} \cap {"merge", "drop"}}
  /\ UNCHANGED <<clock, req, mem, gone>>

Reply(t) ==
  /\ \E end \in {"reply", "raised"} : Goto(t, end, "idle")
  /\ req' = [req EXCEPT ![t] = NoRequest]
  /\ Holds(t, {})
  /\ UNCHANGED <<file, plot, clock, gone>>

Tick ==
  /\ clock < MaxTime
  /\ clock' = clock + 1
  /\ UNCHANGED <<file, plot, pc, req, mem, gone, crossed, faults>>

Start(t) ==
  \/ \E o \in Ids, e \in Epochs, ttl \in Ttls : Post(t, o, e, ttl)
  \/ \E o \in Ids : Delete(t, o)
  \/ \E kind \in {"meta", "refresh"} : List(t, kind)

Proceed(t) ==
  \/ AddLoad(t)
  \/ AddSave(t)
  \/ ListLoad(t)
  \/ ListCheck(t)
  \/ ListSave(t)
  \/ Merge(t)
  \/ RemoveLoad(t)
  \/ RemoveSave(t)
  \/ Drop(t)
  \/ Reply(t)

Next ==
  \/ \E t \in Threads : Start(t) \/ Proceed(t) \/ Fails(t)
  \/ Tick

Spec == Init /\ [][Next]_vars

\* Requests in progress go on; the scheduler starts a refresh again and again.
Fairness == \A t \in Threads :
  /\ WF_vars(Proceed(t))
  /\ "refresh" \in Routes[t] => WF_vars(List(t, "refresh"))

FairSpec == Spec /\ Fairness

-----------------------------------------------------------------------------
(* Properties *)

\* The file never holds two element sets of one id, whichever saves overlap:
\* a DELETE or an expiry takes the object out, not one of its copies
\* (sources.py l.442, l.450).
UniqueIds == \A i, j \in file : i.id = j.id => i = j

\* The posted fix is on the plot, unless its time to live ran out during the
\* request.
Landed(t) == req[t].epoch \in plot'[req[t].id] \/ req[t].expires <= clock

Answers(t) == pc[t] # "reply" /\ pc'[t] = "reply" /\ req[t].kind = "post"

\* The merge that ends a POST lands it.
PostLands == \A t \in Threads : Answers(t) /\ pc[t] = "merge" => Landed(t)

\* An injection lands, as main.py l.360 ("deterministic") and refresh.py
\* l.102-104 state it: "an operator injection lands deterministically even while
\* the scheduled refresh is running".
AddLands == [][PostLands]_vars

\* A POST that gets to merge what it fetched lands, as long as requests come one
\* at a time, whatever raised before it.  One whose fetch raised does not get there,
\* and is answered "added" all the same (refresh.py l.109-113).
AddLandsAlone == [][~crossed => PostLands]_vars

\* A deleted element set leaves the plot and stays off it until it is posted
\* again (README.md l.177 "Deleted elsets leave the plot immediately").
DeletedStaysGone == \A o \in gone : plot[o] = {}

\* A deletion is final as long as requests come one at a time.
DeletionFinalAlone == ~crossed => DeletedStaysGone

\* An expired element set does not stay in the file for ever: however saves
\* interleave and fail, one of the next refreshes prunes it (README.md l.44-45
\* "expiring on its own").
ExpiredForgotten ==
  \A i \in [id : Ids, epoch : Epochs, expires : 1..MaxTime] :
    (i \in file /\ Expired(i)) ~> i \notin file

=============================================================================
