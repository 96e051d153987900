---------------------------- MODULE HistoryStore ----------------------------
(***************************************************************************)
(* psirens.store.Store as the threads of the process run it.  The writing  *)
(* operations load the whole file, compute, and write the whole file while *)
(* they hold the module's _LOCK; Store.load called on its own (the GET     *)
(* routes, health) takes no lock.                                          *)
(*                                                                         *)
(* The file is that of ResilientFile with one writer at a time: a rename   *)
(* replaces it in one step; without rename it is truncated first and       *)
(* filled in a second step.                                                *)
(***************************************************************************)
EXTENDS History

CONSTANTS
  Threads, Requests,
  Hosts,    \* what a deployment may meet, see Host
  Free,     \* nobody holds the lock
  Torn,     \* a file that does not parse
  NoCall    \* a thread outside the store

\* Whether the volume implements rename, whether reads and writes of the file
\* may raise OSError, and how often at most the process is killed.
Host == [renames : BOOLEAN, faulty : BOOLEAN, crashes : Nat]

ASSUME HistoryStoreAssumption ==
  /\ \A c \in Requests : IsCall(c)
  /\ Hosts \subseteq Host
  /\ Free \notin Threads
  /\ Torn \notin Histories
  /\ NoCall \notin Requests

VARIABLES
  host,     \* the deployment; it never changes
  disk,     \* what history.json holds
  kept,     \* the last complete history written there
  lock,     \* the thread that holds _LOCK
  pc,       \* per thread: where it is in its operation
  call,     \* per thread: the operation and its arguments
  snap,     \* per thread: the history it loaded under the lock
  answer,   \* per thread: what its operation returns or raises
  crashes

vars == <<host, disk, kept, lock, pc, call, snap, answer, crashes>>

Idle == <<"idle">>
Pending == <<"pending">>
Raised == <<"raised">>

Steps == {"idle", "called", "locked", "loaded", "direct", "done"}
Critical == {"locked", "loaded", "direct"}

TypeOK ==
  /\ host \in Hosts
  /\ disk \in Histories \cup {Torn}
  /\ kept \in Histories
  /\ lock \in Threads \cup {Free}
  /\ pc \in [Threads -> Steps]
  /\ call \in [Threads -> Requests \cup {NoCall}]
  /\ snap \in [Threads -> Histories]
  /\ DOMAIN answer = Threads
  /\ crashes \in 0..host.crashes

Init ==
  /\ host \in Hosts
  /\ disk = EmptyHistory
  /\ kept = EmptyHistory
  /\ lock = Free
  /\ pc = [t \in Threads |-> "idle"]
  /\ call = [t \in Threads |-> NoCall]
  /\ snap = [t \in Threads |-> EmptyHistory]
  /\ answer = [t \in Threads |-> Idle]
  /\ crashes = 0

-----------------------------------------------------------------------------
Goto(t, from, to) == pc[t] \in from /\ pc' = [pc EXCEPT ![t] = to]
Answers(t, a) == answer' = [answer EXCEPT ![t] = a]

\* load: a missing file and one that does not parse give the empty history.
Parsed(file) == IF file = Torn THEN EmptyHistory ELSE file

Invoke(t, c) ==
  /\ Goto(t, {"idle"}, "called")
  /\ call' = [call EXCEPT ![t] = c]
  /\ Answers(t, Pending)
  /\ UNCHANGED <<disk, kept, lock, snap, crashes>>

\* A load outside the lock, by a route that only reads.
LoadUnlocked(t) ==
  /\ Goto(t, {"called"}, "done")
  /\ call[t].kind = "load"
  /\ Answers(t, Result(Parsed(disk), call[t]))
  /\ UNCHANGED <<disk, kept, lock, call, snap, crashes>>

\* Slip: the lock is not waited for.
AcquireAnyway(t) ==
  /\ Goto(t, {"called"}, "locked")
  /\ call[t].kind # "load"
  /\ lock' = t
  /\ UNCHANGED <<disk, kept, call, snap, answer, crashes>>

\* with _LOCK:
Acquire(t) ==
  /\ Goto(t, {"called"}, "locked")
  /\ call[t].kind # "load"
  /\ lock = Free
  /\ lock' = t
  /\ UNCHANGED <<disk, kept, call, snap, answer, crashes>>

\* data = self.load()
Load(t) ==
  /\ Goto(t, {"locked"}, "loaded")
  /\ snap' = [snap EXCEPT ![t] = Parsed(disk)]
  /\ UNCHANGED <<disk, kept, lock, call, answer, crashes>>

\* remove_object of an unknown id and retain_only with nothing to drop
\* return without a write.
ReturnEarly(t) ==
  /\ Goto(t, {"loaded"}, "done")
  /\ ~Writes(snap[t], call[t])
  /\ Answers(t, Result(snap[t], call[t]))
  /\ UNCHANGED <<disk, kept, lock, call, snap, crashes>>

\* Slip: an error after the write is raised although the history is stored.
StoresAndRaises(t) ==
  /\ disk' = After(snap[t], call[t])
  /\ kept' = disk'
  /\ Answers(t, IF host.faulty THEN Raised ELSE Result(snap[t], call[t]))
  /\ UNCHANGED <<lock, call, snap, crashes>>

\* The file holds the new history from here on.
Stores(t) ==
  /\ disk' = After(snap[t], call[t])
  /\ kept' = disk'
  /\ Answers(t, Result(snap[t], call[t]))
  /\ UNCHANGED <<lock, call, snap, crashes>>

WriteByRename(t) ==
  /\ host.renames
  /\ Goto(t, {"loaded"}, "done")
  /\ Writes(snap[t], call[t])
  /\ Stores(t)

Truncate(t) ==
  /\ ~host.renames
  /\ Goto(t, {"loaded"}, "direct")
  /\ Writes(snap[t], call[t])
  /\ disk' = Torn
  /\ UNCHANGED <<kept, lock, call, snap, answer, crashes>>

WriteInPlace(t) ==
  /\ Goto(t, {"direct"}, "done")
  /\ Stores(t)

\* An OSError of the read or of the write; a file already truncated stays so.
Raise(t) ==
  /\ host.faulty
  /\ \/ Goto(t, Critical, "done")
     \/ Goto(t, {"called"}, "done") /\ call[t].kind = "load"
  /\ Answers(t, Raised)
  /\ UNCHANGED <<disk, kept, lock, call, snap, crashes>>

\* Slip: an exception leaves the lock taken.
ReturnLocked(t) ==
  /\ Goto(t, {"done"}, "idle")
  /\ lock' = IF lock = t /\ answer[t] # Raised THEN Free ELSE lock
  /\ call' = [call EXCEPT ![t] = NoCall]
  /\ snap' = [snap EXCEPT ![t] = EmptyHistory]
  /\ Answers(t, Idle)
  /\ UNCHANGED <<disk, kept, crashes>>

\* The with statement ends, normally or by the exception, and the call too.
Return(t) ==
  /\ Goto(t, {"done"}, "idle")
  /\ lock' = IF lock = t THEN Free ELSE lock
  /\ call' = [call EXCEPT ![t] = NoCall]
  /\ snap' = [snap EXCEPT ![t] = EmptyHistory]
  /\ Answers(t, Idle)
  /\ UNCHANGED <<disk, kept, crashes>>

\* The container is killed and started again on the same volume.
Crash ==
  /\ crashes < host.crashes
  /\ crashes' = crashes + 1
  /\ lock' = Free
  /\ pc' = [t \in Threads |-> "idle"]
  /\ call' = [t \in Threads |-> NoCall]
  /\ snap' = [t \in Threads |-> EmptyHistory]
  /\ answer' = [t \in Threads |-> Idle]
  /\ UNCHANGED <<disk, kept>>

Proceed(t) ==
  \/ LoadUnlocked(t)
  \/ Acquire(t)
  \/ Load(t)
  \/ ReturnEarly(t)
  \/ WriteByRename(t)
  \/ Truncate(t)
  \/ WriteInPlace(t)
  \/ Raise(t)
  \/ Return(t)

Next ==
  /\ \/ \E t \in Threads, c \in Requests : Invoke(t, c)
     \/ \E t \in Threads : Proceed(t)
     \/ Crash
  /\ UNCHANGED host

Spec == Init /\ [][Next]_vars

\* A thread that holds the lock, or has its answer, is not stopped for ever.
Fairness == \A t \in Threads :
  WF_vars(UNCHANGED host /\ (Load(t) \/ ReturnEarly(t) \/ WriteByRename(t)
                                \/ Truncate(t) \/ WriteInPlace(t) \/ Return(t)))

FairSpec == Spec /\ Fairness

-----------------------------------------------------------------------------
(* Properties *)

\* The file cannot stay torn: the volume renames, or no write in place fails
\* and the process is not killed.
Safe == host.renames \/ (~host.faulty /\ host.crashes = 0)

\* No lost update: what a thread computes its new history from, and writes
\* back over the whole file, is still the last history any thread stored
\* (store.py l.25, "single-writer per process").
SnapshotCurrent == Safe =>
  \A t \in Threads : pc[t] \in {"loaded", "direct"} => snap[t] = kept

Promise == INSTANCE HistorySpec WITH history <- kept

\* With rename, threads, lock and file together behave as one atomic history.
ImplementsHistorySpec ==
  /\ host.renames => Promise!Init
  /\ [][host.renames => Promise!Next]_(Promise!vars)

\* Samples of the incoming record and of the held one, before the prune.
Pool(held, rec) == held.samples \cup NewEpochs(held.samples, rec.samples)

\* Why call c may make object o lose its held sample s.
MayLose(c, h, o, s) ==
  \/ c.kind = "remove" /\ c.id = o
  \/ c.kind = "retain" /\ o \notin c.keep /\ IsReal(h[o])
  \/ /\ c.kind = "merge" /\ o \in DOMAIN c.pull
     /\ \/ s.epoch < c.now - Retention
        \/ /\ MaxSamples > 0
           /\ ~(Cardinality(NewerIn(Pool(h[o], c.pull[o]), s)) < MaxSamples)

\* A stored sample disappears only in a step of a call that asked for that
\* object's removal, of a prune to a list its REAL object is not on, or of a
\* merge that offers the object and finds the sample out of the window or
\* crowded out by newer ones.
LosesWithReason ==
  \A o \in Ids : \A s \in kept[o].samples \ kept'[o].samples :
    \E t \in Threads : pc[t] \in Critical /\ MayLose(call[t], kept, o, s)

\* Anti-shrink, wherever the file cannot stay torn (store.py l.5-8).
AntiShrink == [][Safe => LosesWithReason]_kept

\* Anti-shrink as store.py l.5-6 states it: "a refresh never deletes an object
\* or its history that the new pull happened not to include".
NeverShrinks == [][LosesWithReason]_kept

NotOlder(old, new) == old # None => (new # None /\ new.epoch >= old.epoch)

\* While an object stays in the store its element set, and the one of each
\* provider, is never lost and never goes back to an older epoch, whatever
\* order overlapping pulls are merged in, wherever the file cannot stay torn
\* (store.py l.86-112).
FixesNeverOlder ==
  [][Safe => \A o \in Present(kept) \cap Present(kept)' :
       /\ NotOlder(kept[o].elset, kept'[o].elset)
       /\ \A q \in Providers :
            NotOlder(kept[o].candidates[q], kept'[o].candidates[q])]_kept

\* What the file holds, after any sequence of calls: per object one sample per
\* epoch, no more samples than the cap, and no record without a sample
\* (store.py l.7-8, l.247-249).
WellFormed == \A o \in Ids :
  /\ \A s, x \in kept[o].samples : s.epoch = x.epoch => s = x
  /\ MaxSamples > 0 => Cardinality(kept[o].samples) <= MaxSamples
  /\ kept[o].samples = {} => kept[o] = NoObject

\* The lock is always given back, also by a call that raises under it.
LockReleased == lock # Free ~> lock = Free

=============================================================================
