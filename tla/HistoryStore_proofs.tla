------------------------ MODULE HistoryStore_proofs ------------------------
(***************************************************************************)
(* Proofs about HistoryStore for any set of threads, objects and requests: *)
(* type correctness, no lost update, the refinement of HistorySpec, the    *)
(* anti-shrink contract of the merge, and what a stored record looks like:  *)
(* one sample per epoch, no more than the cap, no fix older than before.    *)
(***************************************************************************)
EXTENDS HistoryStore, FiniteSetTheorems, TLAPS

-----------------------------------------------------------------------------
(* The operations of the store map histories to histories. *)

\* The empty record is a record.
LEMMA NoObjectType == NoObject \in Object
  BY DEF NoObject, Object, Record, NoCandidates

LEMMA EmptyHistoryType == EmptyHistory \in Histories
  BY NoObjectType DEF EmptyHistory, Histories

\* What a list of samples adds to the held ones are samples.
LEMMA OfferedType ==
  ASSUME NEW held, NEW new \in Seq(Fix)
  PROVE  NewEpochs(held, new) \subseteq Fix
<1>1. \A i \in DOMAIN new : new[i] \in Fix
  OBVIOUS
<1>2. QED
  BY <1>1 DEF NewEpochs

\* What merge_samples keeps of one object is a record.
LEMMA MergeRecordType ==
  ASSUME NEW held \in Object, NEW rec \in Record, NEW cutoff
  PROVE  MergeRecord(held, rec, cutoff) \in Object
<1>1. MergeSamples(held.samples, rec.samples, cutoff) \in SUBSET Fix
  <2>1. held.samples \subseteq Fix /\ NewEpochs(held.samples, rec.samples) \subseteq Fix
    BY OfferedType DEF Object, Record
  <2>2. QED
    BY <2>1 DEF MergeSamples, Newest
<1>2. NewestFix(held.elset, rec.elset) \in Fix \cup {None}
  BY DEF NewestFix, Object, Record
<1>3. \A p \in Providers :
        NewestFix(held.candidates[p], rec.candidates[p]) \in Fix \cup {None}
  BY DEF NewestFix, Object, Record
<1>4. /\ Latest(held.mode, rec.mode) \in Modes \cup {None}
      /\ Latest(held.origin, rec.origin) \in Origins \cup {None}
  BY DEF Latest, Object, Record
<1>5. QED
  BY <1>1, <1>2, <1>3, <1>4 DEF MergeRecord, Object, Record

LEMMA MergeType ==
  ASSUME NEW h \in Histories, NEW pull, IsPull(pull), NEW cutoff
  PROVE  Merge(h, pull, cutoff) \in Histories
<1>1. \A o \in Ids : h[o] \in Object
  BY DEF Histories
<1>2. \A o \in Ids : o \in DOMAIN pull => pull[o] \in Record
  BY DEF IsPull
<1>3. \A o \in Ids : o \in DOMAIN pull =>
        MergeRecord(h[o], pull[o], cutoff) \in Object
  BY <1>1, <1>2, MergeRecordType
<1>4. QED
  BY <1>1, <1>3, NoObjectType DEF Merge, DropEmpty, Histories

LEMMA WithoutType ==
  ASSUME NEW h \in Histories, NEW gone
  PROVE  Without(h, gone) \in Histories
  BY NoObjectType DEF Without, Histories

\* Every call of the store leaves a history.
LEMMA AfterType ==
  ASSUME NEW h \in Histories, NEW c, IsCall(c)
  PROVE  After(h, c) \in Histories
<1>1. CASE ~Writes(h, c)
  BY <1>1 DEF After
<1>2. CASE Writes(h, c) /\ c.kind = "merge"
  <2>1. IsPull(c.pull)
    BY <1>2 DEF IsCall
  <2>2. QED
    BY <1>2, <2>1, MergeType DEF After
<1>3. CASE Writes(h, c) /\ c.kind = "retain"
  BY <1>3, WithoutType DEF After
<1>4. CASE Writes(h, c) /\ c.kind = "remove"
  BY <1>4, WithoutType DEF After
<1>5. QED
  BY <1>1, <1>2, <1>3, <1>4 DEF IsCall, Writes

-----------------------------------------------------------------------------
(* The inductive invariant: TypeOK, the answer a thread owes at each step,  *)
(* the lock held exactly through the critical section, and, where a torn    *)
(* file cannot outlive the write that tears it, a file that equals the last *)
(* stored history outside that write.                                       *)

AnswerInv ==
  /\ answer = [t \in Threads |-> answer[t]]
  /\ \A t \in Threads :
       /\ pc[t] = "idle" <=> answer[t] = Idle
       /\ pc[t] \in {"called"} \cup Critical <=> answer[t] = Pending

CallInv == \A t \in Threads :
  /\ pc[t] # "idle" => call[t] \in Requests
  /\ pc[t] \in Critical => call[t].kind # "load"

LockInv == \A t \in Threads :
  /\ pc[t] \in Critical => lock = t
  /\ lock = t => pc[t] \in Critical \cup {"done"}

FileInv == Safe =>
  /\ disk # kept => \E t \in Threads : pc[t] = "direct"
  /\ host.renames => \A t \in Threads : pc[t] # "direct"
  /\ SnapshotCurrent

IInv == TypeOK /\ AnswerInv /\ CallInv /\ LockInv /\ FileInv

\* The result of a call is told from the markers of a call in progress.
LEMMA ResultIsAnswer ==
  ASSUME NEW h, NEW c, IsCall(c)
  PROVE  Result(h, c) # Idle /\ Result(h, c) # Pending
  BY DEF Result, Idle, Pending, IsCall

LEMMA MarkersDiffer == Idle # Pending /\ Raised # Idle /\ Raised # Pending
  BY DEF Idle, Pending, Raised

\* The same for the call that a thread inside the store is making.
LEMMA ReturnIsAnswer ==
  ASSUME IInv, NEW t \in Threads, pc[t] # "idle", NEW h
  PROVE  Result(h, call[t]) # Idle /\ Result(h, call[t]) # Pending
<1>1. IsCall(call[t])
  BY HistoryStoreAssumption DEF IInv, CallInv
<1>2. QED
  BY <1>1, ResultIsAnswer

LEMMA InitIInv == Init => IInv
<1> SUFFICES ASSUME Init
             PROVE  IInv
  OBVIOUS
<1> USE HistoryStoreAssumption DEF Init
<1>1. TypeOK
  BY EmptyHistoryType DEF TypeOK, Steps, Host
<1>2. AnswerInv
  BY DEF AnswerInv, Idle, Pending, Critical
<1>3. CallInv /\ LockInv
  BY DEF CallInv, LockInv, Critical
<1>4. FileInv
  BY DEF FileInv, SnapshotCurrent
<1>5. QED
  BY <1>1, <1>2, <1>3, <1>4 DEF IInv

LEMMA StepIInv == IInv /\ [Next]_vars => IInv'
<1> SUFFICES ASSUME IInv, [Next]_vars
             PROVE  IInv'
  OBVIOUS
<1> USE HistoryStoreAssumption DEF IInv, Goto, Answers
<1>0. UNCHANGED host
  BY DEF Next, vars
<1>1. ASSUME NEW t \in Threads, NEW c \in Requests, Invoke(t, c)
      PROVE  IInv'
  <2>1. TypeOK'
    BY <1>0, <1>1 DEF Invoke, TypeOK, Steps
  <2>2. AnswerInv'
    BY <1>0, <1>1 DEF Invoke, TypeOK, AnswerInv, CallInv, Critical, Steps,
       Idle, Pending, Raised
  <2>3. CallInv' /\ LockInv'
    BY <1>0, <1>1 DEF Invoke, TypeOK, CallInv, LockInv, Critical
  <2>4. FileInv'
    BY <1>0, <1>1 DEF Invoke, TypeOK, LockInv, FileInv, SnapshotCurrent, Safe, Parsed,
       Critical
  <2>5. QED
    BY <2>1, <2>2, <2>3, <2>4
<1>2. ASSUME NEW t \in Threads, LoadUnlocked(t)
      PROVE  IInv'
  <2>1. TypeOK'
    BY <1>0, <1>2 DEF LoadUnlocked, TypeOK, Steps
  <2>2. AnswerInv'
    <3>1. answer'[t] # Idle /\ answer'[t] # Pending
      BY <1>0, <1>2, ReturnIsAnswer DEF LoadUnlocked, AnswerInv
    <3>2. QED
      BY <1>0, <1>2, <3>1, MarkersDiffer DEF LoadUnlocked, TypeOK, AnswerInv, Critical, Steps
  <2>3. CallInv' /\ LockInv'
    BY <1>0, <1>2 DEF LoadUnlocked, TypeOK, CallInv, LockInv, Critical
  <2>4. FileInv'
    BY <1>0, <1>2 DEF LoadUnlocked, TypeOK, LockInv, FileInv, SnapshotCurrent, Safe, Parsed,
       Critical
  <2>5. QED
    BY <2>1, <2>2, <2>3, <2>4
<1>3. ASSUME NEW t \in Threads, Acquire(t)
      PROVE  IInv'
  <2>1. TypeOK'
    BY <1>0, <1>3 DEF Acquire, TypeOK, Steps
  <2>2. AnswerInv'
    BY <1>0, <1>3 DEF Acquire, TypeOK, AnswerInv, CallInv, Critical, Steps,
       Idle, Pending, Raised
  <2>3. CallInv' /\ LockInv'
    BY <1>0, <1>3 DEF Acquire, TypeOK, CallInv, LockInv, Critical
  <2>4. FileInv'
    BY <1>0, <1>3 DEF Acquire, TypeOK, LockInv, FileInv, SnapshotCurrent, Safe, Parsed,
       Critical
  <2>5. QED
    BY <2>1, <2>2, <2>3, <2>4
<1>4. ASSUME NEW t \in Threads, Load(t)
      PROVE  IInv'
  <2>1. TypeOK'
    BY <1>0, <1>4, EmptyHistoryType DEF Load, TypeOK, Steps, Parsed
  <2>2. AnswerInv'
    BY <1>0, <1>4 DEF Load, TypeOK, AnswerInv, CallInv, Critical, Steps,
       Idle, Pending, Raised
  <2>3. CallInv' /\ LockInv'
    BY <1>0, <1>4 DEF Load, TypeOK, CallInv, LockInv, Critical
  <2>4. FileInv'
    BY <1>0, <1>4 DEF Load, TypeOK, LockInv, FileInv, SnapshotCurrent, Safe, Parsed,
       Critical
  <2>5. QED
    BY <2>1, <2>2, <2>3, <2>4
<1>5. ASSUME NEW t \in Threads, ReturnEarly(t)
      PROVE  IInv'
  <2>1. TypeOK'
    BY <1>0, <1>5 DEF ReturnEarly, TypeOK, Steps
  <2>2. AnswerInv'
    <3>1. answer'[t] # Idle /\ answer'[t] # Pending
      BY <1>0, <1>5, ReturnIsAnswer DEF ReturnEarly, AnswerInv
    <3>2. QED
      BY <1>0, <1>5, <3>1, MarkersDiffer DEF ReturnEarly, TypeOK, AnswerInv, Critical, Steps
  <2>3. CallInv' /\ LockInv'
    BY <1>0, <1>5 DEF ReturnEarly, TypeOK, CallInv, LockInv, Critical
  <2>4. FileInv'
    BY <1>0, <1>5 DEF ReturnEarly, TypeOK, LockInv, FileInv, SnapshotCurrent, Safe, Parsed,
       Critical
  <2>5. QED
    BY <2>1, <2>2, <2>3, <2>4
<1>6. ASSUME NEW t \in Threads, WriteByRename(t)
      PROVE  IInv'
  <2>1. TypeOK'
    BY <1>0, <1>6, AfterType DEF WriteByRename, Stores, TypeOK, Steps, CallInv, Critical
  <2>2. AnswerInv'
    <3>1. answer'[t] # Idle /\ answer'[t] # Pending
      BY <1>0, <1>6, ReturnIsAnswer DEF WriteByRename, Stores, AnswerInv
    <3>2. QED
      BY <1>0, <1>6, <3>1, MarkersDiffer DEF WriteByRename, Stores, TypeOK, AnswerInv, Critical, Steps
  <2>3. CallInv' /\ LockInv'
    BY <1>0, <1>6 DEF WriteByRename, Stores, TypeOK, CallInv, LockInv, Critical
  <2>4. FileInv'
    BY <1>0, <1>6 DEF WriteByRename, Stores, TypeOK, LockInv, FileInv, SnapshotCurrent, Safe, Parsed,
       Critical
  <2>5. QED
    BY <2>1, <2>2, <2>3, <2>4
<1>7. ASSUME NEW t \in Threads, Truncate(t)
      PROVE  IInv'
  <2>1. TypeOK'
    BY <1>0, <1>7 DEF Truncate, TypeOK, Steps
  <2>2. AnswerInv'
    BY <1>0, <1>7 DEF Truncate, TypeOK, AnswerInv, CallInv, Critical, Steps,
       Idle, Pending, Raised
  <2>3. CallInv' /\ LockInv'
    BY <1>0, <1>7 DEF Truncate, TypeOK, CallInv, LockInv, Critical
  <2>4. FileInv'
    BY <1>0, <1>7 DEF Truncate, TypeOK, LockInv, FileInv, SnapshotCurrent, Safe, Parsed,
       Critical
  <2>5. QED
    BY <2>1, <2>2, <2>3, <2>4
<1>8. ASSUME NEW t \in Threads, WriteInPlace(t)
      PROVE  IInv'
  <2>1. TypeOK'
    BY <1>0, <1>8, AfterType DEF WriteInPlace, Stores, TypeOK, Steps, CallInv, Critical
  <2>2. AnswerInv'
    <3>1. answer'[t] # Idle /\ answer'[t] # Pending
      BY <1>0, <1>8, ReturnIsAnswer DEF WriteInPlace, Stores, AnswerInv
    <3>2. QED
      BY <1>0, <1>8, <3>1, MarkersDiffer DEF WriteInPlace, Stores, TypeOK, AnswerInv, Critical, Steps
  <2>3. CallInv' /\ LockInv'
    BY <1>0, <1>8 DEF WriteInPlace, Stores, TypeOK, CallInv, LockInv, Critical
  <2>4. FileInv'
    BY <1>0, <1>8 DEF WriteInPlace, Stores, TypeOK, LockInv, FileInv, SnapshotCurrent, Safe, Parsed,
       Critical
  <2>5. QED
    BY <2>1, <2>2, <2>3, <2>4
<1>9. ASSUME NEW t \in Threads, Raise(t)
      PROVE  IInv'
  <2>1. TypeOK'
    BY <1>0, <1>9 DEF Raise, TypeOK, Steps
  <2>2. AnswerInv'
    BY <1>0, <1>9 DEF Raise, TypeOK, AnswerInv, CallInv, Critical, Steps,
       Idle, Pending, Raised
  <2>3. CallInv' /\ LockInv'
    BY <1>0, <1>9 DEF Raise, TypeOK, CallInv, LockInv, Critical
  <2>4. FileInv'
    BY <1>0, <1>9 DEF Raise, TypeOK, LockInv, FileInv, SnapshotCurrent, Safe, Parsed,
       Critical
  <2>5. QED
    BY <2>1, <2>2, <2>3, <2>4
<1>10. ASSUME NEW t \in Threads, Return(t)
      PROVE  IInv'
  <2>1. TypeOK'
    BY <1>0, <1>10, EmptyHistoryType DEF Return, TypeOK, Steps
  <2>2. AnswerInv'
    BY <1>0, <1>10 DEF Return, TypeOK, AnswerInv, CallInv, Critical, Steps,
       Idle, Pending, Raised
  <2>3. CallInv' /\ LockInv'
    BY <1>0, <1>10 DEF Return, TypeOK, CallInv, LockInv, Critical
  <2>4. FileInv'
    BY <1>0, <1>10 DEF Return, TypeOK, LockInv, FileInv, SnapshotCurrent, Safe, Parsed,
       Critical
  <2>5. QED
    BY <2>1, <2>2, <2>3, <2>4
<1>11. CASE Crash
  <2>1. TypeOK'
    BY <1>0, <1>11, EmptyHistoryType DEF Crash, TypeOK, Steps, Host
  <2>2. AnswerInv'
    BY <1>0, <1>11 DEF Crash, AnswerInv, Critical, Idle, Pending
  <2>3. CallInv' /\ LockInv'
    BY <1>0, <1>11 DEF Crash, CallInv, LockInv, Critical
  <2>4. FileInv'
    BY <1>0, <1>11 DEF Crash, TypeOK, FileInv, SnapshotCurrent, Safe
  <2>5. QED
    BY <2>1, <2>2, <2>3, <2>4
<1>12. CASE UNCHANGED vars
  BY <1>12 DEF vars, TypeOK, AnswerInv, CallInv, LockInv, FileInv, SnapshotCurrent, Safe
<1>13. QED
  BY <1>1, <1>2, <1>3, <1>4, <1>5, <1>6, <1>7, <1>8, <1>9, <1>10, <1>11,
     <1>12 DEF Next, Proceed, vars

THEOREM Invariance == Spec => []IInv
  BY InitIInv, StepIInv, PTL DEF Spec

\* TypeOK of the store, its lock and its threads.
THEOREM TypeCorrect == Spec => []TypeOK
<1>1. IInv => TypeOK
  BY DEF IInv
<1>2. QED
  BY Invariance, <1>1, PTL

\* store.py l.25: the lock keeps every read-modify-write of the file current,
\* on a volume with rename under any fault or crash, and on one without rename
\* as long as no write fails half way and the process is not killed.
THEOREM NoLostUpdate == Spec => []SnapshotCurrent
<1>1. IInv => SnapshotCurrent
  BY DEF IInv, FileInv, SnapshotCurrent
<1>2. QED
  BY Invariance, <1>1, PTL

-----------------------------------------------------------------------------
(* Refinement: a call takes effect when its file write does, or when it     *)
(* finds that there is nothing to write.                                     *)

LEMMA StepRefines ==
  ASSUME host.renames, IInv, IInv', [Next]_vars
  PROVE  [Promise!Next]_(Promise!vars)
<1> USE DEF IInv, Goto, Answers, Promise!vars, Promise!Idle, Promise!Pending,
            Promise!Raised
<1>1. ASSUME NEW t \in Threads, NEW c \in Requests, Invoke(t, c)
      PROVE  Promise!Invoke(t, c)
  BY <1>1 DEF Invoke, Promise!Invoke, AnswerInv, Idle, Pending
<1>2. ASSUME NEW t \in Threads, LoadUnlocked(t)
      PROVE  Promise!Perform(t)
  <2>1. disk = kept /\ kept # Torn
    BY HistoryStoreAssumption DEF FileInv, Safe, TypeOK
  <2>2. Writes(kept, call[t]) = FALSE
    BY <1>2 DEF LoadUnlocked, Writes
  <2>3. After(kept, call[t]) = kept
    BY <2>2 DEF After
  <2>4. QED
    BY <1>2, <2>1, <2>3 DEF LoadUnlocked, Parsed, Promise!Perform, AnswerInv, Pending
<1>3. ASSUME NEW t \in Threads, Acquire(t) \/ Load(t)
      PROVE  UNCHANGED Promise!vars
  BY <1>3 DEF Acquire, Load
<1>4. ASSUME NEW t \in Threads, ReturnEarly(t)
      PROVE  Promise!Perform(t)
  <2>1. snap[t] = kept
    BY <1>4 DEF ReturnEarly, FileInv, Safe, SnapshotCurrent
  <2>2. After(kept, call[t]) = kept
    BY <1>4, <2>1 DEF ReturnEarly, After
  <2>3. QED
    BY <1>4, <2>1, <2>2 DEF ReturnEarly, Promise!Perform, AnswerInv, Critical, Pending
<1>5. ASSUME NEW t \in Threads, WriteByRename(t)
      PROVE  Promise!Perform(t)
  <2>1. snap[t] = kept
    BY <1>5 DEF WriteByRename, FileInv, Safe, SnapshotCurrent
  <2>2. QED
    BY <1>5, <2>1 DEF WriteByRename, Stores, Promise!Perform, AnswerInv, Critical,
       Pending
<1>6. ASSUME NEW t \in Threads, Truncate(t) \/ WriteInPlace(t)
      PROVE  FALSE
  BY <1>6 DEF Truncate, WriteInPlace, FileInv, Safe
<1>7. ASSUME NEW t \in Threads, Raise(t)
      PROVE  Promise!Fail(t)
  BY <1>7 DEF Raise, Promise!Fail, AnswerInv, Critical, Pending, Raised
<1>8. ASSUME NEW t \in Threads, Return(t)
      PROVE  Promise!Return(t)
  <2>1. answer[t] # Idle /\ answer[t] # Pending
    BY <1>8 DEF Return, AnswerInv, Critical
  <2>2. QED
    BY <1>8, <2>1 DEF Return, Promise!Return, Idle, Pending
<1>9. CASE Crash
  <2>1. Promise!Crash
    BY <1>9 DEF Crash, Promise!Crash, Idle
  <2>2. QED
    BY <2>1 DEF Promise!Next
<1>10. CASE UNCHANGED vars
  BY <1>10 DEF vars
<1>11. QED
  BY <1>1, <1>2, <1>3, <1>4, <1>5, <1>6, <1>7, <1>8, <1>9, <1>10
     DEF Next, Proceed, Promise!Next

\* On a volume that implements rename the store is an atomic history: every
\* call, unlocked loads included, takes effect at one instant, a call that
\* raises has no effect, and a crash undoes no finished call.
THEOREM Refinement == Spec => ImplementsHistorySpec
<1>1. Init => (host.renames => Promise!Init)
  BY DEF Init, Promise!Init, Idle, Promise!Idle
<1>2. IInv /\ IInv' /\ [Next]_vars => [host.renames => Promise!Next]_(Promise!vars)
  BY StepRefines
<1>3. QED
  BY <1>1, <1>2, Invariance, PTL DEF Spec, ImplementsHistorySpec

-----------------------------------------------------------------------------
(* Anti-shrink *)

\* A merge keeps every held sample that is in the window and not crowded out.
LEMMA MergeKeeps ==
  ASSUME NEW h \in Histories, NEW c, IsCall(c), c.kind = "merge",
         NEW o \in Ids, NEW s \in h[o].samples,
         s \notin After(h, c)[o].samples
  PROVE  MayLose(c, h, o, s)
<1> DEFINE cutoff == c.now - Retention
           all == [i \in Ids |-> IF i \in DOMAIN c.pull
                                   THEN MergeRecord(h[i], c.pull[i], cutoff)
                                   ELSE h[i]]
<1>1. After(h, c) = DropEmpty(all)
  BY DEF After, Writes, Merge
<1>2. s \notin all[o].samples
  BY <1>1 DEF DropEmpty
<1>3. o \in DOMAIN c.pull
  BY <1>2
<1>4. s \notin MergeSamples(h[o].samples, c.pull[o].samples, cutoff)
  BY <1>2, <1>3 DEF MergeRecord
<1> DEFINE pool == Pool(h[o], c.pull[o])
           inWindow == {x \in pool : x.epoch >= cutoff}
<1>5. s \in pool
  BY DEF Pool
<1>6. CASE s.epoch >= cutoff
  <2>1. MaxSamples # 0 /\ ~(Cardinality(NewerIn(inWindow, s)) < MaxSamples)
    BY <1>4, <1>5, <1>6 DEF MergeSamples, Newest, Pool
  <2>2. \A x \in pool : x.epoch \in Nat
    <3>1. h[o].samples \subseteq Fix /\ c.pull[o].samples \in Seq(Fix)
      BY <1>3 DEF Histories, Object, Record, IsCall, IsPull
    <3>2. pool \subseteq Fix
      BY <3>1, OfferedType DEF Pool
    <3>3. QED
      BY <3>2 DEF Fix
  <2>3. cutoff \in Int
    BY HistoryAssumption DEF IsCall
  <2>4. NewerIn(inWindow, s) = NewerIn(pool, s)
    BY <1>5, <1>6, <2>2, <2>3 DEF NewerIn
  <2>5. MaxSamples > 0
    BY <2>1, HistoryAssumption
  <2>6. QED
    BY <1>3, <2>1, <2>4, <2>5 DEF MayLose
<1>7. CASE ~(s.epoch >= cutoff)
  <2>1. s.epoch \in Nat /\ cutoff \in Int
    BY HistoryAssumption DEF Histories, Object, Record, Fix, IsCall
  <2>2. QED
    BY <1>3, <1>7, <2>1 DEF MayLose
<1>8. QED
  BY <1>6, <1>7

LEMMA CallKeeps ==
  ASSUME NEW h \in Histories, NEW c, IsCall(c),
         NEW o \in Ids, NEW s \in h[o].samples,
         s \notin After(h, c)[o].samples
  PROVE  MayLose(c, h, o, s)
<1>1. CASE c.kind = "merge"
  BY <1>1, MergeKeeps
<1>2. CASE c.kind = "retain"
  BY <1>2 DEF After, Writes, Without, Dropped, MayLose
<1>3. CASE c.kind = "remove"
  BY <1>3 DEF After, Writes, Without, MayLose
<1>4. CASE c.kind = "load"
  BY <1>4 DEF After, Writes
<1>5. QED
  BY <1>1, <1>2, <1>3, <1>4 DEF IsCall

\* store.py l.5-8: outside a torn file, no interleaving of the threads loses a
\* sample that no call was entitled to drop.
THEOREM AntiShrinkHolds == Spec => AntiShrink
<1>1. IInv /\ [Next]_vars => [Safe => LosesWithReason]_kept
  <2> SUFFICES ASSUME IInv, [Next]_vars, Safe
               PROVE  [LosesWithReason]_kept
    OBVIOUS
  <2>1. ASSUME NEW t \in Threads, Stores(t), pc[t] \in {"loaded", "direct"}
        PROVE  LosesWithReason
    <3>1. snap[t] = kept /\ kept \in Histories /\ IsCall(call[t])
      BY <2>1, HistoryStoreAssumption
         DEF IInv, FileInv, SnapshotCurrent, TypeOK, CallInv
    <3>2. kept' = After(kept, call[t])
      BY <2>1, <3>1 DEF Stores
    <3>3. QED
      BY <2>1, <3>1, <3>2, CallKeeps DEF Critical, LosesWithReason
  <2>2. CASE \E t \in Threads : WriteByRename(t) \/ WriteInPlace(t)
    BY <2>1, <2>2 DEF WriteByRename, WriteInPlace, Goto
  <2>3. CASE ~\E t \in Threads : WriteByRename(t) \/ WriteInPlace(t)
    BY <2>3 DEF Next, Proceed, vars, Invoke, LoadUnlocked, Acquire, Load,
       ReturnEarly, Truncate, Raise, Return, Crash
  <2>4. QED
    BY <2>2, <2>3
<1>2. QED
  BY <1>1, Invariance, PTL DEF Spec, AntiShrink

-----------------------------------------------------------------------------
(* What the file holds of an object.                                          *)

\* One sample per epoch, not more than the cap, no record without a sample.
OnePerEpoch(samples) == \A s, x \in samples : s.epoch = x.epoch => s = x
Tidy(obj) ==
  /\ IsFiniteSet(obj.samples)
  /\ OnePerEpoch(obj.samples)
  /\ MaxSamples > 0 => Cardinality(obj.samples) <= MaxSamples
  /\ obj.samples = {} => obj = NoObject

\* The cap is kept: each of the samples that stay has another number, less than
\* the cap, of newer ones.
LEMMA NewestCapped ==
  ASSUME NEW pool, IsFiniteSet(pool), pool \subseteq Fix, OnePerEpoch(pool), MaxSamples > 0
  PROVE  Cardinality(Newest(pool)) <= MaxSamples
<1> DEFINE rank == [s \in Newest(pool) |-> Cardinality(NewerIn(pool, s))]
<1>0. Newest(pool) \subseteq pool /\ MaxSamples \in Nat /\ MaxSamples # 0
  BY HistoryAssumption DEF Newest
<1>1. \A s \in pool : IsFiniteSet(NewerIn(pool, s)) /\ Cardinality(NewerIn(pool, s)) \in Nat
  <2> SUFFICES ASSUME NEW s \in pool
               PROVE  IsFiniteSet(NewerIn(pool, s)) /\ Cardinality(NewerIn(pool, s)) \in Nat
    OBVIOUS
  <2>1. NewerIn(pool, s) \subseteq pool
    BY DEF NewerIn
  <2> QED
    BY <2>1, FS_Subset, FS_CardinalityType
<1>2. \A s \in Newest(pool) : rank[s] \in 0..(MaxSamples - 1)
  BY <1>0, <1>1 DEF Newest
<1>3. ASSUME NEW s \in pool, NEW x \in pool, s.epoch > x.epoch
      PROVE  Cardinality(NewerIn(pool, s)) < Cardinality(NewerIn(pool, x))
  <2>1. NewerIn(pool, s) \subseteq NewerIn(pool, x) \ {s}
    BY <1>3 DEF NewerIn, Fix
  <2>2. s \in NewerIn(pool, x) /\ IsFiniteSet(NewerIn(pool, x))
    BY <1>1, <1>3 DEF NewerIn
  <2>3. /\ IsFiniteSet(NewerIn(pool, x) \ {s})
        /\ Cardinality(NewerIn(pool, x) \ {s}) = Cardinality(NewerIn(pool, x)) - 1
    BY <2>2, FS_RemoveElement
  <2>4. Cardinality(NewerIn(pool, s)) <= Cardinality(NewerIn(pool, x) \ {s})
    BY <2>1, <2>3, FS_Subset
  <2> QED
    BY <1>1, <2>3, <2>4
<1>4. \A s, x \in Newest(pool) : rank[s] = rank[x] => s = x
  <2> SUFFICES ASSUME NEW s \in Newest(pool), NEW x \in Newest(pool), s # x
               PROVE  rank[s] # rank[x]
    OBVIOUS
  <2>1. s \in pool /\ x \in pool
    BY <1>0
  <2>2. s.epoch \in Nat /\ x.epoch \in Nat /\ s.epoch # x.epoch
    BY <2>1 DEF OnePerEpoch, Fix
  <2>3. s.epoch > x.epoch \/ x.epoch > s.epoch
    BY <2>2
  <2>4. /\ s.epoch > x.epoch => rank[s] < rank[x]
        /\ x.epoch > s.epoch => rank[x] < rank[s]
    BY <1>3, <2>1
  <2>5. rank[s] \in Nat /\ rank[x] \in Nat
    BY <1>1, <2>1
  <2> HIDE DEF rank
  <2> QED
    BY <2>3, <2>4, <2>5
<1>5. rank \in Injection(Newest(pool), 0..(MaxSamples - 1))
  <2>1. rank \in [Newest(pool) -> 0..(MaxSamples - 1)]
    BY <1>2
  <2> QED
    BY <1>4, <2>1 DEF Injection, IsInjective
<1>6. IsFiniteSet(0..(MaxSamples - 1)) /\ Cardinality(0..(MaxSamples - 1)) = MaxSamples
  BY <1>0, FS_Interval
<1> QED
  BY <1>5, <1>6, FS_Injection

\* What a list adds to the held samples keeps one sample per epoch.
LEMMA PoolTidy ==
  ASSUME NEW held, IsFiniteSet(held), held \subseteq Fix, OnePerEpoch(held),
         NEW new \in Seq(Fix)
  PROVE  /\ IsFiniteSet(held \cup NewEpochs(held, new))
         /\ held \cup NewEpochs(held, new) \subseteq Fix
         /\ OnePerEpoch(held \cup NewEpochs(held, new))
<1>1. \A k \in DOMAIN new : k \in Nat /\ 1 <= k /\ new[k] \in Fix
  OBVIOUS
<1>2. IsFiniteSet(NewEpochs(held, new))
  <2> DEFINE all == {new[k] : k \in DOMAIN new}
             f == [k \in DOMAIN new |-> new[k]]
  <2>1. f \in Surjection(DOMAIN new, all)
    BY DEF Surjection
  <2>2. IsFiniteSet(DOMAIN new)
    <3>1. DOMAIN new = 1..Len(new) /\ Len(new) \in Nat
      OBVIOUS
    <3> QED
      BY <3>1, FS_Interval
  <2>3. IsFiniteSet(all)
    BY <2>1, <2>2, FS_Surjection
  <2>4. NewEpochs(held, new) \subseteq all
    BY DEF NewEpochs
  <2> QED
    BY <2>3, <2>4, FS_Subset
<1>3. \A s \in held, x \in NewEpochs(held, new) : s.epoch # x.epoch
  BY DEF NewEpochs
<1>4. ASSUME NEW s \in NewEpochs(held, new), NEW x \in NewEpochs(held, new),
             s.epoch = x.epoch
      PROVE  s = x
  <2>1. PICK i \in DOMAIN new :
          s = new[i] /\ \A j \in 1..(i - 1) : new[j].epoch # new[i].epoch
    BY DEF NewEpochs
  <2>2. PICK k \in DOMAIN new :
          x = new[k] /\ \A j \in 1..(k - 1) : new[j].epoch # new[k].epoch
    BY DEF NewEpochs
  <2>3. ~(i < k) /\ ~(k < i)
    BY <1>1, <1>4, <2>1, <2>2
  <2> QED
    BY <1>1, <2>1, <2>2, <2>3
<1> QED
  BY <1>2, <1>3, <1>4, OfferedType, FS_Union DEF OnePerEpoch

LEMMA MergeSamplesTidy ==
  ASSUME NEW held, IsFiniteSet(held), held \subseteq Fix, OnePerEpoch(held),
         NEW new \in Seq(Fix), NEW cutoff
  PROVE  LET kepts == MergeSamples(held, new, cutoff)
         IN  /\ IsFiniteSet(kepts) /\ OnePerEpoch(kepts)
             /\ MaxSamples > 0 => Cardinality(kepts) <= MaxSamples
<1> DEFINE all == held \cup NewEpochs(held, new)
           pool == {s \in all : s.epoch >= cutoff}
<1>1. IsFiniteSet(all) /\ all \subseteq Fix /\ OnePerEpoch(all)
  BY PoolTidy
<1>2. pool \subseteq all
  OBVIOUS
<1> HIDE DEF all
<1>3. IsFiniteSet(pool) /\ pool \subseteq Fix /\ OnePerEpoch(pool)
  BY <1>1, <1>2, FS_Subset DEF OnePerEpoch
<1> HIDE DEF pool
<1>4. Newest(pool) \subseteq pool
  BY DEF Newest
<1>5. IsFiniteSet(Newest(pool)) /\ OnePerEpoch(Newest(pool))
  BY <1>3, <1>4, FS_Subset DEF OnePerEpoch
<1>6. MaxSamples > 0 => Cardinality(Newest(pool)) <= MaxSamples
  BY <1>3, NewestCapped
<1> QED
  BY <1>5, <1>6 DEF MergeSamples, all, pool

LEMMA NoObjectTidy == Tidy(NoObject)
<1>1. NoObject.samples = {}
  BY DEF NoObject
<1> QED
  BY <1>1, FS_EmptySet, HistoryAssumption DEF Tidy, OnePerEpoch

\* Every call leaves every object tidy.
LEMMA AfterTidy ==
  ASSUME NEW h \in Histories, NEW c, IsCall(c), \A o \in Ids : Tidy(h[o])
  PROVE  \A o \in Ids : Tidy(After(h, c)[o])
<1> SUFFICES ASSUME NEW o \in Ids
             PROVE  Tidy(After(h, c)[o])
  OBVIOUS
<1>1. CASE ~Writes(h, c)
  BY <1>1 DEF After
<1>2. CASE Writes(h, c) /\ c.kind = "merge"
  <2> DEFINE cutoff == c.now - Retention
             rec == IF o \in DOMAIN c.pull THEN MergeRecord(h[o], c.pull[o], cutoff) ELSE h[o]
  <2>1. After(h, c)[o] = IF rec.samples = {} THEN NoObject ELSE rec
    BY <1>2 DEF After, Merge, DropEmpty
  <2>2. CASE o \in DOMAIN c.pull
    <3>1. h[o].samples \subseteq Fix /\ c.pull[o].samples \in Seq(Fix)
      BY <1>2, <2>2 DEF Histories, Object, Record, IsCall, IsPull
    <3>2. rec.samples = MergeSamples(h[o].samples, c.pull[o].samples, cutoff)
      BY <2>2 DEF MergeRecord
    <3>3. /\ IsFiniteSet(rec.samples) /\ OnePerEpoch(rec.samples)
          /\ MaxSamples > 0 => Cardinality(rec.samples) <= MaxSamples
      BY <3>1, <3>2, MergeSamplesTidy DEF Tidy
    <3> HIDE DEF rec
    <3> QED
      BY <2>1, <3>3, NoObjectTidy DEF Tidy
  <2>3. CASE o \notin DOMAIN c.pull
    BY <2>1, <2>3, NoObjectTidy
  <2> QED
    BY <2>2, <2>3
<1>3. CASE Writes(h, c) /\ c.kind \in {"retain", "remove"}
  <2>1. PICK gone : After(h, c) = Without(h, gone)
    BY <1>3 DEF After
  <2> QED
    BY <2>1, NoObjectTidy DEF Without
<1> QED
  BY <1>1, <1>2, <1>3 DEF IsCall, Writes

\* The file is tidy as long as it is not torn, and so is what was loaded of it.
TidyInv == \A o \in Ids :
  /\ Tidy(kept[o])
  /\ disk # Torn => Tidy(disk[o])
  /\ \A t \in Threads : Tidy(snap[t][o])

LEMMA StepTidyInv == IInv /\ TidyInv /\ [Next]_vars => TidyInv'
<1> SUFFICES ASSUME IInv, TidyInv, [Next]_vars
             PROVE  TidyInv'
  OBVIOUS
<1>0. \A o \in Ids : Tidy(EmptyHistory[o])
  BY NoObjectTidy DEF EmptyHistory
<1>1. ASSUME NEW t \in Threads, Stores(t), pc[t] \in Critical PROVE TidyInv'
  <2>1. IsCall(call[t]) /\ snap[t] \in Histories
    BY <1>1, HistoryStoreAssumption DEF IInv, CallInv, Critical, TypeOK
  <2>2. \A o \in Ids : Tidy(After(snap[t], call[t])[o])
    BY <2>1, AfterTidy DEF TidyInv
  <2> QED
    BY <1>1, <2>2 DEF Stores, TidyInv
<1>2. ASSUME NEW t \in Threads, Load(t) PROVE TidyInv'
  <2>1. \A o \in Ids : Tidy(Parsed(disk)[o])
    BY <1>0 DEF Parsed, TidyInv
  <2> QED
    BY <1>2, <2>1 DEF Load, TidyInv, IInv, TypeOK
<1>3. ASSUME NEW t \in Threads, Return(t) PROVE TidyInv'
  BY <1>0, <1>3 DEF Return, TidyInv, IInv, TypeOK
<1>4. CASE Crash
  BY <1>0, <1>4 DEF Crash, TidyInv
<1>5. ASSUME NEW t \in Threads, Truncate(t) PROVE TidyInv'
  BY <1>5 DEF Truncate, TidyInv
<1>6. ASSUME UNCHANGED <<kept, disk, snap>> PROVE TidyInv'
  BY <1>6 DEF TidyInv
<1>7. CASE \E t \in Threads : WriteByRename(t) \/ WriteInPlace(t)
  BY <1>1, <1>7 DEF WriteByRename, WriteInPlace, Goto, Critical
<1>8. CASE \E t \in Threads, c \in Requests : Invoke(t, c)
  BY <1>6, <1>8 DEF Invoke
<1>9. CASE \E t \in Threads : LoadUnlocked(t) \/ Acquire(t) \/ ReturnEarly(t) \/ Raise(t)
  BY <1>6, <1>9 DEF LoadUnlocked, Acquire, ReturnEarly, Raise
<1>10. CASE UNCHANGED vars
  BY <1>6, <1>10 DEF vars
<1> QED
  BY <1>2, <1>3, <1>4, <1>5, <1>7, <1>8, <1>9, <1>10 DEF Next, Proceed

\* store.py l.7-8, l.241-249: per object one sample per epoch, at most the cap,
\* and no record without a sample, after any calls, faults and crashes, torn
\* files included.
THEOREM WellFormedHolds == Spec => []WellFormed
<1>1. Init => TidyInv
  BY NoObjectTidy DEF Init, TidyInv, EmptyHistory
<1>2. TidyInv => WellFormed
  BY DEF TidyInv, Tidy, OnePerEpoch, WellFormed
<1> QED
  BY Invariance, <1>1, <1>2, StepTidyInv, PTL DEF Spec

-----------------------------------------------------------------------------
(* The fixes.                                                                 *)

LEMMA NewestNotOlder ==
  ASSUME NEW held \in Fix \cup {None}, NEW new \in Fix \cup {None}
  PROVE  NotOlder(held, NewestFix(held, new)) /\ NotOlder(held, held)
<1>1. ASSUME NEW f \in Fix PROVE f.epoch \in Nat /\ f # None
  BY HistoryAssumption DEF Fix
<1> QED
  BY <1>1 DEF NotOlder, NewestFix

\* An object that a call leaves in the store has no older fix than before.
LEMMA AfterNotOlder ==
  ASSUME NEW h \in Histories, NEW c, IsCall(c),
         NEW o \in Present(h) \cap Present(After(h, c))
  PROVE  /\ NotOlder(h[o].elset, After(h, c)[o].elset)
         /\ \A q \in Providers : NotOlder(h[o].candidates[q], After(h, c)[o].candidates[q])
<1>0. o \in Ids /\ h[o] \in Object /\ After(h, c)[o].samples # {}
  BY DEF Present, Histories
<1>1. /\ h[o].elset \in Fix \cup {None}
      /\ \A q \in Providers : h[o].candidates[q] \in Fix \cup {None}
  BY <1>0 DEF Object
<1>2. CASE After(h, c)[o] = h[o]
  BY <1>1, <1>2, NewestNotOlder
<1>3. CASE After(h, c)[o] # h[o]
  <2>0. After(h, c) # h
    BY <1>3
  <2>1. After(h, c)[o] # NoObject
    BY <1>0 DEF NoObject
  <2>2. c.kind = "merge" /\ Writes(h, c)
    <3>1. ASSUME NEW gone, After(h, c) = Without(h, gone) PROVE FALSE
      BY <1>0, <1>3, <2>1, <3>1 DEF Without
    <3>2. Writes(h, c)
      BY <2>0 DEF After
    <3>3. c.kind \in {"retain", "remove"} => \E gone : After(h, c) = Without(h, gone)
      BY <3>2 DEF After
    <3> QED
      BY <3>1, <3>2, <3>3 DEF IsCall, Writes
  <2> DEFINE cutoff == c.now - Retention
  <2>3. /\ o \in DOMAIN c.pull
        /\ After(h, c)[o] = MergeRecord(h[o], c.pull[o], cutoff)
    BY <1>0, <1>3, <2>1, <2>2 DEF After, Merge, DropEmpty
  <2>4. /\ c.pull[o].elset \in Fix \cup {None}
        /\ \A q \in Providers : c.pull[o].candidates[q] \in Fix \cup {None}
    BY <2>2, <2>3 DEF IsCall, IsPull, Record
  <2>5. /\ After(h, c)[o].elset = NewestFix(h[o].elset, c.pull[o].elset)
        /\ \A q \in Providers : After(h, c)[o].candidates[q]
                                  = NewestFix(h[o].candidates[q], c.pull[o].candidates[q])
    BY <2>3 DEF MergeRecord
  <2> QED
    BY <1>1, <2>4, <2>5, NewestNotOlder
<1> QED
  BY <1>2, <1>3

\* store.py l.86-112: outside a torn file, no order in which overlapping pulls
\* are merged takes a published element set back to an older one.
THEOREM FixesNeverOlderHolds == Spec => FixesNeverOlder
<1>1. IInv /\ [Next]_vars =>
        [Safe => \A o \in Present(kept) \cap Present(kept)' :
           /\ NotOlder(kept[o].elset, kept'[o].elset)
           /\ \A q \in Providers :
                NotOlder(kept[o].candidates[q], kept'[o].candidates[q])]_kept
  <2> SUFFICES ASSUME IInv, [Next]_vars, Safe, kept' # kept,
                      NEW o \in Present(kept) \cap Present(kept')
               PROVE  /\ NotOlder(kept[o].elset, kept'[o].elset)
                      /\ \A q \in Providers :
                           NotOlder(kept[o].candidates[q], kept'[o].candidates[q])
    BY DEF Present
  <2>1. PICK t \in Threads : WriteByRename(t) \/ WriteInPlace(t)
    BY DEF Next, Proceed, vars, Invoke, LoadUnlocked, Acquire, Load,
       ReturnEarly, Truncate, Raise, Return, Crash
  <2>2. Stores(t) /\ pc[t] \in {"loaded", "direct"}
    BY <2>1 DEF WriteByRename, WriteInPlace, Goto
  <2>3. snap[t] = kept /\ kept \in Histories /\ IsCall(call[t])
    BY <2>2, HistoryStoreAssumption
       DEF IInv, FileInv, SnapshotCurrent, TypeOK, CallInv
  <2>4. kept' = After(kept, call[t])
    BY <2>2, <2>3 DEF Stores
  <2> QED
    BY <2>3, <2>4, AfterNotOlder
<1> QED
  BY <1>1, Invariance, PTL DEF Spec, FixesNeverOlder

=============================================================================
