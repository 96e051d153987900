------------------------ MODULE ResilientFile_proofs ------------------------
(***************************************************************************)
(* Proofs about ResilientFile for any set of writers, readers and texts:   *)
(* type correctness, no torn file and the refinement of AtomicFile on a    *)
(* volume that implements rename, and, on any volume, what a caller may     *)
(* rely on when its call is over.                                           *)
(***************************************************************************)
EXTENDS ResilientFile, TLAPS

\* A writer owes its caller an answer exactly while it is before its cleanup.
PendingInv == \A w \in Writers :
  outcome[w] = "pending" <=> pc[w] \in {"fill", "rename", "direct"}

\* With rename, only complete texts reach the path.
WholeInv == renames =>
  /\ path \notin {Empty, Torn}
  /\ \A w \in Writers :
       /\ pc[w] # "direct"
       /\ pc[w] = "rename" => tmp[w] = text[w]
  /\ \A r \in Readers : fd[r] # Mixed

\* A descriptor is only ever opened on a file that exists.
OpenInv == \A r \in Readers : fd[r] \in {Live, Mixed} => path # Absent

IInv == TypeOK /\ PendingInv /\ WholeInv /\ OpenInv

LEMMA InitIInv == Init => IInv
<1> SUFFICES ASSUME Init
             PROVE  IInv
  OBVIOUS
<1> USE ResilientFileAssumption
    DEF Init, Steps, Outcomes, Absent, Empty, Torn, Unread, Live, Mixed
<1>1. TypeOK
  <2>1. path \in Texts \cup {Absent, Empty, Torn} /\ text \in [Writers -> Texts]
    OBVIOUS
  <2>2. /\ tmp \in [Writers -> Texts \cup {Absent, Empty}]
        /\ pc \in [Writers -> Steps]
        /\ outcome \in [Writers -> Outcomes]
    OBVIOUS
  <2>3. /\ fd \in [Readers -> Texts \cup {Unread, Live, Mixed}]
        /\ seen \in [Readers -> Texts \cup {Absent, Empty, Torn, Unread}]
    OBVIOUS
  <2>4. litter \in BOOLEAN /\ renames \in BOOLEAN
    BY Zenon
  <2>5. crashes \in 0..MaxCrashes
    OBVIOUS
  <2>6. QED
    BY <2>1, <2>2, <2>3, <2>4, <2>5 DEF TypeOK
<1>2. PendingInv
  BY DEF PendingInv
<1>3. WholeInv
  BY DEF WholeInv
<1>4. OpenInv
  BY DEF OpenInv
<1>5. QED
  BY <1>1, <1>2, <1>3, <1>4 DEF IInv

LEMMA StepIInv == IInv /\ [Next]_vars => IInv'
<1> SUFFICES ASSUME IInv, [Next]_vars
             PROVE  IInv'
  OBVIOUS
<1> USE ResilientFileAssumption
    DEF IInv, TypeOK, PendingInv, WholeInv, OpenInv, Steps, Outcomes,
        Absent, Empty, Torn, Unread, Live, Mixed, Goto, Ends
<1>0. UNCHANGED renames
  BY DEF Next, vars
<1>1. ASSUME NEW w \in Writers, NEW t \in Texts, CreateTmp(w, t)
      PROVE  IInv'
  BY <1>0, <1>1 DEF CreateTmp
<1>2. ASSUME NEW w \in Writers, FillTmp(w)
      PROVE  IInv'
  BY <1>0, <1>2 DEF FillTmp
<1>3. ASSUME NEW w \in Writers, Replace(w)
      PROVE  IInv'
  BY <1>0, <1>3 DEF Replace, KeepOldInode
<1>4. ASSUME NEW w \in Writers, RaiseUntouched(w)
      PROVE  IInv'
  BY <1>0, <1>4 DEF RaiseUntouched
<1>5. ASSUME NEW w \in Writers, FallBack(w)
      PROVE  IInv'
  BY <1>0, <1>5 DEF FallBack, ChangeInPlace
<1>6. ASSUME NEW w \in Writers, WriteDirect(w)
      PROVE  IInv'
  BY <1>0, <1>6 DEF WriteDirect, ChangeInPlace
<1>7. ASSUME NEW w \in Writers, RaiseTorn(w)
      PROVE  IInv'
  BY <1>0, <1>7 DEF RaiseTorn, ChangeInPlace
<1>8. ASSUME NEW w \in Writers, Cleanup(w)
      PROVE  IInv'
  BY <1>0, <1>8 DEF Cleanup
<1>9. ASSUME NEW r \in Readers, OpenPath(r)
      PROVE  IInv'
  BY <1>0, <1>9 DEF OpenPath
<1>10. ASSUME NEW r \in Readers, ReadToEnd(r)
       PROVE  IInv'
  BY <1>0, <1>10 DEF ReadToEnd
<1>11. CASE Crash
  BY <1>0, <1>11 DEF Crash
<1>12. CASE UNCHANGED vars
  BY <1>0, <1>12 DEF vars
<1>13. QED
  BY <1>1, <1>2, <1>3, <1>4, <1>5, <1>6, <1>7, <1>8, <1>9, <1>10, <1>11,
     <1>12 DEF Next, Write

\* The inductive invariant holds of every reachable state.
THEOREM Invariance == Spec => []IInv
  BY InitIInv, StepIInv, PTL DEF Spec

\* TypeOK of resilient_write and its readers.
THEOREM TypeCorrect == Spec => []TypeOK
<1>1. IInv => TypeOK
  BY DEF IInv
<1>2. QED
  BY Invariance, <1>1, PTL

\* store.py l.4: with rename, the path never holds a torn or empty text.
THEOREM RenameNeverTears == Spec => []NeverTorn
<1>1. IInv => NeverTorn
  BY DEF IInv, WholeInv, NeverTorn
<1>2. QED
  BY Invariance, <1>1, PTL

-----------------------------------------------------------------------------
(* What a caller may rely on when its call is over *)

AllNone(w) == \A x \in Writers \ {w} : outcome[x] = "none"

\* Who is in the middle of an in-place write, alone, has the file empty.
CallInv == \A w \in Writers :
  /\ outcome[w] = "none" => pc[w] = "idle"
  /\ pc[w] = "direct" /\ AllNone(w) => path = Empty

LEMMA InitRest == Init => CallInv /\ NoLitter /\ StoredStays
BY DEF Init, CallInv, NoLitter, StoredStays

LEMMA StepRest ==
  ASSUME IInv, CallInv, NoLitter, StoredStays, [Next]_vars
  PROVE  (CallInv /\ NoLitter /\ StoredStays)'
<1> USE ResilientFileAssumption
    DEF IInv, TypeOK, PendingInv, WholeInv, CallInv, NoLitter, StoredStays,
        AllNone, Steps, Outcomes, Absent, Empty, Torn, Goto, Ends
<1>0. UNCHANGED renames
  BY DEF Next, vars
<1>1. ASSUME NEW w \in Writers, NEW t \in Texts, CreateTmp(w, t)
      PROVE  (CallInv /\ NoLitter /\ StoredStays)'
  <2>1. CallInv'
    BY <1>0, <1>1 DEF CreateTmp
  <2>2. NoLitter'
    BY <1>0, <1>1 DEF CreateTmp
  <2>3. StoredStays'
    BY <1>0, <1>1 DEF CreateTmp
  <2>4. QED
    BY <2>1, <2>2, <2>3
<1>2. ASSUME NEW w \in Writers, FillTmp(w)
      PROVE  (CallInv /\ NoLitter /\ StoredStays)'
  <2>1. CallInv'
    BY <1>0, <1>2 DEF FillTmp
  <2>2. NoLitter'
    BY <1>0, <1>2 DEF FillTmp
  <2>3. StoredStays'
    BY <1>0, <1>2 DEF FillTmp
  <2>4. QED
    BY <2>1, <2>2, <2>3
<1>3. ASSUME NEW w \in Writers, Replace(w)
      PROVE  (CallInv /\ NoLitter /\ StoredStays)'
  <2>1. CallInv'
    BY <1>0, <1>3 DEF Replace
  <2>2. NoLitter'
    BY <1>0, <1>3 DEF Replace
  <2>3. StoredStays'
    BY <1>0, <1>3 DEF Replace
  <2>4. QED
    BY <2>1, <2>2, <2>3
<1>4. ASSUME NEW w \in Writers, RaiseUntouched(w)
      PROVE  (CallInv /\ NoLitter /\ StoredStays)'
  <2>1. CallInv'
    BY <1>0, <1>4 DEF RaiseUntouched
  <2>2. NoLitter'
    BY <1>0, <1>4 DEF RaiseUntouched
  <2>3. StoredStays'
    BY <1>0, <1>4 DEF RaiseUntouched
  <2>4. QED
    BY <2>1, <2>2, <2>3
<1>5. ASSUME NEW w \in Writers, FallBack(w)
      PROVE  (CallInv /\ NoLitter /\ StoredStays)'
  <2>1. CallInv'
    BY <1>0, <1>5 DEF FallBack
  <2>2. NoLitter'
    BY <1>0, <1>5 DEF FallBack
  <2>3. StoredStays'
    BY <1>0, <1>5 DEF FallBack
  <2>4. QED
    BY <2>1, <2>2, <2>3
<1>6. ASSUME NEW w \in Writers, WriteDirect(w)
      PROVE  (CallInv /\ NoLitter /\ StoredStays)'
  <2>1. CallInv'
    BY <1>0, <1>6 DEF WriteDirect
  <2>2. NoLitter'
    BY <1>0, <1>6 DEF WriteDirect
  <2>3. StoredStays'
    BY <1>0, <1>6 DEF WriteDirect
  <2>4. QED
    BY <2>1, <2>2, <2>3
<1>7. ASSUME NEW w \in Writers, RaiseTorn(w)
      PROVE  (CallInv /\ NoLitter /\ StoredStays)'
  <2>1. CallInv'
    BY <1>0, <1>7 DEF RaiseTorn
  <2>2. NoLitter'
    BY <1>0, <1>7 DEF RaiseTorn
  <2>3. StoredStays'
    BY <1>0, <1>7 DEF RaiseTorn
  <2>4. QED
    BY <2>1, <2>2, <2>3
<1>8. ASSUME NEW w \in Writers, Cleanup(w)
      PROVE  (CallInv /\ NoLitter /\ StoredStays)'
  <2>1. CallInv'
    BY <1>0, <1>8 DEF Cleanup
  <2>2. NoLitter'
    BY <1>0, <1>8 DEF Cleanup
  <2>3. StoredStays'
    BY <1>0, <1>8 DEF Cleanup
  <2>4. QED
    BY <2>1, <2>2, <2>3
<1>9. ASSUME NEW r \in Readers, OpenPath(r)
      PROVE  (CallInv /\ NoLitter /\ StoredStays)'
  <2>1. CallInv'
    BY <1>0, <1>9 DEF OpenPath
  <2>2. NoLitter'
    BY <1>0, <1>9 DEF OpenPath
  <2>3. StoredStays'
    BY <1>0, <1>9 DEF OpenPath
  <2>4. QED
    BY <2>1, <2>2, <2>3
<1>10. ASSUME NEW r \in Readers, ReadToEnd(r)
       PROVE  (CallInv /\ NoLitter /\ StoredStays)'
  <2>1. CallInv'
    BY <1>0, <1>10 DEF ReadToEnd
  <2>2. NoLitter'
    BY <1>0, <1>10 DEF ReadToEnd
  <2>3. StoredStays'
    BY <1>0, <1>10 DEF ReadToEnd
  <2>4. QED
    BY <2>1, <2>2, <2>3
<1>11. CASE Crash
  BY <1>0, <1>11 DEF Crash
<1>12. CASE UNCHANGED vars
  BY <1>0, <1>12 DEF vars
<1>13. QED
  BY <1>1, <1>2, <1>3, <1>4, <1>5, <1>6, <1>7, <1>8, <1>9, <1>10, <1>11,
     <1>12 DEF Next, Write

LEMMA RestInvariance == Spec => [](CallInv /\ NoLitter /\ StoredStays)
<1>1. IInv /\ (CallInv /\ NoLitter /\ StoredStays) /\ [Next]_vars
        => (CallInv /\ NoLitter /\ StoredStays)'
  BY StepRest
<1>2. QED
  BY <1>1, InitRest, Invariance, PTL DEF Spec

\* store.py l.56-60: whatever way a call ends, its temporary file is gone.
THEOREM NoLitterHolds == Spec => []NoLitter
  BY RestInvariance, PTL

\* store.py l.33-60: who was told that the text is stored finds a whole text at
\* the path, and its own unless another writer was called.
THEOREM StoredStaysHolds == Spec => []StoredStays
  BY RestInvariance, PTL

-----------------------------------------------------------------------------
(* Refinement.  The promised reader reads at the instant of its open: the  *)
(* value it will return is fixed by the inode it holds.                     *)

LEMMA InitRefines == renames /\ Init => Promise!Init
  BY DEF Init, Promise!Init, Reading, Unread, Absent, Live, Promise!Unread,
      Promise!Absent

LEMMA StepRefines ==
  ASSUME renames, IInv, [Next]_vars
  PROVE  [Promise!Next]_(Promise!vars)
<1> USE ResilientFileAssumption
    DEF IInv, TypeOK, PendingInv, WholeInv, OpenInv, Steps, Outcomes, Reading,
        Absent, Empty, Torn, Unread, Live, Mixed, Goto, Ends,
        Promise!vars, Promise!Absent, Promise!Unread
<1>1. ASSUME NEW w \in Writers, NEW t \in Texts, CreateTmp(w, t)
      PROVE  Promise!Call(w)
  BY <1>1 DEF CreateTmp, Promise!Call
<1>2. ASSUME NEW w \in Writers, FillTmp(w)
      PROVE  UNCHANGED Promise!vars
  BY <1>2 DEF FillTmp
<1>3. ASSUME NEW w \in Writers, Replace(w)
      PROVE  Promise!Commit(w)
  BY <1>3 DEF Replace, KeepOldInode, Promise!Commit
<1>4. ASSUME NEW w \in Writers, RaiseUntouched(w)
      PROVE  Promise!Abort(w)
  BY <1>4 DEF RaiseUntouched, Promise!Abort
<1>5. ASSUME NEW w \in Writers, FallBack(w)
      PROVE  FALSE
  BY <1>5 DEF FallBack
<1>6. ASSUME NEW w \in Writers, WriteDirect(w) \/ RaiseTorn(w)
      PROVE  FALSE
  BY <1>6 DEF WriteDirect, RaiseTorn
<1>7. ASSUME NEW w \in Writers, Cleanup(w)
      PROVE  UNCHANGED Promise!vars
  BY <1>7 DEF Cleanup
<1>8. ASSUME NEW r \in Readers, OpenPath(r)
      PROVE  Promise!Read(r)
  <2>1. UNCHANGED <<path, outcome>>
    BY <1>8 DEF OpenPath
  <2>2. \A q \in Readers : Reading(q)' = IF q = r THEN path ELSE Reading(q)
    <3>1. CASE path = Absent
      BY <1>8, <3>1 DEF OpenPath
    <3>2. CASE path # Absent
      BY <1>8, <3>2 DEF OpenPath
    <3>3. QED
      BY <3>1, <3>2
  <2>3. QED
    BY <2>1, <2>2 DEF Promise!Read
<1>9. ASSUME NEW r \in Readers, ReadToEnd(r)
      PROVE  UNCHANGED Promise!vars
  BY <1>9 DEF ReadToEnd
<1>10. CASE Crash
  <2>1. Promise!Crash
    BY <1>10 DEF Crash, Promise!Crash
  <2>2. QED
    BY <2>1 DEF Promise!Next
<1>11. CASE UNCHANGED vars
  BY <1>11 DEF vars
<1>12. QED
  BY <1>1, <1>2, <1>3, <1>4, <1>5, <1>6, <1>7, <1>8, <1>9, <1>10, <1>11
     DEF Next, Write, Promise!Next

\* On a volume that implements rename, resilient_write and the readers of its
\* path behave as the atomic file: every write is all or nothing, every read
\* is of one complete content, a crash loses no content.
THEOREM Refinement == Spec => ImplementsAtomicFile
<1>1. Init => (renames => Promise!Init)
  BY InitRefines
<1>2. IInv /\ [Next]_vars => [renames => Promise!Next]_(Promise!vars)
  BY StepRefines
<1>3. QED
  BY <1>1, <1>2, Invariance, PTL DEF Spec, ImplementsAtomicFile

=============================================================================
