--------------------------- MODULE Refresh_proofs ---------------------------
(***************************************************************************)
(* Proofs about Refresh, for any number of operators, sources and objects: *)
(* the guard is exclusive, what is published moves forward, every variable *)
(* keeps its type, and what a cycle has merged is there until it ends.     *)
(***************************************************************************)
EXTENDS Refresh, DataLemmas

\* What OneFlight rests on.
FlightInv ==
  /\ pc \in [Threads -> Steps]
  /\ running \in BOOLEAN
  /\ OneFlight

\* A cycle in flight is stamped no earlier than the last one published, which
\* is its own once it has published the first attribute.
StampInv ==
  /\ clock \in Nat
  /\ now \in [Threads -> Nat]
  /\ {"run", "hrr", "ok", "added", "errors", "ingest"} = DOMAIN pub
  /\ pub.run \in Times /\ pub.ok \in Times
  /\ Before(pub.ok, pub.run)
  /\ pub.run # None => pub.run <= clock
  /\ \A t \in Threads : pc[t] \in InFlight =>
       /\ now[t] <= clock
       /\ Before(pub.run, now[t])
  /\ \A t \in Threads : pc[t] \in {"last_added", "last_errors", "last_ingest", "last_ok"} =>
       pub.run = now[t]

IInv == FlightInv /\ StampInv

\* The steps of a flight, of the scheduler and of nobody, as Next lists them.
LEMMA NextCases ==
  ASSUME Next
  PROVE  \/ \E t \in Threads, k \in Kinds, w \in Windows \cup {NoWindow} : Call(t, k, w)
         \/ \E t \in Threads : Begin(t) \/ End(t)
         \/ \E t \in Threads : Busy(t)
         \/ \E t \in Threads : HrrSkipped(t) \/ HrrRefreshed(t) \/ HrrRaises(t)
         \/ \E t \in Threads : StartIngest(t) \/ Merging(t) \/ FinishIngest(t)
         \/ \E t \in Threads, i \in 1..Sources : \E a \in Answers[i] : Fetch(t, a)
         \/ \E t \in Threads : StoreRaises(t) \/ ListRaises(t)
         \/ \E t \in Threads : PublishRun(t)
         \/ \E t \in Threads : PublishAdded(t) \/ PublishIngest(t) \/ PublishOk(t)
         \/ \E t \in Threads : PublishErrors(t)
         \/ Verdict \/ VerdictRaises
         \/ RequestLoads \/ LateLoad
         \/ \E pull \in Injections : MergeOne(pull)
         \/ Tick
  BY DEF Next, Proceed, Tell

-----------------------------------------------------------------------------
LEMMA InitIInv == Init => IInv
<1> SUFFICES ASSUME Init PROVE IInv
  OBVIOUS
<1>1. FlightInv
  BY DEF Init, FlightInv, OneFlight, Steps, InFlight
<1>2. StampInv
  BY RefreshAssumption DEF Init, StampInv, Times, Before, InFlight
<1> QED
  BY <1>1, <1>2 DEF IInv

-----------------------------------------------------------------------------
\* A thread that moves within the flight, or outside it, keeps the guard's state.
LEMMA MoveKeepsFlight ==
  ASSUME FlightInv, NEW t \in Threads, NEW from, NEW to \in Steps,
         Goto(t, from, to), (from \in InFlight) <=> (to \in InFlight),
         running' = running
  PROVE  FlightInv'
<1>1. pc' = [pc EXCEPT ![t] = to] /\ pc[t] = from /\ pc \in [Threads -> Steps]
  BY DEF Goto, FlightInv
<1>2. pc' \in [Threads -> Steps]
  BY <1>1
<1>3. \A u \in Threads : (pc'[u] \in InFlight) <=> (pc[u] \in InFlight)
  BY <1>1
<1> QED
  BY <1>2, <1>3 DEF FlightInv, OneFlight

LEMMA SameFlight ==
  ASSUME FlightInv, UNCHANGED <<pc, running>>
  PROVE  FlightInv'
  BY DEF FlightInv, OneFlight

LEMMA StepFlightInv ==
  ASSUME FlightInv, [Next]_vars
  PROVE  FlightInv'
<1> USE DEF Steps, InFlight
<1>1. ASSUME NEW t \in Threads, NEW k, NEW w, Call(t, k, w) PROVE FlightInv'
  BY <1>1, MoveKeepsFlight DEF Call
<1>2. ASSUME NEW t \in Threads, Begin(t) PROVE FlightInv'
  <2>1. PICK to \in InFlight : Goto(t, "begin", to)
    BY <1>2 DEF Begin
  <2>2. ~running /\ running' = TRUE
    BY <1>2 DEF Begin
  <2>3. pc' = [pc EXCEPT ![t] = to] /\ pc \in [Threads -> Steps]
    BY <2>1 DEF Goto, FlightInv
  <2>4. \A u \in Threads : pc[u] \notin InFlight
    BY <2>2 DEF FlightInv, OneFlight
  <2>5. \A u \in Threads : pc'[u] \in InFlight <=> u = t
    BY <2>3, <2>4
  <2>6. pc' \in [Threads -> Steps]
    BY <2>3
  <2> QED
    BY <2>2, <2>5, <2>6 DEF FlightInv, OneFlight
<1>3. ASSUME NEW t \in Threads, End(t) PROVE FlightInv'
  <2>1. pc[t] = "end" /\ running' = FALSE
    BY <1>3 DEF End, Goto
  <2>2. pc' = [pc EXCEPT ![t] = Returned(t)] /\ pc \in [Threads -> Steps]
    BY <1>3 DEF End, Goto, FlightInv
  <2>3. Returned(t) \in Steps \ InFlight
    BY DEF Returned
  <2>4. \A u \in Threads : pc'[u] \notin InFlight
    BY <2>1, <2>2, <2>3 DEF FlightInv, OneFlight
  <2>5. pc' \in [Threads -> Steps]
    BY <2>2, <2>3
  <2> QED
    BY <2>1, <2>4, <2>5 DEF FlightInv, OneFlight
<1>4. ASSUME NEW t \in Threads, Busy(t) PROVE FlightInv'
  <2>1. Returned(t) \in Steps \ InFlight
    BY DEF Returned
  <2> QED
    BY <1>4, <2>1, MoveKeepsFlight DEF Busy
<1>5. ASSUME NEW t \in Threads, HrrSkipped(t) \/ HrrRefreshed(t) \/ HrrRaises(t)
      PROVE  FlightInv'
  BY <1>5, MoveKeepsFlight DEF HrrSkipped, HrrRefreshed, HrrRaises
<1>6. ASSUME NEW t \in Threads, StartIngest(t) \/ Merging(t) PROVE FlightInv'
  BY <1>6, MoveKeepsFlight DEF StartIngest, Merging
<1>7. ASSUME NEW t \in Threads, FinishIngest(t) PROVE FlightInv'
  <2>1. PICK to \in InFlight : Goto(t, "fetch", to)
    BY <1>7 DEF FinishIngest
  <2> QED
    BY <1>7, <2>1, MoveKeepsFlight DEF FinishIngest
<1>8. ASSUME NEW t \in Threads, NEW a, Fetch(t, a) PROVE FlightInv'
  <2>1. PICK to \in InFlight : Goto(t, "fetch", to)
    BY <1>8 DEF Fetch
  <2> QED
    BY <1>8, <2>1, MoveKeepsFlight DEF Fetch
<1>9. ASSUME NEW t \in Threads, StoreRaises(t) \/ ListRaises(t) PROVE FlightInv'
  BY <1>9, MoveKeepsFlight DEF StoreRaises, ListRaises
<1>10. ASSUME NEW t \in Threads,
              PublishRun(t) \/ PublishAdded(t) \/ PublishIngest(t) \/ PublishOk(t)
       PROVE  FlightInv'
  BY <1>10, MoveKeepsFlight DEF PublishRun, PublishAdded, PublishIngest, PublishOk
<1>11. ASSUME NEW t \in Threads, PublishErrors(t) PROVE FlightInv'
  <2>1. PICK to \in InFlight : Goto(t, "last_errors", to)
    BY <1>11 DEF PublishErrors
  <2> QED
    BY <1>11, <2>1, MoveKeepsFlight DEF PublishErrors
<1>12. ASSUME Verdict \/ VerdictRaises PROVE FlightInv'
  BY <1>12, MoveKeepsFlight DEF Verdict, VerdictRaises, Threads
<1>13. ASSUME (\E pull \in Injections : MergeOne(pull)) \/ RequestLoads \/ LateLoad
       PROVE  FlightInv'
  BY <1>13, SameFlight DEF MergeOne, RequestLoads, LateLoad, flight
<1>14. CASE Tick
  BY <1>14, SameFlight DEF Tick, flight
<1>15. CASE UNCHANGED vars
  BY <1>15, SameFlight DEF vars, flight
<1> QED
  BY <1>1, <1>2, <1>3, <1>4, <1>5, <1>6, <1>7, <1>8, <1>9, <1>10, <1>11, <1>12,
     <1>13, <1>14, <1>15, NextCases

-----------------------------------------------------------------------------
Publishing == {"last_added", "last_errors", "last_ingest", "last_ok"}

\* A step that publishes neither time and starts no flight keeps the stamps.
LEMMA SameStamps ==
  ASSUME StampInv, UNCHANGED <<clock, now>>,
         DOMAIN pub' = DOMAIN pub, pub'.run = pub.run, pub'.ok = pub.ok,
         \A u \in Threads : pc'[u] \in InFlight => pc[u] \in InFlight,
         \A u \in Threads : pc'[u] \in Publishing => pc[u] \in Publishing
  PROVE  StampInv'
  BY DEF StampInv, Before, Publishing

LEMMA MoveKeepsStamps ==
  ASSUME FlightInv, StampInv, NEW t \in Threads, NEW from, NEW to,
         Goto(t, from, to), to \in InFlight => from \in InFlight,
         to \in Publishing => from \in Publishing,
         UNCHANGED <<clock, now>>,
         DOMAIN pub' = DOMAIN pub, pub'.run = pub.run, pub'.ok = pub.ok
  PROVE  StampInv'
<1>1. pc' = [pc EXCEPT ![t] = to] /\ pc[t] = from /\ pc \in [Threads -> Steps]
  BY DEF Goto, FlightInv
<1>2. \A u \in Threads : pc'[u] \in InFlight => pc[u] \in InFlight
  BY <1>1
<1>3. \A u \in Threads : pc'[u] \in Publishing => pc[u] \in Publishing
  BY <1>1
<1> QED
  BY <1>2, <1>3, SameStamps

LEMMA StepStampInv ==
  ASSUME FlightInv, FlightInv', StampInv, [Next]_vars
  PROVE  StampInv'
<1> USE DEF InFlight, Publishing
<1>1. ASSUME NEW t \in Threads, NEW k, NEW w, Call(t, k, w) PROVE StampInv'
  BY <1>1, MoveKeepsStamps DEF Call, ingest
<1>2. ASSUME NEW t \in Threads, Begin(t) PROVE StampInv'
  <2>1. PICK to \in {"hrr", "ingest"} : Goto(t, "begin", to)
    BY <1>2 DEF Begin
  <2>2. now' = [now EXCEPT ![t] = clock] /\ UNCHANGED <<clock, pub>> /\ ~running
    BY <1>2 DEF Begin
  <2>3. pc' = [pc EXCEPT ![t] = to] /\ pc \in [Threads -> Steps]
    BY <2>1 DEF Goto, FlightInv
  <2>4. \A u \in Threads : pc'[u] \in InFlight => u = t
    BY <2>2, <2>3 DEF FlightInv, OneFlight
  <2>5. \A u \in Threads : pc'[u] \notin Publishing
    BY <2>3, <2>4
  <2>6. now' \in [Threads -> Nat] /\ now'[t] = clock
    BY <2>2 DEF StampInv
  <2>7. clock # None /\ Before(pub.run, clock) /\ clock <= clock
    BY RefreshAssumption DEF StampInv, Before
  <2>8. \A u \in Threads : pc'[u] \in InFlight =>
          now'[u] <= clock' /\ Before(pub'.run, now'[u])
    BY <2>2, <2>4, <2>6, <2>7 DEF Before
  <2> QED
    BY <2>2, <2>5, <2>6, <2>8 DEF StampInv
<1>3. ASSUME NEW t \in Threads, End(t) PROVE StampInv'
  <2>1. now' \in [Threads -> Nat] /\ UNCHANGED <<clock, pub>>
    BY <1>3 DEF End, StampInv
  <2>2. pc' = [pc EXCEPT ![t] = Returned(t)] /\ pc[t] = "end" /\ pc \in [Threads -> Steps]
    BY <1>3 DEF End, Goto, FlightInv
  <2>3. Returned(t) \notin InFlight
    BY DEF Returned
  <2>4. \A u \in Threads : pc'[u] \notin InFlight
    BY <2>2, <2>3 DEF FlightInv, OneFlight
  <2> QED
    BY <2>1, <2>4 DEF StampInv
<1>4. ASSUME NEW t \in Threads, Busy(t) PROVE StampInv'
  <2>1. Returned(t) \notin InFlight
    BY DEF Returned
  <2> QED
    BY <1>4, <2>1, MoveKeepsStamps DEF Busy, args
<1>5. ASSUME NEW t \in Threads, HrrSkipped(t) \/ HrrRaises(t) PROVE StampInv'
  BY <1>5, MoveKeepsStamps DEF HrrSkipped, HrrRaises, args
<1>6. ASSUME NEW t \in Threads, HrrRefreshed(t) PROVE StampInv'
  <2>1. pub' = [pub EXCEPT !["hrr"] = now[t]]
    BY <1>6 DEF HrrRefreshed, Publishes
  <2>2. DOMAIN pub' = DOMAIN pub /\ pub'.run = pub.run /\ pub'.ok = pub.ok
    BY <2>1 DEF StampInv
  <2> QED
    BY <1>6, <2>2, MoveKeepsStamps DEF HrrRefreshed, args
<1>7. ASSUME NEW t \in Threads, StartIngest(t) \/ Merging(t) PROVE StampInv'
  BY <1>7, MoveKeepsStamps DEF StartIngest, Merging, args
<1>8. ASSUME NEW t \in Threads, FinishIngest(t) PROVE StampInv'
  <2>1. PICK to \in {"last_run", "ingest"} : Goto(t, "fetch", to)
    BY <1>8 DEF FinishIngest
  <2> QED
    BY <1>8, <2>1, MoveKeepsStamps DEF FinishIngest, args
<1>9. ASSUME NEW t \in Threads, NEW a, Fetch(t, a) PROVE StampInv'
  <2>1. PICK to \in {"merge", "fetch"} : Goto(t, "fetch", to)
    BY <1>9 DEF Fetch
  <2> QED
    BY <1>9, <2>1, MoveKeepsStamps DEF Fetch, args
<1>10. ASSUME NEW t \in Threads, StoreRaises(t) \/ ListRaises(t) PROVE StampInv'
  BY <1>10, MoveKeepsStamps DEF StoreRaises, ListRaises, args
<1>11. ASSUME NEW t \in Threads, PublishRun(t) PROVE StampInv'
  <2>1. pub' = [pub EXCEPT !["run"] = now[t]] /\ UNCHANGED <<clock, now>>
    BY <1>11 DEF PublishRun, Publishes, args
  <2>2. DOMAIN pub' = DOMAIN pub /\ pub'.run = now[t] /\ pub'.ok = pub.ok
    BY <2>1 DEF StampInv
  <2>3. pc[t] \in InFlight /\ \A u \in Threads : pc'[u] \in InFlight => u = t
    <3>1. pc[t] = "last_run" /\ pc' = [pc EXCEPT ![t] = "last_added"]
      BY <1>11 DEF PublishRun, Goto
    <3> QED
      BY <3>1 DEF FlightInv, OneFlight
  <2>4. now[t] \in Nat /\ now[t] <= clock /\ Before(pub.run, now[t])
    BY <2>3 DEF StampInv
  <2>5. Before(pub'.ok, pub'.run)
    BY <2>2, <2>4 DEF StampInv, Before, Times
  <2>6. pub'.run \in Times /\ pub'.ok \in Times
    BY <2>2, <2>4 DEF StampInv, Times
  <2>7. \A u \in Threads : pc'[u] \in InFlight =>
          now'[u] <= clock' /\ Before(pub'.run, now'[u]) /\ pub'.run = now'[u]
    BY <2>1, <2>2, <2>3, <2>4 DEF Before
  <2> QED
    BY <2>1, <2>2, <2>4, <2>5, <2>6, <2>7 DEF StampInv
<1>12. ASSUME NEW t \in Threads, PublishErrors(t) PROVE StampInv'
  <2>1. PICK to \in {"last_ingest", "last_ok"} : Goto(t, "last_errors", to)
    BY <1>12 DEF PublishErrors
  <2>2. DOMAIN pub' = DOMAIN pub /\ pub'.run = pub.run /\ pub'.ok = pub.ok
    BY <1>12 DEF PublishErrors, Publishes, StampInv
  <2> QED
    BY <1>12, <2>1, <2>2, MoveKeepsStamps DEF PublishErrors, args
<1>13. ASSUME NEW t \in Threads, PublishAdded(t) \/ PublishIngest(t) PROVE StampInv'
  <2>1. DOMAIN pub' = DOMAIN pub /\ pub'.run = pub.run /\ pub'.ok = pub.ok
    BY <1>13 DEF PublishAdded, PublishIngest, Publishes, StampInv
  <2> QED
    BY <1>13, <2>1, MoveKeepsStamps DEF PublishAdded, PublishIngest, args
<1>14. ASSUME NEW t \in Threads, PublishOk(t) PROVE StampInv'
  <2>1. /\ DOMAIN pub' = DOMAIN pub /\ pub'.run = pub.run
        /\ pub'.ok \in {pub.ok, now[t]}
    BY <1>14 DEF PublishOk, Publishes, StampInv
  <2>2. pc[t] = "last_ok" /\ pc' = [pc EXCEPT ![t] = "end"] /\ UNCHANGED <<clock, now>>
    BY <1>14 DEF PublishOk, Goto, args
  <2>3. pub.run = now[t] /\ now[t] \in Nat
    BY <2>2 DEF StampInv
  <2>4. pub'.ok \in Times /\ Before(pub'.ok, pub'.run)
    BY <2>1, <2>3 DEF StampInv, Before, Times
  <2>5. \A u \in Threads : pc'[u] \in InFlight => pc[u] \in InFlight
    BY <2>2 DEF FlightInv
  <2>6. \A u \in Threads : pc'[u] \in Publishing => pc[u] \in Publishing
    BY <2>2 DEF FlightInv
  <2> QED
    BY <2>1, <2>2, <2>4, <2>5, <2>6 DEF StampInv, Before
<1>15. ASSUME Verdict \/ VerdictRaises PROVE StampInv'
  BY <1>15, MoveKeepsStamps DEF Verdict, VerdictRaises, Threads, args
<1>16. ASSUME (\E pull \in Injections : MergeOne(pull)) \/ RequestLoads \/ LateLoad
       PROVE  StampInv'
  BY <1>16, SameStamps DEF MergeOne, RequestLoads, LateLoad, flight, args
<1>17. CASE Tick
  <2>1. clock' = clock + 1 /\ UNCHANGED <<pc, now, pub>>
    BY <1>17 DEF Tick, flight, args
  <2> QED
    BY <2>1 DEF StampInv, Before, Times
<1>18. CASE UNCHANGED vars
  BY <1>18, SameStamps DEF vars, flight, args
<1> QED
  BY <1>1, <1>2, <1>3, <1>4, <1>5, <1>6, <1>7, <1>8, <1>9, <1>10, <1>11, <1>12,
     <1>13, <1>14, <1>15, <1>16, <1>17, <1>18, NextCases

-----------------------------------------------------------------------------
\* The invariant holds of every behaviour.
THEOREM Invariance == Spec => []IInv
<1>1. IInv /\ [Next]_vars => IInv'
  BY StepFlightInv, StepStampInv DEF IInv
<1> QED
  BY InitIInv, <1>1, PTL DEF Spec

\* The single-flight guard is exclusive whatever the threads, the sources and
\* the store do (security.py l.46).
THEOREM Exclusive == Spec => []OneFlight
<1>1. IInv => OneFlight
  BY DEF IInv, FlightInv
<1> QED
  BY Invariance, <1>1, PTL

\* What the health view shows moves forward: no cycle publishes an older stamp
\* than the last, and the last success is never later than the last cycle.
THEOREM Forward == Spec => RunsInOrder
<1>1. IInv /\ IInv' /\ [Next]_vars =>
        [Before(pub.run, pub'.run) /\ Before(pub.ok, pub'.ok) /\ Before(pub'.ok, pub'.run)]_pub
  <2> SUFFICES ASSUME IInv, IInv', Next, pub' # pub
               PROVE  /\ Before(pub.run, pub'.run)
                      /\ Before(pub.ok, pub'.ok)
                      /\ Before(pub'.ok, pub'.run)
    BY DEF vars, Before
  <2>0. Before(pub'.ok, pub'.run) /\ Before(pub.run, pub.run) /\ Before(pub.ok, pub.ok)
    BY DEF IInv, StampInv, Before, Times
  <2>1. ASSUME NEW t \in Threads, PublishRun(t)
        PROVE  Before(pub.run, pub'.run) /\ pub'.ok = pub.ok
    <3>1. pub' = [pub EXCEPT !["run"] = now[t]] /\ pc[t] \in InFlight
      BY <2>1 DEF PublishRun, Publishes, Goto, InFlight
    <3> QED
      BY <3>1 DEF IInv, StampInv
  <2>2. ASSUME NEW t \in Threads, PublishOk(t)
        PROVE  pub'.run = pub.run /\ Before(pub.ok, pub'.ok)
    <3>1. pub' = [pub EXCEPT !["ok"] = now[t]] \/ pub' = pub
      BY <2>2 DEF PublishOk, Publishes
    <3>2. pub.run = now[t]
      BY <2>2 DEF PublishOk, Goto, IInv, StampInv
    <3> QED
      BY <2>0, <3>1, <3>2 DEF IInv, StampInv
  <2>3. ASSUME NEW t \in Threads,
               HrrRefreshed(t) \/ PublishAdded(t) \/ PublishErrors(t) \/ PublishIngest(t)
        PROVE  pub'.run = pub.run /\ pub'.ok = pub.ok
    BY <2>3 DEF HrrRefreshed, PublishAdded, PublishErrors, PublishIngest, Publishes, IInv, StampInv
  <2>4. \/ \E t \in Threads : PublishRun(t)
        \/ \E t \in Threads : PublishOk(t)
        \/ \E t \in Threads : HrrRefreshed(t) \/ PublishAdded(t) \/ PublishErrors(t)
                               \/ PublishIngest(t)
    BY DEF Next, Proceed, Tell, Call, Begin, Busy, End, HrrSkipped, HrrRaises,
           StartIngest, ListRaises, Fetch, Merging, FinishIngest, StoreRaises,
           Verdict, VerdictRaises, RequestLoads, LateLoad, MergeOne, Tick
  <2> QED
    BY <2>0, <2>1, <2>2, <2>3, <2>4
<1> QED
  BY Invariance, <1>1, PTL DEF Spec, RunsInOrder

-----------------------------------------------------------------------------
(* Types.                                                                     *)

\* What a fetch has left to merge: finitely many records.
IsOffer(pull) == IsPull(pull) /\ IsFiniteSet(DOMAIN pull)

\* What the invariants above do not say of the variables.
RestInv ==
  /\ listed \in Lists
  /\ loaded \in BOOLEAN
  /\ late \in 0..MaxLate
  /\ cached \subseteq Lists
  /\ lost \in Lists \cup {None}
  /\ delivered \in [Threads -> [Ids -> SUBSET Nat]]
  /\ clock \in StartTime..MaxTime
  /\ first \in BOOLEAN
  /\ kind \in [Threads -> Kinds]
  /\ window \in [Threads -> [start : Nat, end : Nat]]
  /\ pass \in [Threads -> {"all", "real", "sim"}]
  /\ DOMAIN ids = Threads /\ \A t \in Threads : ids[t] = None \/ ids[t] \subseteq Ids
  /\ src \in [Threads -> Nat]
  /\ DOMAIN offered = Threads /\ \A t \in Threads : IsOffer(offered[t])
  /\ res \in [Threads -> IngestResult]
  /\ pub \in [run : Times, hrr : Times, ok : Times, added : Nat, errors : Nat,
              ingest : IngestResult]

LEMMA ImageFinite ==
  ASSUME NEW S, IsFiniteSet(S), NEW f, DOMAIN f = S
  PROVE  IsFiniteSet({f[x] : x \in S})
<1> DEFINE T == {f[x] : x \in S}
<1>1. [x \in S |-> f[x]] \in Surjection(S, T)
  BY DEF Surjection
<1> QED
  BY <1>1, FS_Surjection

\* A merge counts a natural number of samples.
LEMMA AddedNat ==
  ASSUME NEW h, NEW pull, IsOffer(pull)
  PROVE  Added(h, pull) \in Nat
<1> DEFINE new(o) == {<<o, s.epoch>> : s \in NewEpochs(h[o].samples, pull[o].samples)}
           f == [o \in DOMAIN pull |-> new(o)]
<1>1. ASSUME NEW o \in DOMAIN pull PROVE IsFiniteSet(new(o))
  <2> DEFINE list == pull[o].samples
             g == [i \in DOMAIN list |-> <<o, list[i].epoch>>]
  <2>1. list \in Seq(Fix)
    BY DEF IsOffer, IsPull, Record
  <2>2. IsFiniteSet(DOMAIN list)
    <3>1. DOMAIN list = 1..Len(list) /\ Len(list) \in Nat
      BY <2>1
    <3> QED
      BY <3>1, FS_Interval
  <2>3. IsFiniteSet({g[i] : i \in DOMAIN list})
    BY <2>2, ImageFinite
  <2>4. new(o) \subseteq {g[i] : i \in DOMAIN list}
    BY DEF NewEpochs
  <2> QED
    BY <2>3, <2>4, FS_Subset
<1>2. IsFiniteSet(DOMAIN pull)
  BY DEF IsOffer
<1>3. IsFiniteSet({f[o] : o \in DOMAIN pull})
  BY <1>2, ImageFinite
<1>4. \A T \in {f[o] : o \in DOMAIN pull} : IsFiniteSet(T)
  BY <1>1
<1>5. IsFiniteSet(UNION {f[o] : o \in DOMAIN pull})
  BY <1>3, <1>4, FS_UNION
<1>6. UNION {f[o] : o \in DOMAIN pull} = UNION {new(o) : o \in DOMAIN pull}
  OBVIOUS
<1>7. Cardinality(UNION {new(o) : o \in DOMAIN pull}) \in Nat
  BY <1>5, <1>6, FS_CardinalityType
<1> QED
  BY <1>7 DEF Added

LEMMA OfferedEpochs ==
  ASSUME NEW pull, IsOffer(pull), NEW o \in DOMAIN pull
  PROVE  /\ pull[o].samples \in Seq(Fix) /\ o \in Ids
         /\ Epochs(pull[o].samples) \subseteq Nat
<1>1. pull[o].samples \in Seq(Fix) /\ o \in Ids
  BY DEF IsOffer, IsPull, Record
<1> DEFINE list == pull[o].samples
<1>2. \A i \in DOMAIN list : list[i] \in Fix
  BY <1>1
<1> QED
  BY <1>1, <1>2 DEF Epochs, Fix

LEMMA NoOffer == IsOffer(NoPull)
  BY FS_EmptySet DEF IsOffer, IsPull, NoPull

\* The filters leave a part of what the fetch brought.
LEMMA FilteredOffer ==
  ASSUME NEW pull, IsOffer(pull), NEW p, NEW list
  PROVE  IsOffer(Filtered(pull, p, list))
<1> DEFINE kept == Filtered(pull, p, list)
<1>1. DOMAIN kept \subseteq DOMAIN pull /\ \A o \in DOMAIN kept : kept[o] = pull[o]
  BY DEF Filtered
<1>2. IsFiniteSet(DOMAIN kept)
  BY <1>1, FS_Subset DEF IsOffer
<1> QED
  BY <1>1, <1>2 DEF IsOffer, IsPull

LEMMA CountedType ==
  ASSUME NEW r \in IngestResult, NEW a, IsAnswer(a), NEW kept, IsOffer(kept)
  PROVE  Counted(r, a, kept) \in IngestResult
<1>1. Cardinality(DOMAIN a.pull) \in Nat /\ Cardinality(DOMAIN kept) \in Nat
  BY FS_CardinalityType DEF IsAnswer, IsOffer
<1>2. a.requests \in Nat /\ a.failures \in Nat
  BY DEF IsAnswer
<1>3. Flag(a.raised) \in Nat /\ Flag(a.failures > 0) \in Nat
  BY DEF Flag
<1>4. \A e1, e2, q, f, n, k \in Nat :
        [r EXCEPT !.errors = @ + e1 + e2, !.requests = @ + q, !.failures = @ + f,
                  !.fetched = @ + n, !.kept = @ + k] \in IngestResult
  <2> SUFFICES ASSUME NEW e1 \in Nat, NEW e2 \in Nat, NEW q \in Nat,
                      NEW f \in Nat, NEW n \in Nat, NEW k \in Nat
               PROVE  [r EXCEPT !.errors = @ + e1 + e2, !.requests = @ + q,
                                !.failures = @ + f, !.fetched = @ + n,
                                !.kept = @ + k] \in IngestResult
    OBVIOUS
  <2>1. /\ r.errors + e1 + e2 \in Nat /\ r.requests + q \in Nat
        /\ r.failures + f \in Nat /\ r.fetched + n \in Nat /\ r.kept + k \in Nat
    BY DEF IngestResult
  <2> QED
    BY <2>1 DEF IngestResult
<1> QED
  BY <1>1, <1>2, <1>3, <1>4 DEF Counted

LEMMA InitRestInv == Init => RestInv
<1> SUFFICES ASSUME Init PROVE RestInv
  OBVIOUS
<1>1. listed \in Lists /\ late \in 0..MaxLate /\ clock \in StartTime..MaxTime
  BY RefreshAssumption DEF Init
<1>2. DOMAIN offered = Threads /\ \A t \in Threads : IsOffer(offered[t])
  BY NoOffer DEF Init
<1>3. NoResult \in IngestResult
  BY DEF NoResult, IngestResult
<1> QED
  BY <1>1, <1>2, <1>3 DEF Init, RestInv, Kinds, NoWindow, Times, Nothing

LEMMA StepRestInv ==
  ASSUME IInv, RestInv, [Next]_vars
  PROVE  RestInv'
<1>0. \A t \in Threads : now[t] \in Nat
  BY DEF IInv, StampInv
<1>1. ASSUME NEW t \in Threads, NEW k \in Kinds, NEW w \in Windows \cup {NoWindow},
             Call(t, k, w)
      PROVE  RestInv'
  <2>1. w \in [start : Nat, end : Nat]
    BY <1>1, RefreshAssumption DEF IsWindow, NoWindow, Call
  <2> QED
    BY <1>1, <2>1 DEF Call, RestInv, hrr, ingest
<1>2. ASSUME NEW t \in Threads, Begin(t) PROVE RestInv'
  <2>1. NoResult \in IngestResult /\ FirstPass(kind[t]) \in {"all", "real", "sim"}
    BY DEF NoResult, IngestResult, FirstPass, RestInv
  <2> QED
    BY <1>2, <2>1 DEF Begin, RestInv, hrr, Nothing
<1>3. ASSUME NEW t \in Threads, End(t) PROVE RestInv'
  <2>1. NoResult \in IngestResult /\ NoWindow \in [start : Nat, end : Nat]
    BY DEF NoResult, IngestResult, NoWindow
  <2>2. DOMAIN offered' = Threads /\ \A u \in Threads : IsOffer(offered'[u])
    BY <1>3, NoOffer DEF End, RestInv
  <2>3. DOMAIN ids' = Threads /\ \A u \in Threads : ids'[u] = None \/ ids'[u] \subseteq Ids
    BY <1>3 DEF End, RestInv
  <2>4. delivered' \in [Threads -> [Ids -> SUBSET Nat]]
    BY <1>3 DEF End, RestInv, Nothing
  <2> QED
    BY <1>3, <2>1, <2>2, <2>3, <2>4 DEF End, RestInv, Kinds, hrr
<1>4. ASSUME NEW t \in Threads, Busy(t) \/ HrrSkipped(t) \/ StoreRaises(t) \/ ListRaises(t)
      PROVE  RestInv'
  BY <1>4 DEF Busy, HrrSkipped, StoreRaises, ListRaises, RestInv, hrr, args, ingest
<1>5. ASSUME NEW t \in Threads, HrrRefreshed(t) \/ HrrRaises(t) PROVE RestInv'
  <2>1. /\ listed' \in Lists /\ cached' \subseteq Lists /\ lost' \in Lists \cup {None}
        /\ loaded' \in BOOLEAN
    BY <1>5, RefreshAssumption DEF HrrRefreshed, HrrRaises, RestInv, Install
  <2>2. pub' = [pub EXCEPT !["hrr"] = now[t]] \/ pub' = pub
    BY <1>5 DEF HrrRefreshed, HrrRaises, Publishes
  <2>3. pub' \in [run : Times, hrr : Times, ok : Times, added : Nat, errors : Nat,
                  ingest : IngestResult]
    BY <1>0, <2>2 DEF RestInv, Times
  <2> QED
    BY <1>5, <2>1, <2>3 DEF HrrRefreshed, HrrRaises, RestInv, args, ingest
<1>6. ASSUME NEW t \in Threads, StartIngest(t) PROVE RestInv'
  <2>1. listed \subseteq Ids
    BY RefreshAssumption DEF RestInv
  <2>2. DOMAIN ids' = Threads /\ \A u \in Threads : ids'[u] = None \/ ids'[u] \subseteq Ids
    BY <1>6, <2>1 DEF StartIngest, RestInv
  <2>3. src' \in [Threads -> Nat] /\ loaded' \in BOOLEAN
    BY <1>6 DEF StartIngest, ReadsList, RestInv
  <2> QED
    BY <1>6, <2>2, <2>3 DEF StartIngest, RestInv, args
<1>7. ASSUME NEW t \in Threads, NEW i \in 1..Sources, NEW a \in Answers[i], Fetch(t, a)
      PROVE  RestInv'
  <2> DEFINE kept == Filtered(a.pull, pass[t], ids[t])
  <2>1. IsAnswer(a)
    BY RefreshAssumption
  <2>2. IsOffer(kept)
    BY <2>1, FilteredOffer DEF IsAnswer, IsOffer
  <2>3. Counted(res[t], a, kept) \in IngestResult
    BY <2>1, <2>2, CountedType DEF RestInv
  <2>4. /\ offered' = [offered EXCEPT ![t] = kept]
        /\ res' = [res EXCEPT ![t] = Counted(res[t], a, kept)]
        /\ \E n \in {0, 1} : src' = [src EXCEPT ![t] = @ + n]
    <3>1. Flag(~(DOMAIN kept # {})) \in {0, 1}
      BY DEF Flag
    <3>2. /\ offered' = [offered EXCEPT ![t] = kept]
          /\ res' = [res EXCEPT ![t] = Counted(res[t], a, kept)]
          /\ src' = [src EXCEPT ![t] = @ + Flag(~(DOMAIN kept # {}))]
      BY <1>7, Zenon DEF Fetch
    <3> QED
      BY <3>1, <3>2
  <2>5. DOMAIN offered' = Threads /\ \A u \in Threads : IsOffer(offered'[u])
    BY <2>2, <2>4 DEF RestInv
  <2>6. res' \in [Threads -> IngestResult] /\ src' \in [Threads -> Nat]
    BY <2>3, <2>4 DEF RestInv
  <2> QED
    BY <1>7, <2>5, <2>6 DEF Fetch, RestInv, hrr, args
<1>8. ASSUME NEW t \in Threads, Merging(t) PROVE RestInv'
  <2>1. DOMAIN offered' = Threads /\ \A u \in Threads : IsOffer(offered'[u])
    BY <1>8, NoOffer DEF Merging, RestInv
  <2>2. Added(history, offered[t]) \in Nat
    BY AddedNat DEF RestInv
  <2>3. res' \in [Threads -> IngestResult] /\ src' \in [Threads -> Nat]
    <3> DEFINE n == Added(history, offered[t])
    <3>1. res' = [res EXCEPT ![t].added = @ + n] /\ src' = [src EXCEPT ![t] = @ + 1]
      BY <1>8 DEF Merging
    <3>2. n \in Nat
      BY <2>2
    <3> HIDE DEF n
    <3>3. res \in [Threads -> IngestResult] /\ src \in [Threads -> Nat]
      BY DEF RestInv
    <3>4. src' \in [Threads -> Nat]
      BY <3>1, <3>3
    <3>5. [res[t] EXCEPT !.added = @ + n] \in IngestResult
      BY <3>2, <3>3 DEF IngestResult
    <3>6. res' = [res EXCEPT ![t] = [res[t] EXCEPT !.added = @ + n]]
      BY <3>1, <3>3
    <3> QED
      BY <3>3, <3>4, <3>5, <3>6
  <2>4. delivered' \in [Threads -> [Ids -> SUBSET Nat]]
    <3>1. \A o \in Ids : Retained(t, o) \subseteq Nat
      BY OfferedEpochs DEF Retained, RestInv
    <3>2. [o \in Ids |-> delivered[t][o] \cup Retained(t, o)] \in [Ids -> SUBSET Nat]
      BY <3>1 DEF RestInv
    <3> QED
      BY <1>8, <3>2 DEF Merging, RestInv
  <2> QED
    BY <1>8, <2>1, <2>3, <2>4 DEF Merging, RestInv, hrr, args
<1>9. ASSUME NEW t \in Threads, FinishIngest(t) PROVE RestInv'
  BY <1>9 DEF FinishIngest, RestInv, hrr, args
<1>10. ASSUME NEW t \in Threads, PublishRun(t) \/ PublishOk(t) PROVE RestInv'
  <2>1. \/ pub' = [pub EXCEPT !["run"] = now[t]]
        \/ pub' = [pub EXCEPT !["ok"] = now[t]]
        \/ pub' = pub
    BY <1>10 DEF PublishRun, PublishOk, Publishes
  <2>2. pub' \in [run : Times, hrr : Times, ok : Times, added : Nat, errors : Nat,
                  ingest : IngestResult]
    BY <1>0, <2>1 DEF RestInv, Times
  <2> QED
    BY <1>10, <2>2 DEF PublishRun, PublishOk, RestInv, hrr, args, ingest
<1>11. ASSUME NEW t \in Threads, PublishAdded(t) \/ PublishErrors(t) \/ PublishIngest(t)
       PROVE  RestInv'
  <2>1. \/ pub' = [pub EXCEPT !["added"] = res[t].added]
        \/ pub' = [pub EXCEPT !["errors"] = res[t].errors]
        \/ pub' = [pub EXCEPT !["ingest"] = res[t]]
    BY <1>11 DEF PublishAdded, PublishErrors, PublishIngest, Publishes
  <2>2. pub' \in [run : Times, hrr : Times, ok : Times, added : Nat, errors : Nat,
                  ingest : IngestResult]
    <3>1. res[t] \in IngestResult /\ res[t].added \in Nat /\ res[t].errors \in Nat
      BY DEF RestInv, IngestResult
    <3> QED
      BY <2>1, <3>1 DEF RestInv
  <2> QED
    BY <1>11, <2>2 DEF PublishAdded, PublishErrors, PublishIngest, RestInv, hrr, args, ingest
<1>12. ASSUME Verdict \/ VerdictRaises PROVE RestInv'
  BY <1>12 DEF Verdict, VerdictRaises, RestInv, hrr, args, ingest
<1>13. ASSUME NEW pull, MergeOne(pull) PROVE RestInv'
  <2>1. delivered' \in [Threads -> [Ids -> SUBSET Nat]]
    BY <1>13 DEF MergeOne, RestInv
  <2> QED
    BY <1>13, <2>1 DEF MergeOne, RestInv, hrr, flight, args
<1>14. CASE Tick
  <2>1. clock' \in StartTime..MaxTime
    BY <1>14, RefreshAssumption DEF Tick, RestInv
  <2> QED
    BY <1>14, <2>1 DEF Tick, RestInv, hrr, flight, args, ingest
<1>15. CASE UNCHANGED vars
  BY <1>15 DEF vars, RestInv, hrr, flight, args, ingest
<1>16. CASE RequestLoads
  <2>1. late' \in 0..MaxLate /\ cached' \subseteq Lists
    BY <1>16, RefreshAssumption DEF RequestLoads, RestInv
  <2> QED
    BY <1>16, <2>1 DEF RequestLoads, RestInv, flight, args, ingest
<1>17. CASE LateLoad
  <2>1. /\ late' \in 0..MaxLate /\ cached' \subseteq Lists /\ loaded' \in BOOLEAN
        /\ listed' \in Lists /\ lost' \in Lists \cup {None}
    BY <1>17, RefreshAssumption DEF LateLoad, Current, RestInv
  <2> QED
    BY <1>17, <2>1 DEF LateLoad, RestInv, flight, args, ingest
<1> QED
  BY <1>1, <1>2, <1>3, <1>4, <1>5, <1>6, <1>7, <1>8, <1>9, <1>10, <1>11, <1>12,
     <1>13, <1>14, <1>15, <1>16, <1>17, NextCases

\* The job stays within its types, whatever the sources answer and whatever
\* raises: what it publishes for the health view are times and counts.
THEOREM TypeCorrect == Spec => []TypeOK
<1>1. IInv /\ RestInv /\ [Next]_vars => RestInv'
  BY StepRestInv
<1>2. IInv /\ RestInv => TypeOK
  <2>1. ASSUME RestInv PROVE listed \subseteq Ids
    BY <2>1, RefreshAssumption DEF RestInv
  <2> QED
    BY <2>1 DEF IInv, FlightInv, StampInv, RestInv, TypeOK
<1> QED
  BY Invariance, InitRestInv, <1>1, <1>2, PTL DEF Spec

-----------------------------------------------------------------------------
(* What a cycle leaves in the store.                                          *)

\* One sample per epoch, and finitely many.
Sampled(samples) ==
  /\ samples \subseteq Fix /\ IsFiniteSet(samples)
  /\ \A s, x \in samples : s.epoch = x.epoch => s = x

HistoryInv ==
  /\ DOMAIN history = Ids
  /\ \A o \in Ids : Sampled(history[o].samples)

\* Every epoch of the list has its sample in what the merge chooses from.
LEMMA PoolCovers ==
  ASSUME NEW held, NEW new \in Seq(Fix), NEW i \in DOMAIN new
  PROVE  \E x \in held \cup NewEpochs(held, new) : x.epoch = new[i].epoch
<1>1. CASE \E x \in held : x.epoch = new[i].epoch
  BY <1>1
<1>2. CASE \A x \in held : x.epoch # new[i].epoch
  <2> DEFINE same == {k \in DOMAIN new : new[k].epoch = new[i].epoch}
  <2>1. same \in SUBSET Nat /\ i \in same
    OBVIOUS
  <2>2. PICK k \in same : \A j \in same : k <= j
    <3> HIDE DEF same
    <3> QED
      BY <2>1, LeastNatural
  <2>3. \A j \in 1..(k - 1) : new[j].epoch # new[k].epoch
    <3>1. k \in 1..Len(new) /\ \A j \in 1..(k - 1) : j \in DOMAIN new /\ ~(k <= j)
      OBVIOUS
    <3> QED
      BY <2>2, <3>1
  <2>4. new[k] \in NewEpochs(held, new)
    BY <1>2, <2>3 DEF NewEpochs
  <2> QED
    BY <2>4
<1> QED
  BY <1>1, <1>2

LEMMA PoolSampled ==
  ASSUME NEW held, Sampled(held), NEW new \in Seq(Fix)
  PROVE  Sampled(held \cup NewEpochs(held, new))
<1> DEFINE fresh == NewEpochs(held, new)
<1>1. \A k \in DOMAIN new : k \in Nat /\ 1 <= k /\ new[k] \in Fix
  OBVIOUS
<1>2. fresh \subseteq {new[k] : k \in DOMAIN new} /\ fresh \subseteq Fix
  BY <1>1 DEF NewEpochs
<1>3. IsFiniteSet(fresh)
  <2>1. DOMAIN new = 1..Len(new) /\ Len(new) \in Nat
    OBVIOUS
  <2>2. IsFiniteSet(DOMAIN new)
    BY <2>1, FS_Interval
  <2>3. IsFiniteSet({new[k] : k \in DOMAIN new})
    BY <2>2, ImageFinite
  <2> QED
    BY <1>2, <2>3, FS_Subset
<1>4. \A s \in held, x \in fresh : s.epoch # x.epoch
  BY DEF NewEpochs
<1>5. ASSUME NEW s \in fresh, NEW x \in fresh, s.epoch = x.epoch
      PROVE  s = x
  <2>1. PICK i \in DOMAIN new :
          s = new[i] /\ \A j \in 1..(i - 1) : new[j].epoch # new[i].epoch
    BY DEF NewEpochs
  <2>2. PICK k \in DOMAIN new :
          x = new[k] /\ \A j \in 1..(k - 1) : new[j].epoch # new[k].epoch
    BY DEF NewEpochs
  <2>3. ~(i < k) /\ ~(k < i)
    BY <1>1, <1>5, <2>1, <2>2
  <2> QED
    BY <1>1, <2>1, <2>2, <2>3
<1>6. IsFiniteSet(held \cup fresh)
  BY <1>3, FS_Union DEF Sampled
<1> HIDE DEF fresh
<1>7. held \cup fresh \subseteq Fix
  BY <1>2 DEF Sampled
<1>8. \A s, x \in held \cup fresh : s.epoch = x.epoch => s = x
  BY <1>4, <1>5, Zenon DEF Sampled
<1> QED
  BY <1>6, <1>7, <1>8 DEF Sampled, fresh

LEMMA PartSampled ==
  ASSUME NEW pool, Sampled(pool), NEW part \in SUBSET pool
  PROVE  Sampled(part)
  BY FS_Subset DEF Sampled

\* A sample gives way only to a full record of newer ones: the newest
\* MaxSamples of the pool are as many as that when one of the pool is not
\* among them.
LEMMA NewestFull ==
  ASSUME NEW pool, Sampled(pool), NEW s \in pool, s \notin Newest(pool)
  PROVE  MaxSamples > 0 /\ Cardinality(Newest(pool)) = MaxSamples
<1> DEFINE n == Cardinality(pool)
           order == {p \in pool \X pool : p[1].epoch > p[2].epoch}
<1>1. n \in Nat /\ IsFiniteSet(pool) /\ \A x \in pool : x.epoch \in Nat
  BY FS_CardinalityType DEF Sampled, Fix
<1>2. PICK seq \in SetToSeqs(pool) :
        \A i, j \in 1..n : i < j => seq[i].epoch > seq[j].epoch
  <2>1. order \in SUBSET (pool \X pool)
    OBVIOUS
  <2>2. \A x, y \in pool : <<x, y>> \in order <=> x.epoch > y.epoch
    OBVIOUS
  <2> HIDE DEF order
  <2>3. \A x \in pool : <<x, x>> \notin order
    BY <1>1, <2>2
  <2>4. \A x, y, z \in pool : <<x, y>> \in order /\ <<y, z>> \in order => <<x, z>> \in order
    BY <1>1, <2>2
  <2>5. \A x, y \in pool : x = y \/ <<x, y>> \in order \/ <<y, x>> \in order
    <3> SUFFICES ASSUME NEW x \in pool, NEW y \in pool, x # y
                 PROVE  <<x, y>> \in order \/ <<y, x>> \in order
      OBVIOUS
    <3>1. x.epoch # y.epoch /\ x.epoch \in Nat /\ y.epoch \in Nat
      BY <1>1 DEF Sampled
    <3> QED
      BY <2>2, <3>1
  <2>6. PICK seq \in SetToSeqs(pool) :
          \A i, j \in 1..n : i < j => <<seq[i], seq[j]>> \in order
    BY <1>1, <2>1, <2>3, <2>4, <2>5, InStrictOrder
  <2>7. \A i \in 1..n : seq[i] \in pool
    BY <1>1, AllInSequence
  <2> QED
    BY <2>2, <2>6, <2>7
<1>3. /\ seq \in [1..n -> pool]
      /\ \A i, j \in 1..n : i # j => seq[i] # seq[j]
      /\ \A x \in pool : \E i \in 1..n : seq[i] = x
  BY <1>1, AllInSequence
<1>4. \A m \in Nat : IsFiniteSet(1..m) /\ Cardinality(1..m) = m
  BY FS_Interval
<1>5. ASSUME NEW i \in 1..n
      PROVE  Cardinality(NewerIn(pool, seq[i])) = i - 1
  <2> DEFINE f == [k \in 1..(i - 1) |-> seq[k]]
  <2>1. \A k \in 1..n : seq[k].epoch \in Nat
    BY <1>1, <1>3
  <2>2. \A k \in 1..(i - 1) : k \in 1..n /\ k < i
    BY <1>1
  <2>3. \A k \in 1..(i - 1) : f[k] \in NewerIn(pool, seq[i])
    BY <1>2, <1>3, <2>2 DEF NewerIn
  <2>4. \A x \in NewerIn(pool, seq[i]) : \E k \in 1..(i - 1) : f[k] = x
    <3> SUFFICES ASSUME NEW x \in NewerIn(pool, seq[i])
                 PROVE  \E k \in 1..(i - 1) : f[k] = x
      OBVIOUS
    <3>1. x \in pool /\ x.epoch > seq[i].epoch
      BY DEF NewerIn
    <3>2. PICK k \in 1..n : seq[k] = x
      BY <1>3, <3>1
    <3>3. k < i
      BY <1>1, <1>2, <2>1, <3>1, <3>2
    <3> QED
      BY <3>2, <3>3
  <2>5. f \in Bijection(1..(i - 1), NewerIn(pool, seq[i]))
    <3>1. f \in [1..(i - 1) -> NewerIn(pool, seq[i])]
      BY <2>3
    <3>2. \A j, k \in 1..(i - 1) : f[j] = f[k] => j = k
      BY <1>3, <2>2
    <3> QED
      BY <2>4, <3>1, <3>2 DEF Bijection, Injection, Surjection, IsInjective
  <2>6. i - 1 \in Nat
    BY <1>1
  <2> QED
    BY <1>4, <2>5, <2>6, FS_Bijection DEF ExistsBijection
<1>6. MaxSamples \in Nat /\ MaxSamples # 0
  BY HistoryAssumption DEF Newest
<1>7. MaxSamples <= n
  <2>1. PICK i \in 1..n : seq[i] = s
    BY <1>3
  <2>2. ~(i - 1 < MaxSamples)
    BY <1>5, <2>1 DEF Newest
  <2> QED
    BY <1>1, <1>6, <2>2
<1> DEFINE g == [k \in 1..MaxSamples |-> seq[k]]
<1>8. \A k \in 1..n : seq[k] \in Newest(pool) <=> k <= MaxSamples
  BY <1>3, <1>5, <1>6 DEF Newest
<1>9. g \in Bijection(1..MaxSamples, Newest(pool))
  <2>1. \A k \in 1..MaxSamples : k \in 1..n /\ k <= MaxSamples
    BY <1>1, <1>6, <1>7
  <2>2. g \in [1..MaxSamples -> Newest(pool)]
    BY <1>8, <2>1
  <2>3. \A j, k \in 1..MaxSamples : g[j] = g[k] => j = k
    BY <1>3, <2>1
  <2>4. \A x \in Newest(pool) : \E k \in 1..MaxSamples : g[k] = x
    <3> SUFFICES ASSUME NEW x \in Newest(pool)
                 PROVE  \E k \in 1..MaxSamples : g[k] = x
      OBVIOUS
    <3>1. PICK k \in 1..n : seq[k] = x
      BY <1>3 DEF Newest
    <3>2. k \in 1..MaxSamples
      BY <1>6, <1>8, <3>1
    <3> QED
      BY <3>1, <3>2
  <2> QED
    BY <2>2, <2>3, <2>4 DEF Bijection, Injection, Surjection, IsInjective
<1> QED
  BY <1>4, <1>6, <1>9, FS_Bijection DEF ExistsBijection

\* A merge of the store leaves every record sampled so.
LEMMA MergeSampled ==
  ASSUME HistoryInv, NEW pull, IsPull(pull), NEW at,
         history' = After(history, [kind |-> "merge", pull |-> pull, now |-> at])
  PROVE  /\ HistoryInv'
         /\ \A o \in DOMAIN pull : history'[o].samples =
              MergeSamples(history[o].samples, pull[o].samples, at - Retention)
<1> DEFINE cutoff == at - Retention
           rec(o) == IF o \in DOMAIN pull THEN MergeRecord(history[o], pull[o], cutoff)
                                          ELSE history[o]
<1>1. history' = Merge(history, pull, cutoff)
  BY DEF After, Writes
<1>2. DOMAIN history' = Ids /\ \A o \in Ids : history'[o].samples = rec(o).samples
  <2>1. \A o \in Ids : history'[o] = IF rec(o).samples = {} THEN NoObject ELSE rec(o)
    BY <1>1 DEF Merge, DropEmpty
  <2>2. NoObject.samples = {}
    BY DEF NoObject
  <2>3. DOMAIN history' = Ids
    BY <1>1 DEF Merge, DropEmpty
  <2> HIDE DEF rec
  <2> QED
    BY <2>1, <2>2, <2>3
<1>3. \A o \in DOMAIN pull : o \in Ids /\ rec(o).samples =
        MergeSamples(history[o].samples, pull[o].samples, cutoff)
  BY DEF IsPull, MergeRecord
<1>4. ASSUME NEW o \in Ids
      PROVE  Sampled(rec(o).samples)
  <2>1. CASE o \in DOMAIN pull
    <3> DEFINE all == history[o].samples \cup NewEpochs(history[o].samples, pull[o].samples)
               pool == {s \in all : s.epoch >= cutoff}
    <3>1. pull[o].samples \in Seq(Fix)
      BY <2>1 DEF IsPull, Record
    <3>2. Sampled(all)
      BY <3>1, PoolSampled DEF HistoryInv
    <3>3. Newest(pool) \in SUBSET all
      BY DEF Newest
    <3>4. MergeSamples(history[o].samples, pull[o].samples, cutoff) = Newest(pool)
      BY DEF MergeSamples
    <3> HIDE DEF all, pool
    <3>5. Sampled(Newest(pool))
      BY <3>2, <3>3, PartSampled
    <3> QED
      BY <1>3, <2>1, <3>4, <3>5
  <2>2. CASE o \notin DOMAIN pull
    BY <2>2 DEF HistoryInv
  <2> QED
    BY <2>1, <2>2
<1> HIDE DEF rec
<1> QED
  BY <1>2, <1>3, <1>4 DEF HistoryInv

LEMMA PruneSampled ==
  ASSUME HistoryInv, NEW keep,
         history' = After(history, [kind |-> "retain", keep |-> keep])
  PROVE  HistoryInv'
<1>1. history' = history \/ history' = Without(history, Dropped(history, keep))
  BY DEF After, Writes
<1>2. CASE history' = history
  BY <1>2 DEF HistoryInv
<1>3. CASE history' = Without(history, Dropped(history, keep))
  <2>1. Sampled(NoObject.samples)
    BY FS_EmptySet DEF NoObject, Sampled
  <2>2. DOMAIN history' = Ids /\ \A o \in Ids : history'[o] \in {NoObject, history[o]}
    BY <1>3 DEF Without
  <2> QED
    BY <2>1, <2>2 DEF HistoryInv
<1> QED
  BY <1>1, <1>2, <1>3

LEMMA StepHistoryInv ==
  ASSUME RestInv, HistoryInv, [Next]_vars
  PROVE  HistoryInv'
<1>1. ASSUME NEW t \in Threads, Merging(t) PROVE HistoryInv'
  <2>1. IsPull(offered[t])
    BY DEF RestInv, IsOffer
  <2> QED
    BY <1>1, <2>1, MergeSampled DEF Merging, MergeCall
<1>2. ASSUME NEW t \in Threads, FinishIngest(t) PROVE HistoryInv'
  <2>1. \/ history' = history
        \/ history' = After(history, [kind |-> "retain", keep |-> ids[t]])
    BY <1>2 DEF FinishIngest
  <2>2. CASE history' = history
    BY <2>2 DEF HistoryInv
  <2> QED
    BY <2>1, <2>2, PruneSampled
<1>3. ASSUME NEW pull \in Injections, MergeOne(pull) PROVE HistoryInv'
  <2>1. IsPull(pull)
    BY RefreshAssumption
  <2> QED
    BY <1>3, <2>1, MergeSampled DEF MergeOne
<1>4. \/ \E t \in Threads : Merging(t) \/ FinishIngest(t)
      \/ \E pull \in Injections : MergeOne(pull)
      \/ history' = history
  BY NextCases DEF vars, Call, Begin, End, Busy, HrrSkipped, HrrRefreshed, HrrRaises,
     StartIngest, Fetch, StoreRaises, ListRaises, PublishRun, PublishAdded,
     PublishErrors, PublishIngest, PublishOk, Verdict, VerdictRaises, RequestLoads,
     LateLoad, Tick
<1> QED
  BY <1>1, <1>2, <1>3, <1>4 DEF HistoryInv

\* What gives way is older than all that stays.
LEMMA NewestNewer ==
  ASSUME NEW pool, Sampled(pool), NEW s \in pool, s \notin Newest(pool),
         NEW x \in Newest(pool)
  PROVE  x.epoch > s.epoch
<1>1. IsFiniteSet(pool) /\ x \in pool /\ x # s
  BY DEF Sampled, Newest
<1>2. x.epoch \in Nat /\ s.epoch \in Nat /\ x.epoch # s.epoch
  BY <1>1 DEF Sampled, Fix
<1>3. ASSUME x.epoch < s.epoch PROVE FALSE
  <2>1. \A y \in pool : y.epoch \in Nat
    BY DEF Sampled, Fix
  <2>2. NewerIn(pool, s) \subseteq NewerIn(pool, x)
    BY <1>2, <1>3, <2>1 DEF NewerIn
  <2>3. IsFiniteSet(NewerIn(pool, x))
    <3>1. NewerIn(pool, x) \subseteq pool
      BY DEF NewerIn
    <3> QED
      BY <1>1, <3>1, FS_Subset
  <2>4. /\ Cardinality(NewerIn(pool, s)) <= Cardinality(NewerIn(pool, x))
        /\ Cardinality(NewerIn(pool, s)) \in Nat /\ Cardinality(NewerIn(pool, x)) \in Nat
    BY <2>2, <2>3, FS_Subset, FS_CardinalityType
  <2>5. MaxSamples # 0 /\ MaxSamples \in Nat
    BY HistoryAssumption DEF Newest
  <2>6. Cardinality(NewerIn(pool, x)) < MaxSamples
    BY <2>5 DEF Newest
  <2>7. Cardinality(NewerIn(pool, s)) < MaxSamples
    BY <2>4, <2>5, <2>6
  <2> QED
    BY <2>7 DEF Newest
<1> QED
  BY <1>2, <1>3

\* A merge keeps an epoch of the list or of the record that is within the
\* retention, or leaves the record full of newer ones.
LEMMA MergeKeeps ==
  ASSUME NEW held, Sampled(held), NEW new \in Seq(Fix), NEW cutoff \in Int,
         NEW e \in Nat, e >= cutoff, Keeps(held, e) \/ e \in Epochs(new)
  PROVE  Keeps(MergeSamples(held, new, cutoff), e)
<1> DEFINE all == held \cup NewEpochs(held, new)
           pool == {s \in all : s.epoch >= cutoff}
           left == Newest(pool)
<1>1. MergeSamples(held, new, cutoff) = left
  BY DEF MergeSamples
<1>2. Sampled(all)
  BY PoolSampled
<1>3. Sampled(pool)
  <2>1. pool \in SUBSET all
    OBVIOUS
  <2> HIDE DEF all, pool
  <2> QED
    BY <1>2, <2>1, PartSampled
<1>4. CASE \E x \in all : x.epoch = e
  <2>1. PICK x \in pool : x.epoch = e
    BY <1>4
  <2> HIDE DEF pool, all
  <2>2. CASE x \in left
    BY <1>1, <2>1, <2>2 DEF Keeps
  <2>3. CASE x \notin left
    <3>1. MaxSamples > 0 /\ Cardinality(left) = MaxSamples
      BY <1>3, <2>3, NewestFull
    <3>2. \A y \in left : y.epoch > e
      BY <1>3, <2>1, <2>3, NewestNewer
    <3>3. Cardinality(left) >= MaxSamples
      BY <3>1, HistoryAssumption
    <3> QED
      BY <1>1, <3>1, <3>2, <3>3 DEF Keeps
  <2> QED
    BY <2>2, <2>3
<1>5. CASE \A x \in all : x.epoch # e
  <2>1. e \notin Epochs(new)
    <3>1. ASSUME NEW i \in DOMAIN new, new[i].epoch = e PROVE FALSE
      <4>1. \E x \in held \cup NewEpochs(held, new) : x.epoch = new[i].epoch
        BY PoolCovers
      <4> QED
        BY <1>5, <3>1, <4>1
    <3> QED
      BY <3>1 DEF Epochs
  <2>2. /\ MaxSamples > 0 /\ Cardinality(held) >= MaxSamples
        /\ \A x \in held : x.epoch > e
    BY <1>5, <2>1 DEF Keeps
  <2>3. held \subseteq pool
    <3>1. \A x \in held : x.epoch \in Nat
      BY DEF Sampled, Fix
    <3> QED
      BY <2>2, <3>1
  <2>4. IsFiniteSet(pool) /\ \A x \in pool : x.epoch \in Nat
    BY <1>3 DEF Sampled, Fix
  <2>5. MaxSamples \in Nat
    BY HistoryAssumption
  <2> HIDE DEF pool, all
  <2>6. ASSUME NEW s \in left, s.epoch <= e PROVE FALSE
    <3>1. s \in pool /\ Cardinality(NewerIn(pool, s)) < MaxSamples
      BY <2>2, <2>5 DEF Newest
    <3>2. held \subseteq NewerIn(pool, s)
      BY <2>2, <2>3, <2>4, <2>6, <3>1 DEF NewerIn
    <3>3. IsFiniteSet(NewerIn(pool, s))
      <4>1. NewerIn(pool, s) \subseteq pool
        BY DEF NewerIn
      <4> QED
        BY <2>4, <4>1, FS_Subset
    <3>4. /\ Cardinality(held) <= Cardinality(NewerIn(pool, s))
          /\ Cardinality(held) \in Nat /\ Cardinality(NewerIn(pool, s)) \in Nat
      BY <3>2, <3>3, FS_Subset, FS_CardinalityType
    <3> QED
      BY <2>2, <2>5, <3>1, <3>4
  <2>7. \A s \in left : s.epoch > e
    <3>1. \A s \in left : s.epoch \in Nat
      BY <2>4 DEF Newest
    <3> QED
      BY <2>6, <3>1
  <2>8. Cardinality(left) >= MaxSamples
    <3>1. CASE \E s \in pool : s \notin left
      BY <1>3, <2>5, <3>1, NewestFull
    <3>2. CASE \A s \in pool : s \in left
      <4>1. held \subseteq left /\ IsFiniteSet(left)
        <5>1. left \subseteq pool
          BY DEF Newest
        <5> QED
          BY <2>3, <2>4, <3>2, <5>1, FS_Subset
      <4>2. /\ Cardinality(held) <= Cardinality(left)
            /\ Cardinality(held) \in Nat /\ Cardinality(left) \in Nat
        BY <4>1, FS_Subset, FS_CardinalityType
      <4> QED
        BY <2>2, <2>5, <4>2
    <3> QED
      BY <3>1, <3>2
  <2> QED
    BY <1>1, <2>2, <2>7, <2>8 DEF Keeps
<1> QED
  BY <1>4, <1>5

\* What a merge of the store leaves of an epoch.
LEMMA MergeHolds ==
  ASSUME HistoryInv, NEW pull, IsOffer(pull), NEW at \in Nat,
         history' = After(history, [kind |-> "merge", pull |-> pull, now |-> at]),
         NEW o \in Ids, NEW e \in Nat,
         o \in DOMAIN pull => e >= at - Retention,
         \/ Keeps(history[o].samples, e)
         \/ o \in DOMAIN pull /\ e \in Epochs(pull[o].samples)
  PROVE  Keeps(history'[o].samples, e)
<1>1. CASE o \in DOMAIN pull
  <2> DEFINE held == history[o].samples
             new == pull[o].samples
  <2>1. IsPull(pull)
    BY DEF IsOffer
  <2>2. \A q \in DOMAIN pull : history'[q].samples =
          MergeSamples(history[q].samples, pull[q].samples, at - Retention)
    BY <2>1, MergeSampled
  <2>3. Sampled(held) /\ new \in Seq(Fix)
    BY <1>1, OfferedEpochs DEF HistoryInv
  <2>4. at - Retention \in Int
    BY HistoryAssumption
  <2>5. Keeps(MergeSamples(held, new, at - Retention), e)
    <3>1. Keeps(held, e) \/ e \in Epochs(new)
      OBVIOUS
    <3>2. e >= at - Retention
      BY <1>1
    <3> HIDE DEF held, new
    <3> QED
      BY <2>3, <2>4, <3>1, <3>2, MergeKeeps
  <2> QED
    BY <1>1, <2>2, <2>5
<1>2. CASE o \notin DOMAIN pull
  <2>1. history' = Merge(history, pull, at - Retention)
    BY DEF After, Writes
  <2> DEFINE all == [q \in Ids |-> IF q \in DOMAIN pull
                                  THEN MergeRecord(history[q], pull[q], at - Retention)
                                  ELSE history[q]]
  <2>2. history'[o] = IF history[o].samples = {} THEN NoObject ELSE history[o]
    <3>1. history' = DropEmpty(all)
      BY <2>1 DEF Merge
    <3>2. all[o] = history[o]
      BY <1>2
    <3> HIDE DEF all
    <3>3. DropEmpty(all)[o] = IF all[o].samples = {} THEN NoObject ELSE all[o]
      BY DEF DropEmpty
    <3> QED
      BY <3>1, <3>2, <3>3
  <2> HIDE DEF all
  <2>3. NoObject.samples = {}
    BY DEF NoObject
  <2>4. history'[o].samples = history[o].samples
    <3>1. CASE history[o].samples = {}
      BY <2>2, <2>3, <3>1
    <3>2. CASE history[o].samples # {}
      BY <2>2, <3>2
    <3> QED
      BY <3>1, <3>2
  <2> QED
    BY <1>2, <2>4
<1> QED
  BY <1>1, <1>2

\* A prune leaves alone what is on its list.
LEMMA RetainKeeps ==
  ASSUME NEW h, NEW keep, NEW o \in Ids, o \in keep
  PROVE  After(h, [kind |-> "retain", keep |-> keep])[o] = h[o]
<1> DEFINE call == [kind |-> "retain", keep |-> keep]
<1>1. o \notin Dropped(h, keep)
  BY DEF Dropped
<1>2. After(h, call) = h \/ After(h, call) = Without(h, Dropped(h, keep))
  BY DEF After, Writes
<1> QED
  BY <1>1, <1>2 DEF Without

\* What DeliveredHeld rests on: what a cycle has delivered is within the retention
\* that it merges with, and on the list that it will prune by.
Kept(t) ==
  /\ \A o \in Ids : \A e \in delivered[t][o] :
       Keeps(history[o].samples, e) /\ e + Retention >= Anchor(t)
  /\ (pc[t] \in {"hrr", "ingest"} /\ pass[t] # "sim") => delivered[t] = Nothing
  /\ (pc[t] \in {"fetch", "merge"} /\ ids[t] # None) =>
       \A o \in Ids : delivered[t][o] # {} => o \in ids[t]
  /\ (pc[t] = "merge" /\ ids[t] # None) => DOMAIN offered[t] \subseteq ids[t]

KeptInv == \A t \in Threads : pc[t] \in InFlight => Kept(t)

Own(t) == <<delivered[t], kind[t], now[t], window[t], pass[t], ids[t], offered[t]>>

\* A thread touches only what is its own.
LEMMA OthersOwn ==
  ASSUME IInv, RestInv, NEW t \in Threads, NEW u \in Threads, u # t,
         Proceed(t) \/ \E k \in Kinds, w \in Windows \cup {NoWindow} : Call(t, k, w)
  PROVE  Own(u)' = Own(u) /\ pc'[u] = pc[u]
<1> USE DEF Own, Goto, args, ingest
<1>0. /\ pc \in [Threads -> Steps] /\ now \in [Threads -> Nat]
      /\ DOMAIN kind = Threads /\ DOMAIN window = Threads /\ DOMAIN pass = Threads
      /\ DOMAIN ids = Threads /\ DOMAIN offered = Threads /\ DOMAIN delivered = Threads
  BY DEF IInv, FlightInv, StampInv, RestInv
<1>1. ASSUME NEW k, NEW w, Call(t, k, w) PROVE Own(u)' = Own(u) /\ pc'[u] = pc[u]
  BY <1>0, <1>1 DEF Call
<1>2. CASE Begin(t)
  BY <1>0, <1>2 DEF Begin
<1>3. CASE End(t)
  BY <1>0, <1>3 DEF End
<1>4. CASE Busy(t) \/ HrrSkipped(t) \/ HrrRefreshed(t) \/ HrrRaises(t)
  BY <1>0, <1>4 DEF Busy, HrrSkipped, HrrRefreshed, HrrRaises
<1>5. CASE StartIngest(t) \/ ListRaises(t) \/ FinishIngest(t) \/ StoreRaises(t)
  BY <1>0, <1>5 DEF StartIngest, ListRaises, FinishIngest, StoreRaises
<1>6. ASSUME NEW a, Fetch(t, a) PROVE Own(u)' = Own(u) /\ pc'[u] = pc[u]
  BY <1>0, <1>6 DEF Fetch
<1>7. CASE Merging(t)
  BY <1>0, <1>7 DEF Merging
<1>8. CASE PublishRun(t) \/ PublishAdded(t) \/ PublishErrors(t) \/ PublishIngest(t)
           \/ PublishOk(t)
  BY <1>0, <1>8 DEF PublishRun, PublishAdded, PublishErrors, PublishIngest, PublishOk
<1> QED
  BY <1>1, <1>2, <1>3, <1>4, <1>5, <1>6, <1>7, <1>8 DEF Proceed

\* A thread that does not start anything, with the store as it was.
LEMMA SameKept ==
  ASSUME NEW t \in Threads, pc[t] \in InFlight => Kept(t), pc'[t] \in InFlight,
         Own(t)' = Own(t), history' = history,
         \/ pc'[t] = pc[t]
         \/ pc[t] \in InFlight /\ pc'[t] \notin {"hrr", "ingest", "fetch", "merge"}
  PROVE  Kept(t)'
  BY DEF Kept, Own, Anchor

\* What its own step makes of it.
LEMMA OwnKept ==
  ASSUME IInv, RestInv, HistoryInv, NEW t \in Threads, Proceed(t),
         pc[t] \in InFlight => Kept(t), pc'[t] \in InFlight
  PROVE  Kept(t)'
<1>0. /\ pc \in [Threads -> Steps] /\ now \in [Threads -> Nat]
      /\ DOMAIN kind = Threads /\ DOMAIN window = Threads /\ DOMAIN pass = Threads
      /\ DOMAIN ids = Threads /\ DOMAIN offered = Threads
      /\ delivered \in [Threads -> [Ids -> SUBSET Nat]]
  BY DEF IInv, FlightInv, StampInv, RestInv
<1>1. CASE Begin(t)
  <2>1. delivered'[t] = Nothing /\ pc'[t] \in {"hrr", "ingest"}
    BY <1>0, <1>1 DEF Begin, Goto
  <2> QED
    BY <2>1 DEF Kept, Nothing
<1>2. CASE End(t) \/ Busy(t)
  <2>1. pc'[t] = Returned(t)
    BY <1>0, <1>2 DEF End, Busy, Goto
  <2> QED
    BY <2>1 DEF Returned, InFlight
<1>3. CASE HrrSkipped(t) \/ HrrRefreshed(t) \/ HrrRaises(t)
  <2>1. pc[t] = "hrr" /\ pc'[t] = "ingest" /\ history' = history /\ Own(t)' = Own(t)
    BY <1>0, <1>3 DEF HrrSkipped, HrrRefreshed, HrrRaises, Goto, args, ingest, Own
  <2>2. Kept(t)
    BY <2>1 DEF InFlight
  <2> QED
    BY <2>1, <2>2 DEF Kept, Own, Anchor
<1>4. CASE StartIngest(t)
  <2>1. /\ pc[t] = "ingest" /\ pc'[t] = "fetch" /\ history' = history
        /\ UNCHANGED <<delivered, kind, now, window, pass, offered>>
        /\ ids'[t] # None => pass[t] # "sim"
    BY <1>0, <1>4 DEF StartIngest, ReadsList, Goto, args
  <2>2. Kept(t)
    BY <2>1 DEF InFlight
  <2> QED
    BY <2>1, <2>2 DEF Kept, Anchor, Nothing
<1>5. CASE ListRaises(t) \/ StoreRaises(t) \/ PublishRun(t) \/ PublishAdded(t)
           \/ PublishErrors(t) \/ PublishIngest(t) \/ PublishOk(t)
  <2>1. /\ history' = history /\ Own(t)' = Own(t) /\ pc[t] \in InFlight
        /\ pc'[t] \notin {"hrr", "ingest", "fetch", "merge"}
    BY <1>0, <1>5 DEF ListRaises, StoreRaises, PublishRun, PublishAdded, PublishErrors,
                      PublishIngest, PublishOk, Goto, args, ingest, Own, InFlight
  <2> QED
    BY <2>1, SameKept
<1>6. ASSUME NEW a, Fetch(t, a) PROVE Kept(t)'
  <2> DEFINE kept == Filtered(a.pull, pass[t], ids[t])
  <2>1. /\ pc[t] = "fetch" /\ pc'[t] \in {"fetch", "merge"} /\ history' = history
        /\ UNCHANGED <<delivered, kind, now, window, pass, ids>>
        /\ offered'[t] = kept
    BY <1>0, <1>6 DEF Fetch, Goto, args
  <2>2. ids[t] # None => DOMAIN kept \subseteq ids[t]
    BY DEF Filtered
  <2>3. Kept(t)
    BY <2>1 DEF InFlight
  <2> HIDE DEF kept
  <2> QED
    BY <2>1, <2>2, <2>3 DEF Kept, Anchor
<1>7. CASE Merging(t)
  <2>1. /\ pc[t] = "merge" /\ pc'[t] = "fetch"
        /\ history' = After(history, [kind |-> "merge", pull |-> offered[t],
                                      now |-> Anchor(t)])
        /\ UNCHANGED <<kind, now, window, pass, ids>>
        /\ delivered'[t] = [o \in Ids |-> delivered[t][o] \cup Retained(t, o)]
    BY <1>0, <1>7 DEF Merging, MergeCall, Goto, args
  <2>2. Kept(t)
    BY <2>1 DEF InFlight
  <2>3. IsOffer(offered[t]) /\ Anchor(t) \in Nat
    BY <1>0 DEF RestInv, Anchor
  <2>4. ASSUME NEW o \in Ids, NEW e \in delivered'[t][o]
        PROVE  /\ e \in Nat /\ e + Retention >= Anchor(t)
               /\ \/ e \in delivered[t][o]
                  \/ o \in DOMAIN offered[t] /\ e \in Epochs(offered[t][o].samples)
    <3>1. CASE e \in delivered[t][o]
      BY <1>0, <2>2, <3>1 DEF Kept
    <3>2. CASE e \in Retained(t, o)
      <4>1. o \in DOMAIN offered[t] /\ e \in Epochs(offered[t][o].samples)
        BY <3>2 DEF Retained
      <4>2. e + Retention >= Anchor(t)
        BY <3>2 DEF Retained, Anchor
      <4> QED
        BY <2>3, <4>1, <4>2, OfferedEpochs
    <3> QED
      BY <2>1, <3>1, <3>2
  <2>5. ASSUME NEW o \in Ids, NEW e \in delivered'[t][o]
        PROVE  Keeps(history'[o].samples, e)
    <3>1. e >= Anchor(t) - Retention /\ e \in Nat
      BY <2>3, <2>4, HistoryAssumption
    <3>2. \/ Keeps(history[o].samples, e)
          \/ o \in DOMAIN offered[t] /\ e \in Epochs(offered[t][o].samples)
      BY <2>2, <2>4 DEF Kept
    <3> QED
      BY <2>1, <2>3, <3>1, <3>2, MergeHolds
  <2>6. ASSUME ids[t] # None, NEW o \in Ids, delivered'[t][o] # {} PROVE o \in ids[t]
    BY <2>1, <2>2, <2>4, <2>6 DEF Kept
  <2>7. Anchor(t)' = Anchor(t)
    BY <2>1 DEF Anchor
  <2> QED
    BY <2>1, <2>4, <2>5, <2>6, <2>7 DEF Kept
<1>8. CASE FinishIngest(t)
  <2>1. /\ pc[t] = "fetch" /\ pc'[t] \in {"last_run", "ingest"}
        /\ pc'[t] = "ingest" => pass'[t] = "sim"
        /\ UNCHANGED <<delivered, kind, now, window, ids>>
        /\ history' = IF ids[t] = None THEN history
                      ELSE After(history, [kind |-> "retain", keep |-> ids[t]])
    BY <1>0, <1>8 DEF FinishIngest, Goto, args
  <2>2. Kept(t)
    BY <2>1 DEF InFlight
  <2>3. \A o \in Ids : delivered[t][o] # {} => history'[o] = history[o]
    BY <2>1, <2>2, RetainKeeps DEF Kept
  <2> QED
    BY <2>1, <2>2, <2>3 DEF Kept, Anchor
<1> QED
  BY <1>1, <1>2, <1>3, <1>4, <1>5, <1>6, <1>7, <1>8 DEF Proceed

LEMMA StepKeptInv ==
  ASSUME IInv, IInv', RestInv, HistoryInv, KeptInv, [Next]_vars
  PROVE  KeptInv'
<1> SUFFICES ASSUME NEW u \in Threads, pc'[u] \in InFlight PROVE Kept(u)'
  BY DEF KeptInv
<1>0. pc[u] \in InFlight => Kept(u)
  BY DEF KeptInv
<1>1. ASSUME NEW t \in Threads, u # t,
             Proceed(t) \/ \E k \in Kinds, w \in Windows \cup {NoWindow} : Call(t, k, w)
      PROVE  Kept(u)'
  <2>1. Own(u)' = Own(u) /\ pc'[u] = pc[u]
    BY <1>1, OthersOwn
  <2>2. pc[t] \notin InFlight
    BY <1>1, <2>1 DEF IInv, FlightInv, OneFlight
  <2>3. history' = history
    <3>1. ~Merging(t) /\ ~FinishIngest(t)
      BY <2>2 DEF Merging, FinishIngest, Goto, InFlight
    <3> QED
      BY <1>1, <3>1 DEF Proceed, Call, Begin, End, Busy, HrrSkipped, HrrRefreshed,
         HrrRaises, StartIngest, ListRaises, Fetch, StoreRaises, PublishRun,
         PublishAdded, PublishErrors, PublishIngest, PublishOk
  <2> QED
    BY <1>0, <2>1, <2>3, SameKept
<1>2. CASE Proceed(u)
  BY <1>0, <1>2, OwnKept
<1>3. ASSUME NEW k \in Kinds, NEW w \in Windows \cup {NoWindow}, Call(u, k, w)
      PROVE  FALSE
  <2>1. pc' = [pc EXCEPT ![u] = "begin"] /\ pc \in [Threads -> Steps]
    BY <1>3 DEF Call, Goto, IInv, FlightInv
  <2> QED
    BY <2>1 DEF InFlight
<1>4. CASE Verdict \/ VerdictRaises
  <2>1. PICK to \in {"idle", "dead"} :
          pc' = [pc EXCEPT ![Scheduler] = to] /\ pc \in [Threads -> Steps]
    BY <1>4 DEF Verdict, VerdictRaises, Goto, IInv, FlightInv
  <2>2. pc'[u] = pc[u]
    BY <2>1 DEF InFlight, Threads
  <2>3. Own(u)' = Own(u) /\ history' = history
    BY <1>4 DEF Verdict, VerdictRaises, args, ingest, Own
  <2> QED
    BY <1>0, <2>2, <2>3, SameKept
<1>5. CASE Tick \/ RequestLoads \/ LateLoad \/ UNCHANGED vars
  <2>1. pc'[u] = pc[u] /\ Own(u)' = Own(u) /\ history' = history
    BY <1>5 DEF Tick, RequestLoads, LateLoad, vars, flight, args, ingest, Own
  <2> QED
    BY <1>0, <2>1, SameKept
<1>6. ASSUME NEW pull \in Injections, MergeOne(pull) PROVE Kept(u)'
  <2>1. IsOffer(pull) /\ clock \in Nat
    <3>1. IsOffer(pull)
      BY <1>6, RefreshAssumption DEF IsOffer
    <3>2. clock \in Nat
      BY DEF IInv, StampInv
    <3> QED
      BY <3>1, <3>2
  <2>2. /\ UNCHANGED <<pc, kind, now, window, pass, ids, offered>>
        /\ history' = After(history, [kind |-> "merge", pull |-> pull, now |-> clock])
    BY <1>6 DEF MergeOne, flight, args
  <2>3. \A o \in Ids : delivered'[u][o] =
          {e \in delivered[u][o] : o \in DOMAIN pull => e >= clock - Retention}
    BY <1>6 DEF MergeOne
  <2>4. Kept(u)
    BY <1>0, <2>2
  <2>5. \A o \in Ids : delivered[u][o] \subseteq Nat
    BY DEF RestInv
  <2>6. ASSUME NEW o \in Ids, NEW e \in delivered'[u][o]
        PROVE  Keeps(history'[o].samples, e) /\ e + Retention >= Anchor(u)
    <3>1. /\ Keeps(history[o].samples, e) /\ e + Retention >= Anchor(u) /\ e \in Nat
          /\ o \in DOMAIN pull => e >= clock - Retention
      BY <2>3, <2>4, <2>5 DEF Kept
    <3> QED
      BY <2>1, <2>2, <3>1, MergeHolds
  <2>7. Anchor(u)' = Anchor(u)
    BY <2>2 DEF Anchor
  <2>8. delivered[u] = Nothing => delivered'[u] = Nothing
    <3>1. ASSUME delivered[u] = Nothing PROVE delivered'[u] = Nothing
      <4>1. \A o \in Ids : delivered[u][o] = {}
        BY <3>1 DEF Nothing
      <4>2. delivered'[u] = [o \in Ids |-> {e \in delivered[u][o] :
                                            o \in DOMAIN pull => e >= clock - Retention}]
        BY <1>6 DEF MergeOne
      <4> QED
        BY <4>1, <4>2 DEF Nothing
    <3> QED
      BY <3>1
  <2>9. \A o \in Ids : delivered'[u][o] # {} => delivered[u][o] # {}
    BY <2>3
  <2> QED
    BY <2>2, <2>4, <2>6, <2>7, <2>8, <2>9 DEF Kept
<1> QED
  BY <1>1, <1>2, <1>3, <1>4, <1>5, <1>6 DEF Next, Tell

\* What a cycle has merged stays in the store until the cycle is over, whatever
\* is merged by others meanwhile and whatever list is put in force
\* (refresh.py l.160-163, l.209-211).
THEOREM DeliveredIsHeld == Spec => []DeliveredHeld
<1>1. Init => HistoryInv /\ KeptInv
  <2>1. Sampled(NoObject.samples)
    BY FS_EmptySet DEF NoObject, Sampled
  <2>2. Init => KeptInv
    BY DEF Init, KeptInv, InFlight
  <2> QED
    BY <2>1, <2>2 DEF Init, HistoryInv, EmptyHistory
<1>2. IInv /\ RestInv /\ [Next]_vars => RestInv'
  BY StepRestInv
<1>3. RestInv /\ HistoryInv /\ [Next]_vars => HistoryInv'
  BY StepHistoryInv
<1>4. IInv /\ IInv' /\ RestInv /\ HistoryInv /\ KeptInv /\ [Next]_vars => KeptInv'
  BY StepKeptInv
<1>5. KeptInv => DeliveredHeld
  BY DEF KeptInv, Kept, DeliveredHeld
<1> QED
  BY Invariance, InitRestInv, <1>1, <1>2, <1>3, <1>4, <1>5, PTL DEF Spec

=============================================================================
