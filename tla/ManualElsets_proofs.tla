------------------------ MODULE ManualElsets_proofs ------------------------
(***************************************************************************)
(* Proofs about ManualElsets for any threads, ids and times: types, one     *)
(* element set per id however saves overlap, and what holds for requests    *)
(* that come one at a time: an injection lands and a deletion is final.     *)
(***************************************************************************)
EXTENDS ManualElsets, TLAPS

PostRequest == [kind : {"post"}, id : Ids, epoch : Epochs, ttl : Ttls, expires : Nat]
DeleteRequest == [kind : {"delete"}, id : Ids]
ListRequest == [kind : {"meta", "refresh"}]

Adding == {"add load", "add save"}
Removing == {"remove load", "remove save", "drop"}
Listing == {"list load", "list check", "list save", "merge"}

Shape ==
  /\ file \subseteq Item
  /\ plot \in [Ids -> SUBSET Epochs]
  /\ clock \in 0..MaxTime
  /\ pc \in [Threads -> Steps]
  /\ DOMAIN req = Threads
  /\ mem \in [Threads -> SUBSET Item]
  /\ gone \subseteq Ids
  /\ crossed \in BOOLEAN
  /\ faults \in 0..MaxFaults
  /\ \A t \in Threads :
       /\ pc[t] = "idle" => req[t] = NoRequest /\ mem[t] = {}
       /\ pc[t] \in Adding => req[t] \in PostRequest
       /\ pc[t] \in Removing => req[t] \in DeleteRequest
       /\ pc[t] \in Listing => req[t] \in PostRequest \cup ListRequest
       /\ pc[t] \in {"reply", "raised"} => req[t] \in PostRequest \cup DeleteRequest \cup ListRequest

Unique(items) == \A i, j \in items : i.id = j.id => i = j

OneEach == Unique(file) /\ \A t \in Threads : Unique(mem[t])

IInv == Shape /\ OneEach

LEMMA InitIInv == Init => IInv
<1> SUFFICES ASSUME Init
             PROVE  IInv
  OBVIOUS
<1>1. /\ plot \in [Ids -> SUBSET Epochs] /\ pc \in [Threads -> Steps]
      /\ mem \in [Threads -> SUBSET Item]
  BY DEF Init, Steps
<1>2. clock \in 0..MaxTime /\ faults \in 0..MaxFaults
  BY ManualElsetsAssumption DEF Init
<1>3. Shape
  BY <1>1, <1>2 DEF Init, Shape, Adding, Removing, Listing
<1>4. QED
  BY <1>3 DEF Init, IInv, OneEach, Unique

LEMMA StepIInv == IInv /\ [Next]_vars => IInv'
<1> SUFFICES ASSUME IInv, [Next]_vars
             PROVE  IInv'
  OBVIOUS
<1> USE DEF IInv
<1>1. ASSUME NEW t \in Threads, NEW o \in Ids, NEW e \in Epochs, NEW ttl \in Ttls, Post(t, o, e, ttl)
      PROVE  IInv'
  <2> DEFINE r == [kind |-> "post", id |-> o, epoch |-> e, ttl |-> ttl, expires |-> 0]
  <2>a. r \in PostRequest
    BY DEF PostRequest
  <2>b. req' = [req EXCEPT ![t] = r] /\ pc[t] = "idle"
    BY <1>1 DEF Post, Goto, Moves, Serves
  <2> HIDE DEF r
  <2>c. DOMAIN req' = Threads /\ req'[t] = r /\ \A u \in Threads \ {t} : req'[u] = req[u]
    BY <2>b DEF Shape
  <2>1. Shape'
    BY <1>1, <2>a, <2>b, <2>c DEF Shape, Steps, Adding, Removing, Listing, Post, Goto, Moves
  <2>2. OneEach'
    BY <1>1 DEF OneEach, Unique, Shape, Post, Goto, Moves, Serves
  <2> QED
    BY <2>1, <2>2
<1>2. ASSUME NEW t \in Threads, AddLoad(t)
      PROVE  IInv'
  <2> DEFINE item == [id |-> req[t].id, epoch |-> req[t].epoch,
                      expires |-> clock + req[t].ttl]
             items == {i \in file : i.id # req[t].id} \cup {item}
  <2>a. /\ pc[t] = "add load" /\ pc' = [pc EXCEPT ![t] = "add save"]
        /\ crossed' = (crossed \/ \E u \in Threads \ {t} : pc[u] # "idle")
        /\ mem' = [mem EXCEPT ![t] = items]
        /\ req' = [req EXCEPT ![t].expires = item.expires]
        /\ UNCHANGED <<file, plot, clock, gone, faults>>
    BY <1>2 DEF AddLoad, Goto, Moves, Holds
  <2>b. req[t] \in PostRequest
    BY <2>a DEF Shape, Adding
  <2>c. item \in Item /\ item.expires \in Nat
    <3>0. clock \in Nat
      BY ManualElsetsAssumption DEF Shape
    <3>a. /\ req[t].ttl \in Ttls /\ req[t].id \in Ids /\ req[t].epoch \in Epochs
      BY <2>b DEF PostRequest
    <3>1. clock \in Nat /\ req[t].ttl \in Nat /\ req[t].id \in Ids /\ req[t].epoch \in Epochs
      BY <3>0, <3>a, ManualElsetsAssumption
    <3>2. item.expires \in Nat
      BY <3>1
    <3>3. QED
      BY <3>1, <3>2 DEF Item
  <2>d. items \subseteq Item /\ (Unique(file) => Unique(items))
    BY <2>c DEF Shape, Unique
  <2>e. [req[t] EXCEPT !.expires = item.expires] \in PostRequest
    BY <2>b, <2>c DEF PostRequest
  <2>f. /\ DOMAIN req' = Threads /\ req'[t] = [req[t] EXCEPT !.expires = item.expires]
        /\ \A u \in Threads \ {t} : req'[u] = req[u]
    BY <2>a DEF Shape
  <2> HIDE DEF item, items
  <2>1. Shape'
    BY <2>a, <2>d, <2>e, <2>f DEF Shape, Steps, Adding, Removing, Listing
  <2>2. OneEach'
    BY <2>a, <2>d DEF OneEach, Shape
  <2> QED
    BY <2>1, <2>2
<1>3. ASSUME NEW t \in Threads, AddSave(t)
      PROVE  IInv'
  <2>1. Shape'
    BY <1>3 DEF Shape, Steps, Adding, Removing, Listing, PostRequest, DeleteRequest, ListRequest, AddSave, Goto, Moves
  <2>2. OneEach'
    BY <1>3 DEF OneEach, Unique, Shape, AddSave, Goto, Moves
  <2> QED
    BY <2>1, <2>2
<1>4. ASSUME NEW t \in Threads, NEW kind \in {"meta", "refresh"}, List(t, kind)
      PROVE  IInv'
  <2>1. Shape'
    BY <1>4 DEF Shape, Steps, Adding, Removing, Listing, PostRequest, DeleteRequest, ListRequest, List, Goto, Moves, Serves
  <2>2. OneEach'
    BY <1>4 DEF OneEach, Unique, Shape, List, Goto, Moves, Serves
  <2> QED
    BY <2>1, <2>2
<1>5. ASSUME NEW t \in Threads, ListLoad(t)
      PROVE  IInv'
  <2>1. Shape'
    BY <1>5 DEF Shape, Steps, Adding, Removing, Listing, PostRequest, DeleteRequest, ListRequest, ListLoad, Goto, Moves, Holds
  <2>2. OneEach'
    BY <1>5 DEF OneEach, Unique, Shape, ListLoad, Goto, Moves, Holds
  <2> QED
    BY <2>1, <2>2
<1>6. ASSUME NEW t \in Threads, ListCheck(t)
      PROVE  IInv'
  <2>1. Shape'
    BY <1>6 DEF Shape, Steps, Adding, Removing, Listing, PostRequest, DeleteRequest, ListRequest, ListCheck, Goto, Moves, AfterList
  <2>2. OneEach'
    BY <1>6 DEF OneEach, Unique, Shape, ListCheck, Goto, Moves, AfterList
  <2> QED
    BY <2>1, <2>2
<1>7. ASSUME NEW t \in Threads, ListSave(t)
      PROVE  IInv'
  <2>1. Shape'
    BY <1>7 DEF Shape, Steps, Adding, Removing, Listing, PostRequest, DeleteRequest, ListRequest, ListSave, Goto, Moves, AfterList
  <2>2. OneEach'
    BY <1>7 DEF OneEach, Unique, Shape, ListSave, Goto, Moves, AfterList
  <2> QED
    BY <2>1, <2>2
<1>8. ASSUME NEW t \in Threads, Merge(t)
      PROVE  IInv'
  <2>1. Shape'
    <3>1. plot' \in [Ids -> SUBSET Epochs]
      <4>1. \A o \in Ids : plot[o] \cup {i.epoch : i \in {j \in mem[t] : j.id = o}} \in SUBSET Epochs
        BY DEF Shape, Item
      <4>2. QED
        BY <1>8, <4>1 DEF Merge
    <3>2. /\ pc[t] = "merge" /\ pc' = [pc EXCEPT ![t] = "reply"] /\ crossed' \in BOOLEAN
          /\ UNCHANGED <<file, clock, req, mem, gone, faults>>
      BY <1>8 DEF Merge, Goto, Moves
    <3>3. QED
      BY <3>1, <3>2 DEF Shape, Steps, Adding, Removing, Listing
  <2>2. OneEach'
    BY <1>8 DEF OneEach, Unique, Shape, Merge, Goto, Moves
  <2> QED
    BY <2>1, <2>2
<1>9. ASSUME NEW t \in Threads, NEW o \in Ids, Delete(t, o)
      PROVE  IInv'
  <2>1. Shape'
    BY <1>9 DEF Shape, Steps, Adding, Removing, Listing, PostRequest, DeleteRequest, ListRequest, Delete, Goto, Moves, Serves
  <2>2. OneEach'
    BY <1>9 DEF OneEach, Unique, Shape, Delete, Goto, Moves, Serves
  <2> QED
    BY <2>1, <2>2
<1>10. ASSUME NEW t \in Threads, RemoveLoad(t)
      PROVE  IInv'
  <2>1. Shape'
    BY <1>10 DEF Shape, Steps, Adding, Removing, Listing, PostRequest, DeleteRequest, ListRequest, RemoveLoad, Goto, Moves, Holds
  <2>2. OneEach'
    BY <1>10 DEF OneEach, Unique, Shape, RemoveLoad, Goto, Moves, Holds
  <2> QED
    BY <2>1, <2>2
<1>11. ASSUME NEW t \in Threads, RemoveSave(t)
      PROVE  IInv'
  <2>1. Shape'
    BY <1>11 DEF Shape, Steps, Adding, Removing, Listing, PostRequest, DeleteRequest, ListRequest, RemoveSave, Goto, Moves
  <2>2. OneEach'
    BY <1>11 DEF OneEach, Unique, Shape, RemoveSave, Goto, Moves
  <2> QED
    BY <2>1, <2>2
<1>12. ASSUME NEW t \in Threads, Drop(t)
      PROVE  IInv'
  <2>1. Shape'
    BY <1>12 DEF Shape, Steps, Adding, Removing, Listing, PostRequest, DeleteRequest, ListRequest, Drop, Goto, Moves
  <2>2. OneEach'
    BY <1>12 DEF OneEach, Unique, Shape, Drop, Goto, Moves
  <2> QED
    BY <2>1, <2>2
<1>13. ASSUME NEW t \in Threads, Reply(t)
      PROVE  IInv'
  <2>1. Shape'
    BY <1>13 DEF Shape, Steps, Adding, Removing, Listing, PostRequest, DeleteRequest, ListRequest, Reply, Goto, Moves, Holds
  <2>2. OneEach'
    BY <1>13 DEF OneEach, Unique, Shape, Reply, Goto, Moves, Holds
  <2> QED
    BY <2>1, <2>2
<1>14. CASE Tick
  <2>1. Shape'
    BY <1>14, ManualElsetsAssumption DEF Shape, Tick
  <2>2. OneEach'
    BY <1>14 DEF OneEach, Unique, Shape, Tick
  <2> QED
    BY <2>1, <2>2
<1>15. CASE UNCHANGED vars
  <2>1. Shape'
    BY <1>15 DEF Shape, Steps, Adding, Removing, Listing, PostRequest, DeleteRequest, ListRequest, vars
  <2>2. OneEach'
    BY <1>15 DEF OneEach, Unique, Shape, vars
  <2> QED
    BY <2>1, <2>2
<1>16. ASSUME NEW t \in Threads, Fails(t)
      PROVE  IInv'
  <2>0. /\ pc[t] \in Steps \ {"idle", "reply", "raised"}
        /\ pc' = [pc EXCEPT ![t] = pc'[t]] /\ pc'[t] \in {"reply", "raised"}
        /\ crossed' = (crossed \/ \E u \in Threads \ {t} : pc[u] # "idle")
        /\ file' \in {file, {}} /\ plot' \in {plot, [o \in Ids |-> {}]}
        /\ UNCHANGED <<clock, req, mem, gone>>
    <3>1. PICK step \in Steps \ {"idle", "reply", "raised"} :
                 /\ Moves(t, step, IF step \in Fetches /\ req[t].kind = "post"
                                    THEN "reply" ELSE "raised")
                 /\ file' \in {file} \cup {{} : s \in {step} \cap Saves}
                 /\ plot' \in {plot} \cup {[o \in Ids |-> {}] :
                                           s \in {step} \cap {"merge", "drop"}}
      BY <1>16 DEF Fails
    <3>2. pc' = [pc EXCEPT ![t] = "reply"] \/ pc' = [pc EXCEPT ![t] = "raised"]
      BY <3>1 DEF Moves
    <3>3. QED
      BY <1>16, <3>1, <3>2 DEF Fails, Moves, Shape
  <2>1. faults' \in 0..MaxFaults
    BY <1>16, ManualElsetsAssumption DEF Fails, Shape
  <2>2. req[t] \in PostRequest \cup DeleteRequest \cup ListRequest
    BY <2>0 DEF Shape, Steps, Adding, Removing, Listing
  <2>3. pc' \in [Threads -> Steps] /\ \A u \in Threads \ {t} : pc'[u] = pc[u]
    BY <2>0 DEF Shape, Steps
  <2>4. file' \subseteq Item /\ plot' \in [Ids -> SUBSET Epochs] /\ crossed' \in BOOLEAN
    BY <2>0 DEF Shape
  <2>5. Shape'
    BY <2>0, <2>1, <2>2, <2>3, <2>4 DEF Shape, Adding, Removing, Listing
  <2>6. OneEach'
    BY <2>0 DEF OneEach, Unique
  <2> QED
    BY <2>5, <2>6
<1>17. QED
  BY <1>1, <1>2, <1>3, <1>4, <1>5, <1>6, <1>7, <1>8, <1>9, <1>10, <1>11, <1>12, <1>13, <1>14, <1>15, <1>16 DEF Next, Start, Proceed

-----------------------------------------------------------------------------
(* Requests that come one at a time *)

Posted(t) == [id |-> req[t].id, epoch |-> req[t].epoch, expires |-> req[t].expires]
IsPost(t) == pc[t] # "idle" /\ req[t] \in PostRequest

OneAtATime == ~crossed =>
  \A t, u \in Threads : pc[t] # "idle" /\ pc[u] # "idle" => t = u

\* What is gone is nowhere, and nothing that is under way brings it back.
DeletionFinal == ~crossed =>
  /\ \A o \in gone : plot[o] = {}
  /\ \A i \in file : i.id \notin gone
  /\ \A t \in Threads :
       /\ \A i \in mem[t] : i.id \notin gone
       /\ IsPost(t) => req[t].id \notin gone
       /\ pc[t] \in {"remove save", "drop"} => \A i \in mem[t] : i.id # req[t].id
       /\ pc[t] = "drop" => \A i \in file : i.id # req[t].id

\* The posted item is handed on from the memory to the file and back.
PostHeld == ~crossed => \A t \in Threads : IsPost(t) =>
  /\ pc[t] = "add save" => Posted(t) \in mem[t]
  /\ pc[t] = "list load" => Posted(t) \in file
  /\ pc[t] \in {"list check", "list save", "merge"} =>
       Posted(t) \in mem[t] \/ req[t].expires <= clock

Alone == OneAtATime /\ DeletionFinal /\ PostHeld

LEMMA InitAlone == Init => Alone
BY DEF Init, Alone, OneAtATime, DeletionFinal, PostHeld, IsPost

LEMMA StepAlone == IInv /\ Alone /\ [Next]_vars => Alone'
<1> SUFFICES ASSUME IInv, Alone, [Next]_vars
             PROVE  Alone'
  OBVIOUS
<1> USE DEF IInv, Alone
<1>1. ASSUME NEW t \in Threads, NEW o \in Ids, NEW e \in Epochs, NEW ttl \in Ttls, Post(t, o, e, ttl)
      PROVE  Alone'
  <2>0. /\ pc[t] = "idle" /\ pc'[t] \in {"add load"}
        /\ \A u \in Threads \ {t} : pc'[u] = pc[u] /\ req'[u] = req[u] /\ mem'[u] = mem[u]
        /\ ~crossed' => ~crossed /\ \A u \in Threads \ {t} : pc[u] = "idle" /\ mem[u] = {}
    BY <1>1 DEF Shape, Post, Goto, Moves, Serves
  <2>1. OneAtATime'
    BY <2>0 DEF OneAtATime
  <2>2. DeletionFinal'
    BY <1>1, <2>0 DEF DeletionFinal, IsPost, Shape, Adding, Removing, Listing, PostRequest, DeleteRequest, ListRequest, Post, Goto, Moves, Serves
  <2>3. PostHeld'
    BY <1>1, <2>0 DEF PostHeld, Posted, IsPost, Shape, Adding, Removing, Listing, PostRequest, DeleteRequest, ListRequest, Post, Goto, Moves, Serves
  <2> QED
    BY <2>1, <2>2, <2>3
<1>2. ASSUME NEW t \in Threads, AddLoad(t)
      PROVE  Alone'
  <2>0. /\ pc[t] = "add load" /\ pc'[t] \in {"add save"}
        /\ \A u \in Threads \ {t} : pc'[u] = pc[u] /\ req'[u] = req[u] /\ mem'[u] = mem[u]
        /\ ~crossed' => ~crossed /\ \A u \in Threads \ {t} : pc[u] = "idle" /\ mem[u] = {}
    BY <1>2 DEF Shape, AddLoad, Goto, Moves, Holds
  <2> DEFINE item == [id |-> req[t].id, epoch |-> req[t].epoch,
                      expires |-> clock + req[t].ttl]
  <2>a. /\ mem'[t] = {i \in file : i.id # req[t].id} \cup {item} /\ item.id = req[t].id
        /\ UNCHANGED <<file, plot, clock, gone>>
    BY <1>2 DEF AddLoad, Goto, Moves, Holds, Shape
  <2>b. req[t] \in PostRequest /\ IsPost(t) /\ req'[t] = [req[t] EXCEPT !.expires = item.expires]
    BY <1>2, <2>0 DEF AddLoad, Goto, Moves, Shape, Adding, IsPost
  <2>c. /\ req'[t].id = req[t].id /\ req'[t].epoch = req[t].epoch
        /\ req'[t].expires = item.expires
    BY <2>b DEF PostRequest
  <2>d. Posted(t)' = item
    BY <2>c DEF Posted
  <2> HIDE DEF item
  <2>1. OneAtATime'
    BY <2>0 DEF OneAtATime
  <2>2. DeletionFinal'
    <3>1. ASSUME ~crossed'
          PROVE  \A i \in mem'[t] : i.id \notin gone
      <4>1. req[t].id \notin gone /\ \A i \in file : i.id \notin gone
        BY <2>0, <2>b, <3>1 DEF DeletionFinal
      <4>2. QED
        BY <2>a, <4>1
    <3>2. ASSUME ~crossed'
          PROVE  req'[t].id \notin gone
      BY <2>0, <2>b, <2>c, <3>2 DEF DeletionFinal
    <3>3. QED
      BY <2>0, <2>a, <3>1, <3>2 DEF DeletionFinal, IsPost
  <2>3. PostHeld'
    BY <2>0, <2>a, <2>d DEF PostHeld, IsPost
  <2> QED
    BY <2>1, <2>2, <2>3
<1>3. ASSUME NEW t \in Threads, AddSave(t)
      PROVE  Alone'
  <2>0. /\ pc[t] = "add save" /\ pc'[t] \in {"list load"}
        /\ \A u \in Threads \ {t} : pc'[u] = pc[u] /\ req'[u] = req[u] /\ mem'[u] = mem[u]
        /\ ~crossed' => ~crossed /\ \A u \in Threads \ {t} : pc[u] = "idle" /\ mem[u] = {}
    BY <1>3 DEF Shape, AddSave, Goto, Moves
  <2>1. OneAtATime'
    BY <2>0 DEF OneAtATime
  <2>2. DeletionFinal'
    <3>1. file' = mem[t] /\ UNCHANGED <<plot, clock, req, mem, gone>>
      BY <1>3 DEF AddSave
    <3>2. QED
      BY <2>0, <3>1 DEF DeletionFinal, IsPost
  <2>3. PostHeld'
    BY <1>3, <2>0 DEF PostHeld, Posted, IsPost, Shape, Adding, Removing, Listing, PostRequest, DeleteRequest, ListRequest, AddSave, Goto, Moves
  <2> QED
    BY <2>1, <2>2, <2>3
<1>4. ASSUME NEW t \in Threads, NEW kind \in {"meta", "refresh"}, List(t, kind)
      PROVE  Alone'
  <2>0. /\ pc[t] = "idle" /\ pc'[t] \in {"list load"}
        /\ \A u \in Threads \ {t} : pc'[u] = pc[u] /\ req'[u] = req[u] /\ mem'[u] = mem[u]
        /\ ~crossed' => ~crossed /\ \A u \in Threads \ {t} : pc[u] = "idle" /\ mem[u] = {}
    BY <1>4 DEF Shape, List, Goto, Moves, Serves
  <2>1. OneAtATime'
    BY <2>0 DEF OneAtATime
  <2>2. DeletionFinal'
    BY <1>4, <2>0 DEF DeletionFinal, IsPost, Shape, Adding, Removing, Listing, PostRequest, DeleteRequest, ListRequest, List, Goto, Moves, Serves
  <2>3. PostHeld'
    BY <1>4, <2>0 DEF PostHeld, Posted, IsPost, Shape, Adding, Removing, Listing, PostRequest, DeleteRequest, ListRequest, List, Goto, Moves, Serves
  <2> QED
    BY <2>1, <2>2, <2>3
<1>5. ASSUME NEW t \in Threads, ListLoad(t)
      PROVE  Alone'
  <2>0. /\ pc[t] = "list load" /\ pc'[t] \in {"list check"}
        /\ \A u \in Threads \ {t} : pc'[u] = pc[u] /\ req'[u] = req[u] /\ mem'[u] = mem[u]
        /\ ~crossed' => ~crossed /\ \A u \in Threads \ {t} : pc[u] = "idle" /\ mem[u] = {}
    BY <1>5 DEF Shape, ListLoad, Goto, Moves, Holds
  <2>1. OneAtATime'
    BY <2>0 DEF OneAtATime
  <2>2. DeletionFinal'
    BY <1>5, <2>0 DEF DeletionFinal, IsPost, Shape, Adding, Removing, Listing, PostRequest, DeleteRequest, ListRequest, ListLoad, Goto, Moves, Holds
  <2>3. PostHeld'
    <3>1. mem'[t] = {i \in file : ~Expired(i)} /\ UNCHANGED <<clock, req>>
      BY <1>5 DEF ListLoad, Holds, Shape
    <3>2. ASSUME ~crossed', IsPost(t)'
          PROVE  Posted(t)' \in mem'[t] \/ req'[t].expires <= clock'
      <4>1. IsPost(t) /\ Posted(t)' = Posted(t)
        BY <2>0, <3>1, <3>2 DEF IsPost, Posted
      <4>2. Posted(t) \in file
        BY <2>0, <3>2, <4>1 DEF PostHeld
      <4>3. Posted(t).expires = req[t].expires
        BY DEF Posted
      <4>4. QED
        BY <3>1, <4>1, <4>2, <4>3 DEF Expired
    <3>3. QED
      BY <2>0, <3>2 DEF PostHeld, IsPost
  <2> QED
    BY <2>1, <2>2, <2>3
<1>6. ASSUME NEW t \in Threads, ListCheck(t)
      PROVE  Alone'
  <2>0. /\ pc[t] = "list check" /\ pc'[t] \in {"list save", "reply", "merge"}
        /\ \A u \in Threads \ {t} : pc'[u] = pc[u] /\ req'[u] = req[u] /\ mem'[u] = mem[u]
        /\ ~crossed' => ~crossed /\ \A u \in Threads \ {t} : pc[u] = "idle" /\ mem[u] = {}
    BY <1>6 DEF Shape, ListCheck, Goto, Moves, AfterList
  <2>1. OneAtATime'
    BY <2>0 DEF OneAtATime
  <2>2. DeletionFinal'
    BY <1>6, <2>0 DEF DeletionFinal, IsPost, Shape, Adding, Removing, Listing, PostRequest, DeleteRequest, ListRequest, ListCheck, Goto, Moves, AfterList
  <2>3. PostHeld'
    <3>1. UNCHANGED <<file, plot, clock, req, mem, gone>>
      BY <1>6 DEF ListCheck
    <3>2. QED
      BY <2>0, <3>1 DEF PostHeld, IsPost, Posted
  <2> QED
    BY <2>1, <2>2, <2>3
<1>7. ASSUME NEW t \in Threads, ListSave(t)
      PROVE  Alone'
  <2>0. /\ pc[t] = "list save" /\ pc'[t] \in {"reply", "merge"}
        /\ \A u \in Threads \ {t} : pc'[u] = pc[u] /\ req'[u] = req[u] /\ mem'[u] = mem[u]
        /\ ~crossed' => ~crossed /\ \A u \in Threads \ {t} : pc[u] = "idle" /\ mem[u] = {}
    BY <1>7 DEF Shape, ListSave, Goto, Moves, AfterList
  <2>1. OneAtATime'
    BY <2>0 DEF OneAtATime
  <2>2. DeletionFinal'
    <3>1. file' = mem[t] /\ UNCHANGED <<plot, clock, req, mem, gone>>
      BY <1>7 DEF ListSave
    <3>2. QED
      BY <2>0, <3>1 DEF DeletionFinal, IsPost
  <2>3. PostHeld'
    BY <1>7, <2>0 DEF PostHeld, Posted, IsPost, Shape, Adding, Removing, Listing, PostRequest, DeleteRequest, ListRequest, ListSave, Goto, Moves, AfterList
  <2> QED
    BY <2>1, <2>2, <2>3
<1>8. ASSUME NEW t \in Threads, Merge(t)
      PROVE  Alone'
  <2>0. /\ pc[t] = "merge" /\ pc'[t] \in {"reply"}
        /\ \A u \in Threads \ {t} : pc'[u] = pc[u] /\ req'[u] = req[u] /\ mem'[u] = mem[u]
        /\ ~crossed' => ~crossed /\ \A u \in Threads \ {t} : pc[u] = "idle" /\ mem[u] = {}
    BY <1>8 DEF Shape, Merge, Goto, Moves
  <2>1. OneAtATime'
    BY <2>0 DEF OneAtATime
  <2>2. DeletionFinal'
    <3>1. UNCHANGED <<file, clock, req, mem, gone>>
      BY <1>8 DEF Merge
    <3>2. ASSUME ~crossed', NEW o \in gone
          PROVE  plot'[o] = {}
      <4>1. o \in Ids /\ plot[o] = {} /\ {j \in mem[t] : j.id = o} = {}
        <5>1. o \in Ids /\ plot[o] = {} /\ \A i \in mem[t] : i.id \notin gone
          BY <2>0, <3>2 DEF DeletionFinal, Shape
        <5>2. \A j \in mem[t] : j.id # o
          BY <5>1
        <5>3. QED
          BY <5>1, <5>2
      <4>2. plot'[o] = plot[o] \cup {i.epoch : i \in {j \in mem[t] : j.id = o}}
        BY <1>8, <4>1 DEF Merge
      <4>3. QED
        BY <4>1, <4>2
    <3>3. QED
      BY <2>0, <3>1, <3>2 DEF DeletionFinal, IsPost
  <2>3. PostHeld'
    BY <1>8, <2>0 DEF PostHeld, Posted, IsPost, Shape, Adding, Removing, Listing, PostRequest, DeleteRequest, ListRequest, Merge, Goto, Moves
  <2> QED
    BY <2>1, <2>2, <2>3
<1>9. ASSUME NEW t \in Threads, NEW o \in Ids, Delete(t, o)
      PROVE  Alone'
  <2>0. /\ pc[t] = "idle" /\ pc'[t] \in {"remove load"}
        /\ \A u \in Threads \ {t} : pc'[u] = pc[u] /\ req'[u] = req[u] /\ mem'[u] = mem[u]
        /\ ~crossed' => ~crossed /\ \A u \in Threads \ {t} : pc[u] = "idle" /\ mem[u] = {}
    BY <1>9 DEF Shape, Delete, Goto, Moves, Serves
  <2>1. OneAtATime'
    BY <2>0 DEF OneAtATime
  <2>2. DeletionFinal'
    BY <1>9, <2>0 DEF DeletionFinal, IsPost, Shape, Adding, Removing, Listing, PostRequest, DeleteRequest, ListRequest, Delete, Goto, Moves, Serves
  <2>3. PostHeld'
    BY <1>9, <2>0 DEF PostHeld, Posted, IsPost, Shape, Adding, Removing, Listing, PostRequest, DeleteRequest, ListRequest, Delete, Goto, Moves, Serves
  <2> QED
    BY <2>1, <2>2, <2>3
<1>10. ASSUME NEW t \in Threads, RemoveLoad(t)
      PROVE  Alone'
  <2>0. /\ pc[t] = "remove load" /\ pc'[t] \in {"remove save", "reply"}
        /\ \A u \in Threads \ {t} : pc'[u] = pc[u] /\ req'[u] = req[u] /\ mem'[u] = mem[u]
        /\ ~crossed' => ~crossed /\ \A u \in Threads \ {t} : pc[u] = "idle" /\ mem[u] = {}
    BY <1>10 DEF Shape, RemoveLoad, Goto, Moves, Holds
  <2>1. OneAtATime'
    BY <2>0 DEF OneAtATime
  <2>2. DeletionFinal'
    <3>1. mem'[t] = {i \in file : i.id # req[t].id} /\ UNCHANGED <<file, plot, clock, req, gone>>
      BY <1>10 DEF RemoveLoad, Goto, Moves, Holds, Shape
    <3>2. ~IsPost(t)'
      BY <2>0, <3>1 DEF IsPost, Shape, Removing, PostRequest, DeleteRequest
    <3>3. QED
      BY <2>0, <3>1, <3>2 DEF DeletionFinal, IsPost
  <2>3. PostHeld'
    BY <1>10, <2>0 DEF PostHeld, Posted, IsPost, Shape, Adding, Removing, Listing, PostRequest, DeleteRequest, ListRequest, RemoveLoad, Goto, Moves, Holds
  <2> QED
    BY <2>1, <2>2, <2>3
<1>11. ASSUME NEW t \in Threads, RemoveSave(t)
      PROVE  Alone'
  <2>0. /\ pc[t] = "remove save" /\ pc'[t] \in {"drop"}
        /\ \A u \in Threads \ {t} : pc'[u] = pc[u] /\ req'[u] = req[u] /\ mem'[u] = mem[u]
        /\ ~crossed' => ~crossed /\ \A u \in Threads \ {t} : pc[u] = "idle" /\ mem[u] = {}
    BY <1>11 DEF Shape, RemoveSave, Goto, Moves
  <2>1. OneAtATime'
    BY <2>0 DEF OneAtATime
  <2>2. DeletionFinal'
    <3>1. file' = mem[t] /\ UNCHANGED <<plot, clock, req, mem, gone>>
      BY <1>11 DEF RemoveSave
    <3>2. QED
      BY <2>0, <3>1 DEF DeletionFinal, IsPost
  <2>3. PostHeld'
    BY <1>11, <2>0 DEF PostHeld, Posted, IsPost, Shape, Adding, Removing, Listing, PostRequest, DeleteRequest, ListRequest, RemoveSave, Goto, Moves
  <2> QED
    BY <2>1, <2>2, <2>3
<1>12. ASSUME NEW t \in Threads, Drop(t)
      PROVE  Alone'
  <2>0. /\ pc[t] = "drop" /\ pc'[t] \in {"reply"}
        /\ \A u \in Threads \ {t} : pc'[u] = pc[u] /\ req'[u] = req[u] /\ mem'[u] = mem[u]
        /\ ~crossed' => ~crossed /\ \A u \in Threads \ {t} : pc[u] = "idle" /\ mem[u] = {}
    BY <1>12 DEF Shape, Drop, Goto, Moves
  <2>1. OneAtATime'
    BY <2>0 DEF OneAtATime
  <2>2. DeletionFinal'
    <3>1. /\ plot' = [plot EXCEPT ![req[t].id] = {}] /\ gone' \in {gone, gone \cup {req[t].id}}
          /\ UNCHANGED <<file, clock, req, mem>>
      BY <1>12 DEF Drop
    <3>2. req[t] \in DeleteRequest /\ req[t].id \in Ids /\ ~IsPost(t)'
      BY <2>0, <3>1 DEF IsPost, Shape, Removing, PostRequest, DeleteRequest
    <3>3. ASSUME ~crossed', NEW o \in gone'
          PROVE  plot'[o] = {}
      <4>1. CASE o = req[t].id
        BY <2>0, <3>1, <3>2, <3>3, <4>1 DEF DeletionFinal, Shape
      <4>2. CASE o # req[t].id
        BY <2>0, <3>1, <3>2, <3>3, <4>2 DEF DeletionFinal, Shape
      <4>3. QED
        BY <4>1, <4>2
    <3>4. ASSUME ~crossed'
          PROVE  /\ \A i \in mem[t] : i.id \notin gone'
                 /\ \A i \in file : i.id \notin gone'
      <4>1. /\ \A i \in mem[t] : i.id \notin gone /\ i.id # req[t].id
            /\ \A i \in file : i.id \notin gone /\ i.id # req[t].id
        BY <2>0, <3>4 DEF DeletionFinal
      <4>2. QED
        BY <3>1, <4>1
    <3>5. QED
      BY <2>0, <3>1, <3>2, <3>3, <3>4 DEF DeletionFinal, IsPost
  <2>3. PostHeld'
    BY <1>12, <2>0 DEF PostHeld, Posted, IsPost, Shape, Adding, Removing, Listing, PostRequest, DeleteRequest, ListRequest, Drop, Goto, Moves
  <2> QED
    BY <2>1, <2>2, <2>3
<1>13. ASSUME NEW t \in Threads, Reply(t)
      PROVE  Alone'
  <2>0. /\ pc[t] \in {"reply", "raised"} /\ pc'[t] \in {"idle"}
        /\ \A u \in Threads \ {t} : pc'[u] = pc[u] /\ req'[u] = req[u] /\ mem'[u] = mem[u]
        /\ ~crossed' => ~crossed /\ \A u \in Threads \ {t} : pc[u] = "idle" /\ mem[u] = {}
    BY <1>13 DEF Shape, Reply, Goto, Moves, Holds
  <2>1. OneAtATime'
    BY <2>0 DEF OneAtATime
  <2>2. DeletionFinal'
    <3>1. mem'[t] = {} /\ UNCHANGED <<file, plot, clock, gone>>
      BY <1>13 DEF Reply, Holds, Shape
    <3>2. \A u \in Threads : IsPost(u)' => u # t /\ IsPost(u)
      BY <2>0 DEF IsPost
    <3>3. QED
      BY <2>0, <3>1, <3>2 DEF DeletionFinal
  <2>3. PostHeld'
    BY <1>13, <2>0 DEF PostHeld, Posted, IsPost, Shape, Adding, Removing, Listing, PostRequest, DeleteRequest, ListRequest, Reply, Goto, Moves, Holds
  <2> QED
    BY <2>1, <2>2, <2>3
<1>14. CASE Tick
  <2>1. OneAtATime'
    BY <1>14 DEF OneAtATime, Tick
  <2>2. DeletionFinal'
    BY <1>14 DEF DeletionFinal, IsPost, Tick
  <2>3. PostHeld'
    <3>1. /\ clock' = clock + 1 /\ clock \in Nat
          /\ UNCHANGED <<file, pc, req, mem, crossed>>
      BY <1>14, ManualElsetsAssumption DEF Tick, Shape
    <3>2. \A t \in Threads : IsPost(t) => req[t].expires \in Nat
      BY DEF IsPost, PostRequest
    <3>3. \A t \in Threads : IsPost(t) /\ req[t].expires <= clock => req[t].expires <= clock'
      BY <3>1, <3>2
    <3>4. QED
      BY <3>1, <3>3 DEF PostHeld, Posted, IsPost
  <2> QED
    BY <2>1, <2>2, <2>3
<1>15. CASE UNCHANGED vars
  <2>1. OneAtATime'
    BY <1>15 DEF OneAtATime, vars
  <2>2. DeletionFinal'
    BY <1>15 DEF DeletionFinal, IsPost, vars
  <2>3. PostHeld'
    BY <1>15 DEF PostHeld, Posted, IsPost, Shape, vars
  <2> QED
    BY <2>1, <2>2, <2>3
<1>16. ASSUME NEW t \in Threads, Fails(t)
      PROVE  Alone'
  <2>0. /\ pc[t] \in Steps \ {"idle", "reply", "raised"}
        /\ pc' = [pc EXCEPT ![t] = pc'[t]] /\ pc'[t] \in {"reply", "raised"}
        /\ crossed' = (crossed \/ \E u \in Threads \ {t} : pc[u] # "idle")
        /\ file' \in {file, {}} /\ plot' \in {plot, [o \in Ids |-> {}]}
        /\ UNCHANGED <<clock, req, mem, gone>>
    <3>1. PICK step \in Steps \ {"idle", "reply", "raised"} :
                 /\ Moves(t, step, IF step \in Fetches /\ req[t].kind = "post"
                                    THEN "reply" ELSE "raised")
                 /\ file' \in {file} \cup {{} : s \in {step} \cap Saves}
                 /\ plot' \in {plot} \cup {[o \in Ids |-> {}] :
                                           s \in {step} \cap {"merge", "drop"}}
      BY <1>16 DEF Fails
    <3>2. pc' = [pc EXCEPT ![t] = "reply"] \/ pc' = [pc EXCEPT ![t] = "raised"]
      BY <3>1 DEF Moves
    <3>3. QED
      BY <1>16, <3>1, <3>2 DEF Fails, Moves, Shape
  <2>1. \A u \in Threads \ {t} : pc'[u] = pc[u]
    BY <2>0 DEF Shape
  <2>2. ~crossed' => ~crossed /\ \A u \in Threads \ {t} : pc[u] = "idle"
    BY <2>0
  <2>3. OneAtATime'
    BY <2>0, <2>1, <2>2 DEF OneAtATime
  <2>4. \A o \in gone : plot[o] = {} => plot'[o] = {}
    BY <2>0 DEF Shape
  <2>5. \A u \in Threads : IsPost(u)' => IsPost(u)
    BY <2>0, <2>1 DEF IsPost
  <2>6. DeletionFinal'
    BY <2>0, <2>1, <2>2, <2>4, <2>5 DEF DeletionFinal
  <2>7. PostHeld'
    BY <2>0, <2>1, <2>2 DEF PostHeld, IsPost
  <2> QED
    BY <2>3, <2>6, <2>7
<1>17. QED
  BY <1>1, <1>2, <1>3, <1>4, <1>5, <1>6, <1>7, <1>8, <1>9, <1>10, <1>11, <1>12, <1>13, <1>14, <1>15, <1>16 DEF Next, Start, Proceed

LEMMA StepLands == IInv /\ Alone /\ [Next]_vars => [~crossed => PostLands]_vars
<1> SUFFICES ASSUME IInv, Alone, Next, ~crossed,
                    NEW t \in Threads, pc[t] = "merge", pc'[t] = "reply",
                    req[t].kind = "post"
             PROVE  Landed(t)
  BY DEF PostLands, Answers
<1> USE DEF IInv, Alone
<1>1. ASSUME NEW u \in Threads, Start(u) \/ Proceed(u) \/ Fails(u), u # t
      PROVE  FALSE
  <2>1. pc'[t] = pc[t]
    BY <1>1 DEF Start, Proceed, Post, Delete, List, AddLoad, AddSave, ListLoad,
                ListCheck, ListSave, Merge, RemoveLoad, RemoveSave, Drop, Reply,
                Fails, Goto, Moves, Shape
  <2>2. QED
    BY <2>1
<1>2. Start(t) \/ Proceed(t)
  <2>1. ~Fails(t)
    BY DEF Fails, Moves, Fetches, Shape
  <2>2. QED
    BY <1>1, <2>1 DEF Next, Tick
<1>3. Merge(t)
  BY <1>2 DEF Start, Proceed, Post, Delete, List, AddLoad, AddSave, ListLoad,
              ListCheck, ListSave, RemoveLoad, RemoveSave, Drop, Reply, Goto, Moves, Shape
<1>4. req[t] \in PostRequest
  BY DEF Shape, Listing, ListRequest
<1>5. Posted(t) \in mem[t] \/ req[t].expires <= clock
  BY <1>4 DEF PostHeld, IsPost
<1>6. ASSUME Posted(t) \in mem[t]
      PROVE  req[t].epoch \in plot'[req[t].id]
  <2>1. req[t].id \in Ids
    BY <1>4 DEF PostRequest
  <2>2. plot'[req[t].id] =
          plot[req[t].id] \cup {i.epoch : i \in {j \in mem[t] : j.id = req[t].id}}
    BY <1>3, <2>1 DEF Merge
  <2>3. Posted(t).epoch = req[t].epoch /\ Posted(t).id = req[t].id
    BY DEF Posted
  <2>4. QED
    BY <1>6, <2>2, <2>3
<1>7. QED
  BY <1>5, <1>6 DEF Landed

-----------------------------------------------------------------------------
(* The theorems *)

LEMMA Invariance == Spec => [](IInv /\ Alone)
<1>1. Init => IInv /\ Alone
  BY InitIInv, InitAlone
<1>2. (IInv /\ Alone) /\ [Next]_vars => (IInv /\ Alone)'
  BY StepIInv, StepAlone
<1>3. QED
  BY <1>1, <1>2, PTL DEF Spec

\* The requests of manual element sets keep their types: in particular a
\* thread's place in its request and the kind of the request fit.
THEOREM TypeCorrect == Spec => []TypeOK
<1>1. IInv => TypeOK
  <2>1. SUFFICES ASSUME IInv
                 PROVE  \A t \in Threads : req[t] \in Request \cup {NoRequest}
    BY DEF IInv, Shape, TypeOK
  <2>2. PostRequest \cup DeleteRequest \cup ListRequest \subseteq Request
    BY DEF PostRequest, DeleteRequest, ListRequest, Request
  <2>3. ASSUME NEW t \in Threads
        PROVE  req[t] \in Request \cup {NoRequest}
    <3>1. pc[t] \in Steps
      BY <2>1 DEF IInv, Shape
    <3>2. QED
      BY <2>1, <2>2, <3>1 DEF IInv, Shape, Steps, Adding, Removing, Listing
  <2>4. QED
    BY <2>3
<1>2. QED
  BY <1>1, Invariance, PTL

\* However loads and saves of manual.json overlap, it never holds two element
\* sets of one object (sources.py l.437-464).
THEOREM UniqueIdsHolds == Spec => []UniqueIds
<1>1. IInv => UniqueIds
  BY DEF IInv, OneEach, Unique, UniqueIds
<1>2. QED
  BY <1>1, Invariance, PTL

\* A deletion is final as long as requests come one at a time (sources.py
\* l.448-455, main.py l.366-376).
THEOREM DeletionFinalAloneHolds == Spec => []DeletionFinalAlone
<1>1. Alone => DeletionFinalAlone
  BY DEF Alone, DeletionFinal, DeletionFinalAlone, DeletedStaysGone
<1>2. QED
  BY <1>1, Invariance, PTL

\* An injection lands, unless it expires on the way, as long as requests come
\* one at a time (main.py l.340-363, refresh.py l.100-116).
THEOREM AddLandsAloneHolds == Spec => AddLandsAlone
<1>1. (IInv /\ Alone) /\ [Next]_vars => [~crossed => PostLands]_vars
  BY StepLands
<1>2. QED
  BY <1>1, Invariance, PTL DEF Spec, AddLandsAlone

=============================================================================
