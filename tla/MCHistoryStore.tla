--------------------------- MODULE MCHistoryStore ---------------------------
(* Small instances of HistoryStore.  Two objects and one provider; the      *)
(* pulls overlap in epochs, disagree in the fix of an epoch, list it twice,  *)
(* are not in epoch order, reach the cap of samples inside the window, and   *)
(* one offers only samples that are already too old.                        *)
EXTENDS HistoryStore

CONSTANTS a, b, p, v, w

Rec(mode, samples, newest) ==
  [mode |-> mode, origin |-> "UDL", elset |-> newest,
   candidates |-> [x \in Providers |-> newest], samples |-> samples]

F(e, x) == [epoch |-> e, val |-> x]

Merging(pull, now) == [kind |-> "merge", pull |-> pull, now |-> now]

Early == Merging([o \in {a} |-> Rec("REAL", <<F(2, v), F(1, v), F(1, w)>>, F(2, v))], 2)
Late == Merging([o \in {a, b} |->
                   IF o = a THEN Rec("REAL", <<F(3, v), F(2, w)>>, F(3, v))
                            ELSE Rec("SIMULATED", <<F(3, w)>>, F(3, w))], 3)
Partial == Merging([o \in {b} |-> Rec(None, <<F(4, v)>>, None)], 4)
TooOld == Merging([o \in {b} |-> Rec("REAL", <<F(1, w)>>, F(1, w))], 4)

SmallRequests ==
  {Early, Late, Partial, TooOld,
   [kind |-> "retain", keep |-> {b}], [kind |-> "retain", keep |-> {}],
   [kind |-> "remove", id |-> a], [kind |-> "load"]}

\* A volume with rename under faults and a crash, and one without under none.
AllHosts == {[renames |-> TRUE, faulty |-> TRUE, crashes |-> 1],
             [renames |-> FALSE, faulty |-> FALSE, crashes |-> 0]}

\* A volume without rename on which the process is killed once.
KilledInPlace == {[renames |-> FALSE, faulty |-> FALSE, crashes |-> 1]}

\* Object a is offered once; later pulls offer only b.
Later == Merging([o \in {b} |-> Rec("SIMULATED", <<F(4, v)>>, F(4, v))], 5)
OfferedOnce == {Early, Later}

=============================================================================
