----------------------------- MODULE Screening -----------------------------
(***************************************************************************)
(* psirens.conjunction and psirens.coplanar: which neighbours of an object  *)
(* are shown, in which order, and the closest approach to each.  Propagated *)
(* geometry comes from outside: ranges and plane angles are data, and       *)
(* NoRange stands for a propagation that failed.                           *)
(***************************************************************************)
EXTENDS Longitudes, Ordered, FiniteSetsExt

CONSTANT Coarse \* coarse_min, in steps of fine_min

NoRange == -1
NoLon == -1000

\* The earliest of the times at which the range is least.
MinOver(range, times) ==
  LET known == {t \in times : range[t] # NoRange}
      least == Min({range[t] : t \in known})
  IN IF known = {} THEN [km |-> NoRange, tca |-> NoRange]
     ELSE [km |-> least, tca |-> Min({t \in known : range[t] = least})]

Refine(range, window, tca) ==
  MinOver(range, {t \in tca - Coarse..tca + Coarse : 0 <= t /\ t <= window})

ClosestApproach(range, window) ==
  LET coarse == MinOver(range, {i * Coarse : i \in 0..window \div Coarse})
      fine == Refine(range, window, coarse.tca)
      best == IF coarse.km # NoRange /\ fine.km < coarse.km THEN fine ELSE coarse
  IN [min |-> best.km, tca |-> best.tca, now |-> range[0]]

-----------------------------------------------------------------------------

\* An object is [lon, plane, elset]: its last longitude or NoLon when it has no
\* sample, whether it has a plane, and whether it has an element set.
InBelt(objects, target, halfWidth) ==
  {o \in DOMAIN objects \ {target} :
     /\ objects[o].lon # NoLon /\ objects[target].lon # NoLon
     /\ SepDeg(objects[o].lon, objects[target].lon) <= halfWidth}

FirstOf(seq, cap) == SubSeq(seq, 1, Min({cap, Len(seq)}))

\* Those whose range could not be computed come last.
NearerNow(x, y) == x # NoRange /\ (y = NoRange \/ x < y)

ConjunctionsFor(objects, target, range, halfWidth, cap) ==
  IF target \notin DOMAIN objects \/ ~objects[target].elset THEN <<>>
  ELSE FirstOf(InOrder({o \in InBelt(objects, target, halfWidth) : objects[o].elset},
                       LAMBDA o, p : NearerNow(range[o], range[p])),
               cap)

\* Nearest plane first, then nearest in longitude.
CoplanarFor(objects, target, angle, halfWidth, cap) ==
  LET diff(o) == SepDeg(objects[o].lon, objects[target].lon)
  IN IF target \notin DOMAIN objects \/ ~objects[target].plane
        \/ objects[target].lon = NoLon THEN <<>>
     ELSE FirstOf(InOrder({o \in InBelt(objects, target, halfWidth) : objects[o].plane},
                          LAMBDA o, p : \/ angle[o] < angle[p]
                                        \/ angle[o] = angle[p] /\ diff(o) < diff(p)),
                  cap)

=============================================================================
