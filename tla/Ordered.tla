------------------------------ MODULE Ordered ------------------------------
(***************************************************************************)
(* What Python's sorted and its list comprehensions come to.                *)
(***************************************************************************)
EXTENDS Integers, SequencesExt

\* The members of a set, none after one that it is before; members of which
\* neither is before the other come in some order.
InOrder(S, before(_, _)) ==
  CHOOSE seq \in SetToSeqs(S) :
    \A i, j \in DOMAIN seq : i < j => ~before(seq[j], seq[i])

Ascending(numbers) == InOrder(numbers, <)

\* The rows of a sequence that stand in certain places, in their order.
RowsAt(rows, places) ==
  [i \in 1..Cardinality(places) |-> rows[Ascending(places)[i]]]

=============================================================================
