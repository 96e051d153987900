------------------------------ MODULE MCRefresh ------------------------------
(* Small instances of Refresh.  An object a is offered as a real one, or as a *)
(* simulated one with an older fix and a newer; two lists, of which only one  *)
(* holds it; an injection offers it too.  With a cap of one, newer fixes      *)
(* crowd older ones out.  A fetch may also raise, or fail in part.             *)
EXTENDS Refresh

CONSTANTS a, b, p, v

Rec(mode, epochs) ==
  [mode |-> mode, origin |-> "UDL", elset |-> None,
   candidates |-> [x \in Providers |-> None],
   samples |-> [i \in DOMAIN epochs |-> [epoch |-> epochs[i], val |-> v]]]

Answered(pull) == [pull |-> pull, requests |-> 1, failures |-> 0, raised |-> FALSE]

Real == Answered([o \in {a} |-> Rec("REAL", <<1>>)])
Simulated == Answered([o \in {a} |-> Rec("SIMULATED", <<1, 3>>)])
Partial == [Real EXCEPT !.requests = 2, !.failures = 1]
Broken == [Answered([o \in {} |-> NoObject]) EXCEPT !.raised = TRUE]

Crowd == <<{Real, Simulated}>>
Fickle == <<{Broken, Partial}>>
Steady == <<{Real}>>

EitherList == {{a}, {b}}
Both == {{a, b}}
OnlyB == {b}
AandB == {a, b}

Early == {[start |-> 0, end |-> 1]}

NoInjections == {}
NewFix == {[o \in {a} |-> Rec("REAL", <<2>>)]}
=============================================================================
