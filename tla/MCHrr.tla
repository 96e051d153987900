------------------------------- MODULE MCHrr -------------------------------
(* A small instance of Hrr: two notifications that both list an object of    *)
(* the regime, the first beside one that is of another regime.              *)
EXTENDS Hrr, TLC

Sat(o, r) == [id |-> o, name |-> "", country |-> "", rank |-> 1, regime |-> r]

TwoPosted ==
  <<[readable |-> TRUE, rows |-> {Sat("a", "GEO"), Sat("b", "LEO")}],
    [readable |-> TRUE, rows |-> {Sat("c", "GEO")}]>>

AnyOrder == Permutations(Threads)
=============================================================================
