----------------------------- MODULE MCUdlFetch -----------------------------
(* A small instance of UdlFetch.  Two objects, two providers; rows on the    *)
(* border of two slices and of two halves, rows of one object in both halves *)
(* with the newer fix first or last, a crowd of rows that no split tells     *)
(* apart, a row that is skipped and one that raises.                        *)
EXTENDS UdlFetch

CONSTANTS p, q

R(o, e, s, f) == [id |-> o, epoch |-> e, source |-> s, form |-> f]

FewRows ==
  {R("a", 2, p, "usable"), R("a", 4, q, "usable"), R("b", 4, p, "usable"),
   R("a", 5, p, "usable"), R("b", 8, q, "usable"), R("a", 8, p, "skipped"),
   R("b", 9, p, "alien")}

Day == [start |-> 1, end |-> 9]
ShortWindows == {Day, [start |-> 3, end |-> 9]}
=============================================================================
