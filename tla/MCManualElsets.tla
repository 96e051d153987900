--------------------------- MODULE MCManualElsets ---------------------------
(* Small instances of ManualElsets: which thread serves which requests. *)
EXTENDS ManualElsets

CONSTANTS t1, t2

OperatorAndReaders ==
  [t \in Threads |-> IF t = t1 THEN {"post", "delete"} ELSE {"meta", "refresh"}]
PostAndRefresh == [t \in Threads |-> IF t = t1 THEN {"post"} ELSE {"refresh"}]
OperatorAndRefresh ==
  [t \in Threads |-> IF t = t1 THEN {"post", "delete"} ELSE {"refresh"}]
=============================================================================
