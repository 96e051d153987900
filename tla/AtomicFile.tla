----------------------------- MODULE AtomicFile -----------------------------
(***************************************************************************)
(* What psirens.store.resilient_write promises its callers: a file whose   *)
(* content is only ever replaced whole.  A write commits a complete text   *)
(* or leaves the old one in place and raises; a reader gets the complete   *)
(* text that the file held at one instant of its read; a crash of the      *)
(* process loses calls, never the content.                                 *)
(***************************************************************************)

CONSTANTS
  Writers,      \* threads that write the file
  Readers,      \* threads that read it
  Texts         \* the complete texts a caller may want stored

Absent == "absent"    \* the file does not exist yet
Unread == "unread"    \* a reader that has read nothing since it started

VARIABLES
  content,      \* what the file holds
  outcome,      \* per writer: how its latest write stands
  seen          \* per reader: what its latest read got

vars == <<content, outcome, seen>>

Outcomes == {"none", "pending", "stored", "raised"}

TypeOK ==
  /\ content \in Texts \cup {Absent}
  /\ outcome \in [Writers -> Outcomes]
  /\ seen \in [Readers -> Texts \cup {Absent, Unread}]

Init ==
  /\ content \in Texts \cup {Absent}
  /\ outcome = [w \in Writers |-> "none"]
  /\ seen = [r \in Readers |-> Unread]

Call(w) ==
  /\ outcome[w] # "pending"
  /\ outcome' = [outcome EXCEPT ![w] = "pending"]
  /\ UNCHANGED <<content, seen>>

Commit(w) ==
  /\ outcome[w] = "pending"
  /\ content' \in Texts
  /\ outcome' = [outcome EXCEPT ![w] = "stored"]
  /\ UNCHANGED seen

Abort(w) ==
  /\ outcome[w] = "pending"
  /\ outcome' = [outcome EXCEPT ![w] = "raised"]
  /\ UNCHANGED <<content, seen>>

Read(r) ==
  /\ seen' = [seen EXCEPT ![r] = content]
  /\ UNCHANGED <<content, outcome>>

Crash ==
  /\ outcome' = [w \in Writers |-> "none"]
  /\ seen' = [r \in Readers |-> Unread]
  /\ UNCHANGED content

Next ==
  \/ \E w \in Writers : Call(w) \/ Commit(w) \/ Abort(w)
  \/ \E r \in Readers : Read(r)
  \/ Crash

Spec == Init /\ [][Next]_vars

=============================================================================
