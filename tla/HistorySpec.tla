---------------------------- MODULE HistorySpec ----------------------------
(***************************************************************************)
(* What Store promises the threads that share it: each call takes effect   *)
(* on the whole history at one instant between its start and its return,   *)
(* or raises and leaves the history as it was.  Killing the process loses  *)
(* the calls in progress and nothing that a finished call stored.          *)
(***************************************************************************)
CONSTANTS
  EmptyHistory,  \* the history of a new volume
  After(_, _),   \* the history that a call makes of a history
  Result(_, _),  \* and what it returns
  Threads,
  Requests,      \* the calls that threads make
  NoCall         \* a thread outside the store

Idle == <<"idle">>
Pending == <<"pending">>
Raised == <<"raised">>

VARIABLES history, call, answer

vars == <<history, call, answer>>

Init ==
  /\ history = EmptyHistory
  /\ call = [t \in Threads |-> NoCall]
  /\ answer = [t \in Threads |-> Idle]

Invoke(t, c) ==
  /\ answer[t] = Idle
  /\ call' = [call EXCEPT ![t] = c]
  /\ answer' = [answer EXCEPT ![t] = Pending]
  /\ UNCHANGED history

Perform(t) ==
  /\ answer[t] = Pending
  /\ history' = After(history, call[t])
  /\ answer' = [answer EXCEPT ![t] = Result(history, call[t])]
  /\ UNCHANGED call

Fail(t) ==
  /\ answer[t] = Pending
  /\ answer' = [answer EXCEPT ![t] = Raised]
  /\ UNCHANGED <<history, call>>

Return(t) ==
  /\ answer[t] \notin {Idle, Pending}
  /\ call' = [call EXCEPT ![t] = NoCall]
  /\ answer' = [answer EXCEPT ![t] = Idle]
  /\ UNCHANGED history

Crash ==
  /\ call' = [t \in Threads |-> NoCall]
  /\ answer' = [t \in Threads |-> Idle]
  /\ UNCHANGED history

Next ==
  \/ \E t \in Threads, c \in Requests : Invoke(t, c)
  \/ \E t \in Threads : Perform(t) \/ Fail(t) \/ Return(t)
  \/ Crash

Spec == Init /\ [][Next]_vars

=============================================================================
