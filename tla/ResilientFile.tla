--------------------------- MODULE ResilientFile ---------------------------
(***************************************************************************)
(* psirens.store.resilient_write, step by step, with the readers that open *)
(* the same path (Store.load, ManualElsetSource._load, HrrStore).          *)
(*                                                                         *)
(* A writer fills a temporary file in the same directory and renames it    *)
(* over the path.  On a volume that refuses rename it truncates the path   *)
(* and writes the text in place.  An open file follows the inode: a reader *)
(* that opened the path before a rename goes on reading the old text,      *)
(* whereas an in-place write changes the file under it.                    *)
(***************************************************************************)
EXTENDS Naturals, FiniteSets

CONSTANTS
  Writers, Readers, Texts,
  Faulty,      \* system calls may fail with another errno
  MaxCrashes   \* bound on crashes of the process

Absent == "absent"    \* no such file
Empty  == "empty"     \* created or truncated, nothing written yet
Torn   == "torn"      \* some bytes, but not one complete text
Unread == "unread"    \* no descriptor open, or nothing read yet
Live   == "live"      \* a descriptor on the inode the path names now
Mixed  == "mixed"     \* the same, written in place since it was opened

ASSUME ResilientFileAssumption ==
  /\ Faulty \in BOOLEAN
  /\ MaxCrashes \in Nat
  /\ Texts \cap {Absent, Empty, Torn, Unread, Live, Mixed} = {}

VARIABLES
  renames,  \* the volume implements rename; it never changes
  path,     \* content of the file at the caller's path
  tmp,      \* per writer: content of its temporary file
  text,     \* per writer: the text it was asked to store
  pc,       \* per writer: where it is in resilient_write
  outcome,  \* per writer: how its latest call stands
  fd,       \* per reader: what its open descriptor refers to
  seen,     \* per reader: what its latest completed read got
  litter,   \* a temporary file was left behind with no writer to remove it
  crashes

vars == <<renames, path, tmp, text, pc, outcome, fd, seen, litter, crashes>>

Steps == {"idle", "fill", "rename", "direct", "cleanup"}
Outcomes == {"none", "pending", "stored", "raised"}

TypeOK ==
  /\ renames \in BOOLEAN
  /\ path \in Texts \cup {Absent, Empty, Torn}
  /\ tmp \in [Writers -> Texts \cup {Absent, Empty}]
  /\ text \in [Writers -> Texts]
  /\ pc \in [Writers -> Steps]
  /\ outcome \in [Writers -> Outcomes]
  /\ fd \in [Readers -> Texts \cup {Unread, Live, Mixed}]
  /\ seen \in [Readers -> Texts \cup {Absent, Empty, Torn, Unread}]
  /\ litter \in BOOLEAN
  /\ crashes \in 0..MaxCrashes

Init ==
  /\ renames \in BOOLEAN
  /\ path \in Texts \cup {Absent}
  /\ tmp = [w \in Writers |-> Absent]
  /\ text \in [Writers -> Texts]
  /\ pc = [w \in Writers |-> "idle"]
  /\ outcome = [w \in Writers |-> "none"]
  /\ fd = [r \in Readers |-> Unread]
  /\ seen = [r \in Readers |-> Unread]
  /\ litter = FALSE
  /\ crashes = 0

-----------------------------------------------------------------------------
(* Writers.  Goto(w, s) moves w's program counter, Ends(w, how) records the *)
(* result the caller will see once the finally clause has run.              *)

Goto(w, s) == pc' = [pc EXCEPT ![w] = s]
Ends(w, how) == outcome' = [outcome EXCEPT ![w] = how]

\* makedirs and mkstemp: an empty temporary file with a name of its own.
CreateTmp(w, t) ==
  /\ pc[w] = "idle"
  /\ text' = [text EXCEPT ![w] = t]
  /\ tmp' = [tmp EXCEPT ![w] = Empty]
  /\ Ends(w, "pending")
  /\ Goto(w, "fill")
  /\ UNCHANGED <<path, fd, seen, litter, crashes>>

\* Slip: the temporary file is left half written.
FillTmpPartly(w) ==
  /\ pc[w] = "fill"
  /\ tmp' = [tmp EXCEPT ![w] = Torn]
  /\ Goto(w, "rename")
  /\ UNCHANGED <<path, text, outcome, fd, seen, litter, crashes>>

FillTmp(w) ==
  /\ pc[w] = "fill"
  /\ tmp' = [tmp EXCEPT ![w] = text[w]]
  /\ Goto(w, "rename")
  /\ UNCHANGED <<path, text, outcome, fd, seen, litter, crashes>>

\* Slip: the temporary file is copied over the path, not renamed.
CopyOver == fd' = [r \in Readers |-> IF fd[r] = Live THEN Mixed ELSE fd[r]]

\* A rename leaves the readers of the old inode with the old text; a write in
\* place changes it under them, and what they get may mix the two.
KeepOldInode == fd' = [r \in Readers |-> IF fd[r] = Live THEN path ELSE fd[r]]
ChangeInPlace == fd' = [r \in Readers |-> IF fd[r] = Live THEN Mixed ELSE fd[r]]

\* os.replace: the path names the temporary file's inode from here on.
Replace(w) ==
  /\ pc[w] = "rename"
  /\ renames
  /\ path' = tmp[w]
  /\ tmp' = [tmp EXCEPT ![w] = Absent]
  /\ KeepOldInode
  /\ Ends(w, "stored")
  /\ Goto(w, "cleanup")
  /\ UNCHANGED <<text, seen, litter, crashes>>

\* An errno outside _NO_RENAME (or a failed open or write of a file that is
\* not the caller's) propagates; the path has not been touched.
RaiseUntouched(w) ==
  /\ Faulty
  /\ pc[w] \in {"fill", "rename"}
  /\ Ends(w, "raised")
  /\ Goto(w, "cleanup")
  /\ UNCHANGED <<path, tmp, text, fd, seen, litter, crashes>>

\* Slip: the fallback is taken on every errno.
FallBackAlways(w) ==
  /\ pc[w] = "rename"
  /\ path' = Empty
  /\ ChangeInPlace
  /\ Goto(w, "direct")
  /\ UNCHANGED <<tmp, text, outcome, seen, litter, crashes>>

\* os.replace refused with an errno in _NO_RENAME: open(path, "w") truncates.
FallBack(w) ==
  /\ pc[w] = "rename"
  /\ ~renames
  /\ path' = Empty
  /\ ChangeInPlace
  /\ Goto(w, "direct")
  /\ UNCHANGED <<tmp, text, outcome, seen, litter, crashes>>

\* The in-place write ends.  When another writer wrote to the file since this
\* one truncated it, bytes of the other may be left behind this text.
WriteDirect(w) ==
  /\ pc[w] = "direct"
  /\ \/ path' = text[w]
     \/ path # Empty /\ path' = Torn
  /\ ChangeInPlace
  /\ Ends(w, "stored")
  /\ Goto(w, "cleanup")
  /\ UNCHANGED <<tmp, text, seen, litter, crashes>>

\* Slip: the failure of the in-place write is swallowed.
SwallowTorn(w) ==
  /\ Faulty
  /\ pc[w] = "direct"
  /\ path' = Torn
  /\ ChangeInPlace
  /\ Ends(w, "stored")
  /\ Goto(w, "cleanup")
  /\ UNCHANGED <<tmp, text, seen, litter, crashes>>

\* The in-place write fails half way (a full volume): what is there stays.
RaiseTorn(w) ==
  /\ Faulty
  /\ pc[w] = "direct"
  /\ path' = Torn
  /\ ChangeInPlace
  /\ Ends(w, "raised")
  /\ Goto(w, "cleanup")
  /\ UNCHANGED <<tmp, text, seen, litter, crashes>>

\* Slip: no finally clause.
NoCleanup(w) ==
  /\ pc[w] = "cleanup"
  /\ Goto(w, "idle")
  /\ UNCHANGED <<path, tmp, text, outcome, fd, seen, litter, crashes>>

\* The finally clause: os.remove(tmp), whose own OSError is ignored.
Cleanup(w) ==
  /\ pc[w] = "cleanup"
  /\ tmp' = [tmp EXCEPT ![w] = Absent]
  /\ litter' \in IF Faulty /\ tmp[w] # Absent THEN {litter, TRUE} ELSE {litter}
  /\ Goto(w, "idle")
  /\ UNCHANGED <<path, text, outcome, fd, seen, crashes>>

-----------------------------------------------------------------------------
(* Readers: open, then read to the end.  A missing file and a text that    *)
(* does not parse both give the caller its empty default; seen keeps the   *)
(* two apart.                                                              *)

OpenPath(r) ==
  /\ fd[r] = Unread
  /\ IF path = Absent
       THEN /\ seen' = [seen EXCEPT ![r] = Absent]
            /\ UNCHANGED fd
       ELSE /\ fd' = [fd EXCEPT ![r] = Live]
            /\ UNCHANGED seen
  /\ UNCHANGED <<path, tmp, text, pc, outcome, litter, crashes>>

ReadToEnd(r) ==
  /\ \/ fd[r] \in Texts /\ seen' = [seen EXCEPT ![r] = fd[r]]
     \/ fd[r] \in {Live, Mixed} /\ seen' = [seen EXCEPT ![r] = path]
     \/ fd[r] = Mixed /\ seen' = [seen EXCEPT ![r] = Torn]
  /\ fd' = [fd EXCEPT ![r] = Unread]
  /\ UNCHANGED <<path, tmp, text, pc, outcome, litter, crashes>>

-----------------------------------------------------------------------------
(* The container is killed and started again: the volume keeps its files,  *)
(* every thread is gone.                                                    *)

Crash ==
  /\ crashes < MaxCrashes
  /\ crashes' = crashes + 1
  /\ litter' = (litter \/ \E w \in Writers : tmp[w] # Absent)
  /\ tmp' = [w \in Writers |-> Absent]
  /\ pc' = [w \in Writers |-> "idle"]
  /\ outcome' = [w \in Writers |-> "none"]
  /\ fd' = [r \in Readers |-> Unread]
  /\ seen' = [r \in Readers |-> Unread]
  /\ UNCHANGED <<path, text>>

Write(w) ==
  \/ \E t \in Texts : CreateTmp(w, t)
  \/ FillTmp(w)
  \/ Replace(w)
  \/ RaiseUntouched(w)
  \/ FallBack(w)
  \/ WriteDirect(w)
  \/ RaiseTorn(w)
  \/ Cleanup(w)

Next ==
  /\ \/ \E w \in Writers : Write(w)
     \/ \E r \in Readers : OpenPath(r) \/ ReadToEnd(r)
     \/ Crash
  /\ UNCHANGED renames

Spec == Init /\ [][Next]_vars

-----------------------------------------------------------------------------
(* Properties *)

\* With rename, the file at the path is at every instant absent or one
\* complete text: no crash, failed call or second writer leaves it torn
\* (store.py l.4, "atomic writes (temp file then rename ...)").
NeverTorn == renames => path \notin {Empty, Torn}

\* A call that is over has removed its temporary file, whether it succeeded,
\* fell back or raised; only a crash or a failing os.remove leaves one behind
\* (store.py l.56-60).
NoLitter ==
  /\ \A w \in Writers : pc[w] = "idle" => tmp[w] = Absent
  /\ (~Faulty /\ crashes = 0) => ~litter

\* A caller that was told its write succeeded finds a complete text at the
\* path from then on when the volume renames, and its own, whatever the volume,
\* while no other writer was called: a torn file is always the trace of a call
\* that raised, of a crash or of two writers in place, never of one success
\* (store.py l.33-60; the callers answer the operator on that return).
StoredStays == \A w \in Writers : outcome[w] = "stored" =>
  /\ renames => path \in Texts
  /\ (\A x \in Writers \ {w} : outcome[x] = "none") => path = text[w]

\* What a reader has read, or will read from the inode it holds.
Reading(r) == CASE fd[r] = Unread -> seen[r]
                [] fd[r] = Live -> path
                [] OTHER -> fd[r]

Promise == INSTANCE AtomicFile
             WITH content <- path, seen <- [r \in Readers |-> Reading(r)]

\* With rename, resilient_write and its readers implement the atomic file.
ImplementsAtomicFile ==
  /\ renames => Promise!Init
  /\ [][renames => Promise!Next]_(Promise!vars)

=============================================================================
