-------------------------------- MODULE Tle --------------------------------
(***************************************************************************)
(* psirens.tle, with tle_for of psirens.conjunction and the retention that  *)
(* feeds it: which of the fixes that were merged since an object was last   *)
(* put in the store is published for it, and as which lines.  A fix is a    *)
(* record; NoFix stands for none.                                           *)
(***************************************************************************)
EXTENDS Ordered, FiniteSetsExt

CONSTANTS
  Government, \* the names of sources in which a government marker occurs
  Commercial  \* and those in which a commercial marker occurs

Classes == {"commercial", "government", "unknown"}
DefaultPriority == <<"commercial", "government", "unknown">>

\* Slip: commercial markers are tested first.
ClassifyCommercialFirst(source) ==
  IF source \in Commercial THEN "commercial"
  ELSE IF source \in Government THEN "government"
  ELSE "unknown"

\* A name with markers of both kinds is a government feed on somebody's relay.
ClassifySource(source) ==
  IF source \in Government THEN "government"
  ELSE IF source \in Commercial THEN "commercial"
  ELSE "unknown"

\* The words of TLE_SOURCE_PRIORITY; no word known means the default order.
ParsePriority(words) ==
  LET kept == RowsAt(words, {i \in DOMAIN words : words[i] \in Classes})
  IN IF words = <<"any">> THEN <<>>
     ELSE IF kept = <<>> THEN DefaultPriority
     ELSE kept

-----------------------------------------------------------------------------
(* Native lines.  A line is [mark, sound, number]: the digit it starts with, *)
(* whether it has its 69 columns and the last is the checksum of the others, *)
(* and the number that its catalogue field is decoded to.                    *)

NoNumber == -1

Line == [mark : {"1", "2", "other"}, sound : BOOLEAN, number : Nat \cup {NoNumber}]

ShapeOk(line, mark) == line.sound /\ line.mark = mark

\* number is NoNumber for a record whose id is no catalogue number.
ValidateNative(lines, number) ==
  /\ Len(lines) = 2
  /\ ShapeOk(lines[1], "1") /\ ShapeOk(lines[2], "2")
  /\ LET claimed == lines[1].number
     IN /\ claimed # NoNumber /\ claimed = lines[2].number
        /\ number = NoNumber \/ number = claimed

\* A marking is the sequence of its parts.
IsCopyable(marking) == Len(marking) = 1 /\ marking[1] \in {"U", "UNCLASSIFIED"}

-----------------------------------------------------------------------------
(* Retention (_record_elset, _retain_elset, _retain_candidates): of the      *)
(* fixes merged so far, in that order, an object keeps the newest of all,    *)
(* and of each provider that names candidates; manual fixes name none.       *)

Fix == [epoch : Int, source : STRING, usable : BOOLEAN, candidate : BOOLEAN,
        lines : Seq(Line), marking : Seq(STRING)]

NoFix == [epoch |-> 0, source |-> "", usable |-> FALSE, candidate |-> FALSE,
          lines |-> <<>>, marking |-> <<"U">>]

\* The fix in place j is kept rather than the one in place i.
Replaces(fixes, j, i) ==
  fixes[j].epoch > fixes[i].epoch \/ (fixes[j].epoch = fixes[i].epoch /\ j > i)

LastNewest(fixes, places) ==
  IF places = {} THEN NoFix
  ELSE fixes[CHOOSE i \in places : \A j \in places : ~Replaces(fixes, j, i)]

Retained(fixes) ==
  LET offered == {i \in DOMAIN fixes : fixes[i].candidate}
  IN [elset |-> LastNewest(fixes, DOMAIN fixes),
      candidates |-> {LastNewest(fixes, {i \in offered : fixes[i].source = s}) :
                        s \in {fixes[i].source : i \in offered}}]

NewestFix(held) ==
  IF held = {} THEN NoFix
  ELSE CHOOSE el \in held : \A x \in held : x.epoch <= el.epoch

\* What can be propagated; the overall newest only when no candidate can.
CandidatesOf(obj) ==
  LET usable == {el \in obj.candidates : el.usable}
  IN IF usable # {} THEN usable ELSE {el \in {obj.elset} : el.usable}

SelectElset(obj, priority) ==
  LET held == CandidatesOf(obj)
      of(cls) == {el \in held : ClassifySource(el.source) = cls}
      ranks == {i \in DOMAIN priority : of(priority[i]) # {}}
  IN NewestFix(IF ranks = {} THEN held ELSE of(priority[Min(ranks)]))

Provenance(el, native) ==
  [class |-> ClassifySource(el.source), epoch |-> el.epoch, native |-> native,
   copyable |-> IsCopyable(el.marking)]

\* The element set that is screened, and whether its own lines are served or
\* lines rebuilt from it.
TleFor(obj, number, priority) ==
  LET el == SelectElset(obj, priority)
      native == ValidateNative(el.lines, number)
  IN [elset |-> el, native |-> native, provenance |-> Provenance(el, native)]

=============================================================================
