------------------------------ MODULE HrrList ------------------------------
(***************************************************************************)
(* psirens.hrr without its store: what a notification of the high-interest  *)
(* list says, and what the list says of an object.  A satellite row is a    *)
(* record whose fields were found under any of the names the parser knows;  *)
(* NoText and NoRank stand for one that is missing, empty or unusable.      *)
(***************************************************************************)
EXTENDS Integers

CONSTANTS
  Regime,  \* hrr_regime, in upper case
  Red,     \* affiliation_red: country codes, upper-cased
  Blue     \* affiliation_blue

NoText == ""
NoRank == -1

\* The body may be a list, a text of one, or an envelope: what cannot be read
\* as any of them has no rows.
AsSatList(rec) == IF rec.readable THEN rec.rows ELSE {}

Listed(row) == row.id # NoText /\ row.regime = Regime

\* An unnamed satellite is named after its number.
SatEntry(row) ==
  [name |-> IF row.name = NoText THEN row.id ELSE row.name,
   country |-> row.country,
   rank |-> row.rank]

MapFromRecord(rec) ==
  LET rows == {row \in AsSatList(rec) : Listed(row)}
  IN [o \in {row.id : row \in rows} |-> SatEntry(CHOOSE row \in rows : row.id = o)]

Yields(rec) == DOMAIN MapFromRecord(rec) # {}

\* Which of the records, numbered as they were created, the list is taken from:
\* the newest that yields satellites, none when none does.
ParseHrr(recs, window) ==
  {i \in window : Yields(recs[i]) /\ \A j \in window : Yields(recs[j]) => j <= i}

-----------------------------------------------------------------------------

\* HrrStore.names: a name that only repeats the number is no name.
Names(list) ==
  [o \in DOMAIN list |-> IF list[o].name = o THEN NoText ELSE list[o].name]

AffiliationOf(country) ==
  IF country = NoText THEN "UNKNOWN"
  ELSE IF country \in Red THEN "RED"
  ELSE IF country \in Blue THEN "BLUE"
  ELSE "OTHER"

=============================================================================
