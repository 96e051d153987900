----------------------------- MODULE Longitudes -----------------------------
(***************************************************************************)
(* Longitudes and the seam (psirens.astro, conjunction and coplanar).       *)
(***************************************************************************)
EXTENDS Integers

CONSTANT Turn \* 360: the degrees of longitude

\* The step that is the shortest way round.
Step(from, to) == ((to - from + Turn \div 2) % Turn) - Turn \div 2

Magnitude(x) == IF x < 0 THEN -x ELSE x

\* Slip: the seam is forgotten.
SepPlain(a, b) == Magnitude(a - b)

\* Shortest separation in longitude.
SepDeg(a, b) == Magnitude(Step(b, a))

=============================================================================
