--------------------------- MODULE MCResilientFile ---------------------------
(* Small instances of ResilientFile: threads and texts are interchangeable. *)
EXTENDS ResilientFile, TLC

Symmetry == Permutations(Writers) \cup Permutations(Readers) \cup Permutations(Texts)
=============================================================================
