SPECIFICATION Spec
CONSTANTS
  Writers = {w1, w2}
  Readers = {r1}
  Texts = {t1, t2}
  Faulty = TRUE
  MaxCrashes = 2
SYMMETRY Symmetry
INVARIANTS TypeOK NeverTorn NoLitter StoredStays
PROPERTY ImplementsAtomicFile
