SPECIFICATION FairSpec
CONSTANTS
  t1 = t1
  t2 = t2
  NoRequest = NoRequest
  Threads = {t1, t2}
  Routes <- OperatorAndReaders
  Ids = {a, b}
  Epochs = {1}
  Ttls = {1}
  MaxTime = 2
  MaxFaults = 1
INVARIANTS TypeOK UniqueIds DeletionFinalAlone
PROPERTIES AddLandsAlone ExpiredForgotten
