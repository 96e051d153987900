SPECIFICATION Spec
CONSTANTS
  t1 = t1
  t2 = t2
  NoRequest = NoRequest
  Threads = {t1, t2}
  Routes <- OperatorAndRefresh
  Ids = {a}
  Epochs = {1}
  Ttls = {1}
  MaxTime = 1
  MaxFaults = 0
INVARIANT DeletedStaysGone
