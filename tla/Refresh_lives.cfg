SPECIFICATION FairSpec
CONSTANTS
  a = a
  b = b
  p = p
  v = v
  None = None
  Ids = {a, b}
  Providers = {p}
  Vals = {v}
  MaxSamples = 2
  Retention = 1
  Scheduler = sched
  Operators = {op1}
  Sources = 1
  Answers <- Fickle
  Lists <- Both
  Snapshot <- AandB
  MaxLate = 0
  Windows <- Early
  Injections <- NoInjections
  UdlEnabled = TRUE
  HrrPeriod = 1
  StoreFails = TRUE
  StartTime = 0
  MaxTime = 1
PROPERTIES RunsInOrder FlightReleased LoopGoesOn
