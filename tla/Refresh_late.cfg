SPECIFICATION Spec
CONSTANTS
  a = a
  b = b
  p = p
  v = v
  None = None
  Ids = {a, b}
  Providers = {p}
  Vals = {v}
  MaxSamples = 2
  Retention = 0
  Scheduler = sched
  Operators = {}
  Sources = 1
  Answers <- Steady
  Lists <- EitherList
  Snapshot <- OnlyB
  MaxLate = 1
  Windows <- Early
  Injections <- NoInjections
  UdlEnabled = TRUE
  HrrPeriod = 2
  StoreFails = FALSE
  StartTime = 1
  MaxTime = 1
PROPERTY PrunedByPulledList
