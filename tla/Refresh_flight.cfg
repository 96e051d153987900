SPECIFICATION Spec
CONSTANTS
  a = a
  b = b
  p = p
  v = v
  None = None
  Ids = {a, b}
  Providers = {p}
  Vals = {v}
  MaxSamples = 1
  Retention = 0
  Scheduler = sched
  Operators = {op1}
  Sources = 1
  Answers <- Crowd
  Lists <- EitherList
  Snapshot <- OnlyB
  MaxLate = 1
  Windows <- Early
  Injections <- NewFix
  UdlEnabled = TRUE
  HrrPeriod = 2
  StoreFails = TRUE
  StartTime = 2
  MaxTime = 2
INVARIANTS TypeOK OneFlight 
