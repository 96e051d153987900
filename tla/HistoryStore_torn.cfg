SPECIFICATION Spec
CONSTANTS
  a = a
  b = b
  p = p
  v = v
  w = w
  Ids = {a, b}
  Providers = {p}
  Vals = {v, w}
  None = None
  Free = Free
  Torn = Torn
  NoCall = NoCall
  MaxSamples = 2
  Retention = 2
  Threads = {t1}
  Requests <- OfferedOnce
  Hosts <- KilledInPlace
PROPERTY NeverShrinks
