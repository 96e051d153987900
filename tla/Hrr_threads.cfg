SYMMETRY AnyOrder
SPECIFICATION Spec
CONSTANTS
  Threads = {t1, t2}
  Posted <- TwoPosted
  MaxFails = 1
  MaxCrashes = 1
  Regime = "GEO"
  Red = {"r"}
  Blue = {"b"}
INVARIANTS TypeOK NeverEmpty FreshStays WholePayload LastKnownGood
PROPERTIES SavedForward
