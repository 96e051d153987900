SYMMETRY AnyOrder
SPECIFICATION Spec
CONSTANTS
  Threads = {t1, t2}
  Limit <- Limits
  Period = 2
  MaxTime = 2
  Queries <- AllQueries
  Turn = 12
  Coarse = 2
  FitWindow = 5
  MinSpan = 3
  MaxHours = 4
  Government = {"JCO", "JCO by EXO"}
  Commercial = {"EXO", "KBR", "JCO by EXO"}
  Regime = "GEO"
  Red = {"r"}
  Blue = {"b"}
INVARIANTS TypeOK AdmittedBounded  ClosestShown  DriftHonest
