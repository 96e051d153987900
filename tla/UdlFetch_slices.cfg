SPECIFICATION Spec
CONSTANTS
  p = p
  q = q
  Rows <- FewRows
  Windows <- ShortWindows
  SliceSpans = {4, 8}
  Providers = {p, q}
  Cap = 3
  Threshold = 2
  MinSlice = 1
  MaxDepth = 3
  MaxFails = 1
  MaxBlanks = 1
  MaxLate = 1
INVARIANTS CompleteOrTold SilenceNeedsLongSlices SlicingUnseen EffortBounded
