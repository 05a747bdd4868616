SPECIFICATION Spec
CONSTANTS
  Workers = {w1, w2}
  NumRows = 3
  InitialCapacity <- MCInitialCapacity
  CapInputs <- OneDigitInputs
  MisreadCaps <- MCMisreadCaps
  RowSize <- MCRowSize
  ShippedSize = 2
  LongestRow = 3
  BufferSize = 4
  MaxUpdates = 2
  MaxFaults = 0
INVARIANT SavedWhenQuiet
CHECK_DEADLOCK FALSE
