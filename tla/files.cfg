SPECIFICATION FairSpec
CONSTANTS
  Workers = {w1, w2}
  NumRows = 3
  InitialCapacity <- MCInitialCapacity
  CapInputs <- MCCapInputs
  MisreadCaps <- MCMisreadCaps
  RowSize <- MCRowSize
  ShippedSize = 2
  LongestRow = 3
  BufferSize = 4
  MaxUpdates = 3
  MaxFaults = 2
INVARIANTS TypeOK EveryNodeOnFile NodesSurvive SavedUnlessDisturbed
PROPERTY SavesEnd
CHECK_DEADLOCK FALSE
