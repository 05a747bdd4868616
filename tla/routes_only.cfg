SPECIFICATION Spec
CONSTANTS
  Workers = {w1, w2}
  NumLots = 2
  FirstPlaces = 2
  OtherPlaces = 1
  Nodes <- MCNodes
  Ghost <- MCGhost
  InitialCapacity <- MCInitialCapacity
  RoadPath <- MCRoadPath
  HourInputs <- MCHourInputs
  CapInputs <- NoCapInputs
  HoursPerDay = 2
  MaxRequests = 3
INVARIANTS EveryTakenPlaceIsBooked LedgerExactUnlessRaced
CHECK_DEADLOCK FALSE
