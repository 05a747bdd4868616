SPECIFICATION Spec
CONSTANTS
  Workers = {w1, w2}
  NumLots = 2
  FirstPlaces = 1
  OtherPlaces = 1
  Nodes <- MCNodes
  Ghost <- MCGhost
  InitialCapacity <- MCInitialCapacity
  RoadPath <- MCRoadPath
  HourInputs <- MCHourInputs
  CapInputs <- NoCapInputs
  HoursPerDay = 1
  MaxRequests = 3
PROPERTY ConfirmedOnlyWhenFree
CHECK_DEADLOCK FALSE
