SPECIFICATION Spec
CONSTANTS
  Workers = {w1, w2}
  NumLots = 2
  FirstPlaces = 0
  OtherPlaces = 1
  Nodes <- MCNodes
  Ghost <- MCGhost
  InitialCapacity <- MCInitialCapacity
  RoadPath <- MCRoadPath
  HourInputs <- MCHourInputs
  CapInputs <- MCCapInputs
  HoursPerDay = 1
  MaxRequests = 2
INVARIANT FallbackIsElsewhere
CHECK_DEADLOCK FALSE
