SPECIFICATION FairSpec
CONSTANTS
  Workers = {w1}
  NumLots = 3
  FirstPlaces = 0
  OtherPlaces = 1
  Nodes <- MCNodes
  Ghost <- MCGhost
  InitialCapacity <- MCInitialCapacity
  RoadPath <- MCRoadPath
  HourInputs <- MCHourInputs
  CapInputs <- MCCapInputs
  HoursPerDay = 2
  MaxRequests = 2
PROPERTY ImplementsSequential
CHECK_DEADLOCK FALSE
