SPECIFICATION FairSpec
CONSTANTS
  Workers = {w1, w2}
  NumLots = 2
  FirstPlaces = 0
  OtherPlaces = 1
  Nodes <- MCNodes
  Ghost <- MCGhost
  InitialCapacity <- MCInitialCapacity
  RoadPath <- MCRoadPath
  HourInputs <- MCHourInputs
  CapInputs <- MCCapInputs
  HoursPerDay = 1
  MaxRequests = 3
INVARIANTS TypeOK NoInventedPlaces LedgerExactUnlessRaced BookedWithinPlacesUnlessRaced DriverReachesPlace
PROPERTY EveryRequestAnswered
CHECK_DEADLOCK FALSE
