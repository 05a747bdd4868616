SPECIFICATION Spec
CONSTANTS
  Nodes <- MCNodes
  Ghost <- MCGhost
  InitialCapacity <- MCInitialCapacity
  RoadPath <- MCRoadPath
  Searches <- MCSearches
  Changes <- MCChanges
  HoursPerDay = 1
  MaxClicks = 4
  MaxLost = 1
INVARIANTS TypeOK EachLotMarkedOnce LinesOfOneAnswer TakenPlacesAnnounced MarkersFresh
CHECK_DEADLOCK FALSE
