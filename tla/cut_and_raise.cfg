SPECIFICATION Spec
CONSTANTS
  NumLots = 2
  Nodes <- MCNodes
  Ghost <- MCGhost
  InitialCapacity <- MCInitialCapacity
  RoadPath <- MCRoadPath
  HourInputs <- MCHourInputs
  CapInputs <- MCCapInputs
  HoursPerDay = 2
  CurHour = 1
  MayRestart = FALSE
  MaxGranted = 3
PROPERTY ConfirmedOnlyWhenFree
