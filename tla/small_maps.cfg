SPECIFICATION FairSpec
CONSTANTS
  NumLots = 4
  RoadWeights = {0, 1, 3}
  Nodes <- MCNodes
  Ghost <- MCGhost
  RoadFiles <- MCRoadFiles
  Calls <- MCCalls
  DrawnRoads <- MCDrawing
INVARIANTS TypeOK RouteIsWalk RouteIsShortest LabelsCertifyRoute SumsFit
  DrawnRouteIsRoute ReturnIsDrawnAlongTheWayOut
PROPERTIES ExpandedInOrder SearchEnds
CHECK_DEADLOCK FALSE
