----------------------------- MODULE DehradunMap -----------------------------
(***************************************************************************)
(* The map the service ships with: nodes_list.txt, adjacency_list.txt and  *)
(* the drawing points of buildVisualPaths.  It is here to be held against  *)
(* the assumptions of RoutePlanner and RouteDrawing.                       *)
(***************************************************************************)
EXTENDS RouteDrawing

ShippedNodes == 0 .. 70

ShippedGhost == ShippedNodes \ {
  0, 3, 6, 8, 12, 15, 21, 24, 27, 30, 33, 36, 39, 42, 45, 48, 51, 54, 56,
  59, 62, 65, 68}

ShippedRoads == <<
  <<51, 27, 2>>, <<27, 8, 1>>, <<8, 54, 3>>, <<54, 6, 1>>, <<6, 56, 2>>,
  <<56, 3, 1>>, <<3, 30, 1>>, <<30, 0, 1>>, <<0, 62, 1>>, <<62, 68, 1>>,
  <<68, 45, 1>>, <<45, 24, 2>>, <<0, 12, 4>>, <<12, 15, 5>>, <<15, 33, 2>>,
  <<33, 36, 3>>, <<36, 39, 5>>, <<33, 42, 2>>, <<42, 48, 5>>, <<65, 8, 5>>,
  <<21, 54, 2>>, <<21, 8, 3>>, <<45, 30, 1>>, <<24, 65, 3>>, <<24, 0, 4>>,
  <<12, 24, 3>> >>

ShippedDrawing == <<
  <<0, 3, <<1, 2>>>>, <<3, 6, <<4, 5>>>>, <<6, 8, <<7>>>>,
  <<0, 12, <<9, 10, 11>>>>, <<12, 15, <<13, 14>>>>, <<12, 24, <<22, 23>>>>,
  <<24, 0, <<25, 26>>>>, <<8, 27, <<28, 29>>>>, <<0, 30, <<31, 32>>>>,
  <<15, 33, <<34, 35>>>>, <<33, 36, <<37, 38>>>>, <<36, 39, <<40, 41>>>>,
  <<33, 42, <<43, 44>>>>, <<42, 48, <<49, 50>>>>, <<8, 51, <<52, 53>>>>,
  <<8, 54, << >>>>, <<6, 54, <<55>>>>, <<3, 56, <<57, 58>>>>,
  <<56, 0, << >>>>, <<8, 65, <<66, 67>>>>, <<0, 62, <<63, 64>>>>,
  <<62, 68, <<69, 70>>>>, <<68, 45, << >>>>, <<45, 30, <<46, 47>>>>,
  <<45, 24, << >>>>, <<24, 65, << >>>>, <<21, 54, << >>>>, <<21, 8, << >>>> >>

\* The shipped map is one of those RoutePlanner and RouteDrawing are about: every
\* road joins two lots, no walk is too long for an int, and every line is drawn
\* between lots, through ghosts.
ASSUME ShippedMapAssumption ==
  LET lots == ShippedNodes \ ShippedGhost
  IN  /\ \A i \in DOMAIN ShippedRoads :
           LET row == ShippedRoads[i]
           IN  /\ row[1] \in lots /\ row[2] \in lots /\ row[3] \in Nat
               /\ row[3] * Cardinality(lots) < INT_MAX
      /\ ShippedDrawing \in Seq(lots \X lots \X Seq(ShippedGhost))

=============================================================================
