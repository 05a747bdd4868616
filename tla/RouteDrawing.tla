---------------------------- MODULE RouteDrawing ----------------------------
(***************************************************************************)
(* The drawing of routes: buildVisualPaths, which enters the drawing       *)
(* points of each road, and buildVisualRoute, which draws a route through  *)
(* them.  /route draws the whole route, or the route as far as the lot it  *)
(* falls back to.                                                          *)
(***************************************************************************)
EXTENDS RoutePlanner

CONSTANT DrawnRoads  \* the calls of addPath: <<a, b, drawing points>>

\* Only ghosts are drawn through.
ASSUME DrawingAssumption == DrawnRoads \in Seq(Nodes \X Nodes \X Seq(Ghost))

-----------------------------------------------------------------------------

\* A road is drawn one way only.
AddPathOneWay(paths, row) == Put(paths, <<row[1], row[2]>>, row[3])

\* addPath: the road is drawn through the same points in both directions.
AddPath(paths, row) ==
  Put(Put(paths, <<row[1], row[2]>>, row[3]), <<row[2], row[1]>>, Reverse(row[3]))

visualPaths ==
  LET after[k \in 0 .. Len(DrawnRoads)] ==
        IF k = 0 THEN << >> ELSE AddPath(after[k - 1], DrawnRoads[k])
  IN  after[Len(DrawnRoads)]

\* The drawing points between a and b, if any.
Between(a, b) == IF <<a, b>> \in DOMAIN visualPaths THEN visualPaths[<<a, b>>] ELSE << >>

\* The last node of the path is not drawn, or is.
NoEnd(realPath) == << >>
End(realPath) == <<Last(realPath)>>

BuildVisualRoute(realPath) ==
  IF realPath = << >> THEN << >>
  ELSE LET finalPath[i \in 1 .. Len(realPath)] ==
             IF i = 1 THEN << >>
             ELSE finalPath[i - 1] \o <<realPath[i - 1]>> \o Between(realPath[i - 1], realPath[i])
       IN  finalPath[Len(realPath)] \o End(realPath)

-----------------------------------------------------------------------------

\* The line passes every lot of the route, no other lot, and passes them in the
\* order of the route.
Follows(line, route) ==
  /\ Range(line) \cap Lots = Range(route)
  /\ \A i, j \in DOMAIN line : i < j /\ line[i] \in Lots /\ line[j] \in Lots =>
       \E k, l \in DOMAIN route : k < l /\ line[i] = route[k] /\ line[j] = route[l]

\* The route to the lot where the driver parks, the destination or one on the way.
Trimmed(k) == SubSeq(path, 1, k)

\* The line drawn for a route, to its end or to the lot fallen back to, visits
\* the lots of the route in their order, each once, and nothing else but
\* drawing points.
DrawnRouteIsRoute ==
  pc = "done" => \A k \in DOMAIN path : Follows(BuildVisualRoute(Trimmed(k)), Trimmed(k))

\* The way back is drawn over the way out: buildVisualPaths has the points of
\* every road in both orders.
ReturnIsDrawnAlongTheWayOut ==
  pc = "done" => \A k \in DOMAIN path :
    BuildVisualRoute(Reverse(Trimmed(k))) = Reverse(BuildVisualRoute(Trimmed(k)))

=============================================================================
