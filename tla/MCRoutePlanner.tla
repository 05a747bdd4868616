--------------------------- MODULE MCRoutePlanner ---------------------------
(***************************************************************************)
(* Every road map of NumLots lots in which each two lots are joined by a   *)
(* road of one of the given weights or by none, for model checking         *)
(* RoutePlanner and RouteDrawing.  Beside them: two free roads through a   *)
(* ghost, a road to an id that is no node, and a loop at lot 0, which no   *)
(* route may use.                                                          *)
(***************************************************************************)
EXTENDS DehradunMap

CONSTANTS NumLots, RoadWeights

NoRoad == -1

MCGhost == {NumLots, NumLots + 1}
MCNodes == 0 .. (NumLots + 1)
Unknown == NumLots + 2

\* Every map is there with its lots renamed, so it is enough to start at lot
\* 0, and at the ghost.
MCCalls == {0, NumLots} \X (0 .. NumLots)

Pairs == {e \in (0 .. (NumLots - 1)) \X (0 .. (NumLots - 1)) : e[1] < e[2]}

OddRows == << <<0, NumLots, 0>>, <<NumLots, NumLots - 1, 0>>,
              <<0, Unknown, 0>>, <<Unknown, NumLots - 1, 0>>, <<0, 0, 1>> >>

Rows(f) == OddRows \o SetToSeq({<<e[1], e[2], f[e]>> : e \in {p \in Pairs : f[p] # NoRoad}})

MCRoadFiles == {Rows(f) : f \in [Pairs -> RoadWeights \cup {NoRoad}]}

\* Roads that are drawn through no point, one and two, a road drawn twice and
\* differently, and all others not at all.
MCDrawing == << <<0, 1, <<NumLots, NumLots + 1>>>>, <<1, 2, <<NumLots>>>>, <<0, 2, << >>>>,
                <<3, 1, <<NumLots, NumLots + 1>>>>, <<1, 3, <<NumLots + 1>>>> >>

=============================================================================
