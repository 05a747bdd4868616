--------------------------- MODULE MCParkingServer ---------------------------
(***************************************************************************)
(* A line of lots 0 - 1 - ... and one ghost after them, for model checking *)
(* ParkingServer.  The first lot starts with FirstPlaces places, the other *)
(* lots with OtherPlaces.                                                  *)
(***************************************************************************)
EXTENDS ParkingServer

CONSTANTS NumLots, FirstPlaces, OtherPlaces

MCNodes == 0 .. NumLots
MCGhost == {NumLots}
MCInitialCapacity ==
  [n \in MCNodes |-> IF n = 0 THEN FirstPlaces
                     ELSE IF n \in MCGhost THEN 0 ELSE OtherPlaces]

Line(a, b) == IF a <= b THEN [i \in 1 .. (b - a + 1) |-> a + i - 1]
                        ELSE [i \in 1 .. (a - b + 1) |-> a - i + 1]

MCRoadPath == [e \in MCNodes \X MCNodes |->
                 IF e[1] \in MCGhost \/ e[2] \in MCGhost THEN << >> ELSE Line(e[1], e[2])]

\* Every hour of the day and one on either side of it, which is refused.
MCHourInputs == -1 .. (HoursPerDay + 1)
ValidHourInputs == 0 .. HoursPerDay
MCCapInputs  == -1 .. 2
NoCapInputs  == {}

=============================================================================
