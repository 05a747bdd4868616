--------------------------- MODULE MCSmartParking ---------------------------
(***************************************************************************)
(* A line of lots 0 - 1 - ... and one ghost after them, for model checking *)
(* SmartParking.  Lot 0 starts without places, so it has no slots entry    *)
(* until its first /update; the others start with one place.               *)
(***************************************************************************)
EXTENDS SmartParking

CONSTANT NumLots

MCNodes == 0 .. NumLots
MCGhost == {NumLots}
MCInitialCapacity == [n \in MCNodes |-> IF n \in 1 .. (NumLots - 1) THEN 1 ELSE 0]

Line(a, b) == IF a <= b THEN [i \in 1 .. (b - a + 1) |-> a + i - 1]
                        ELSE [i \in 1 .. (a - b + 1) |-> a - i + 1]

MCRoadPath == [e \in MCNodes \X MCNodes |->
                 IF e[1] \in MCGhost \/ e[2] \in MCGhost THEN << >> ELSE Line(e[1], e[2])]

\* The handlers refuse -1, and hours beyond the end of the day.
MCHourInputs == -1 .. (HoursPerDay + 1)
MCCapInputs  == -1 .. 2

=============================================================================
