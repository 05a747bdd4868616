----------------------------- MODULE ParkingData -----------------------------
(***************************************************************************)
(* The data of class SmartParking and its pure computations, shared by the *)
(* specification of one request at a time (SmartParking) and by the one of *)
(* Crow's worker threads (ParkingServer).                                  *)
(*                                                                         *)
(* A node is its integer id.  A slots table is a function whose domain is  *)
(* the set of nodes that have an entry in std::map slots; each entry maps  *)
(* every hour of the day to the number of free places.                     *)
(***************************************************************************)
EXTENDS Integers, Sequences

CONSTANTS
  Nodes,            \* ids read from nodes_list.txt
  Ghost,            \* the nodes whose ghost flag is 1: drawing points only
  HoursPerDay,      \* 24 in the code
  InitialCapacity,  \* capacity column of nodes_list.txt at first start
  RoadPath          \* what sys.dijkstra(src, dest, sys.road) returns

\* The result of getId for an unknown name and of fallbackParking when
\* nothing is free.
NoNode == -1

Lots  == Nodes \ Ghost
Hours == 0 .. (HoursPerDay - 1)

\* dijkstra(src, dest, road)
Route(src, dest) == RoadPath[<<src, dest>>]

ASSUME NodesAssumption == Nodes \subseteq Nat /\ Ghost \subseteq Nodes

ASSUME HoursAssumption == HoursPerDay \in Nat \ {0}

ASSUME CapacityAssumption == InitialCapacity \in [Nodes -> Nat]

\* Route planning promises a walk from src to dest over nodes that are not
\* ghosts and that visits none of them twice, or nothing.
ASSUME RouteAssumption ==
  /\ RoadPath \in [Nodes \X Nodes -> Seq(Lots)]
  /\ \A a, b \in Nodes :
       LET p == Route(a, b)
       IN  p # << >> => /\ p[1] = a
                        /\ p[Len(p)] = b
                        /\ \A i, j \in DOMAIN p : p[i] = p[j] => i = j

-----------------------------------------------------------------------------

ValidHours(startH, endH) == startH >= 0 /\ endH <= HoursPerDay /\ startH < endH

\* The hours of a stay: endH is exclusive.
Stay(startH, endH) == startH .. (endH - 1)

\* slots[n][h] as operator[] reads it: a missing entry reads as 0.
Free(slots, n, h) == IF n \in DOMAIN slots THEN slots[n][h] ELSE 0

NonNegative(x) == IF x < 0 THEN 0 ELSE x

\* loadNodes: every place of a lot with places is free at every hour; ghosts
\* and lots without places get no entry.
FreshSlots(cap) ==
  [n \in {m \in Lots : cap[m] > 0} |-> [h \in Hours |-> cap[n]]]

\* A lot with no place left passes.
AvailableAtZero(slots, n, startH, endH) ==
  /\ ValidHours(startH, endH)
  /\ n \in Lots /\ n \in DOMAIN slots
  /\ \A h \in Stay(startH, endH) : slots[n][h] >= 0

AvailableAtTime(slots, n, startH, endH) ==
  /\ ValidHours(startH, endH)
  /\ n \in Lots
  /\ n \in DOMAIN slots
  /\ \A h \in Stay(startH, endH) : slots[n][h] > 0

\* The loop of fallbackParking, from the end of the path backwards, stops
\* at index i.
FallbackIndex(slots, path, startH, endH, i) ==
  /\ AvailableAtTime(slots, path[i], startH, endH)
  /\ \A j \in (i + 1) .. Len(path) :
       ~ AvailableAtTime(slots, path[j], startH, endH)

NothingOnPath(slots, path, startH, endH) ==
  \A i \in DOMAIN path : ~ AvailableAtTime(slots, path[i], startH, endH)

\* A stay that runs one hour too long.
ReserveSlotInclusive(slots, n, startH, endH) ==
  [slots EXCEPT ![n] =
     [h \in Hours |-> IF h \in startH .. endH /\ @[h] > 0 THEN @[h] - 1 ELSE @[h]]]

\* The table after reserveSlot.
ReserveSlot(slots, n, startH, endH) ==
  IF ~ ValidHours(startH, endH) \/ n \notin DOMAIN slots
  THEN slots
  ELSE [slots EXCEPT ![n] =
          [h \in Hours |-> IF h \in Stay(startH, endH) /\ @[h] > 0
                           THEN @[h] - 1
                           ELSE @[h]]]

\* A capacity change that forgets what is reserved.
RecountFresh(oldCap, newCap, free) == newCap

\* A capacity change that does not stop at zero.
RecountUnclamped(oldCap, newCap, free) == newCap - (oldCap - free)

\* updateCapacity, one hour: what is not free counts as reserved.
Recount(oldCap, newCap, free) ==
  LET reserved == NonNegative(oldCap - free)
  IN  NonNegative(newCap - reserved)

\* The table after the loop of updateCapacity.
UpdateSlots(slots, id, oldCap, newCap) ==
  [n \in DOMAIN slots \cup {id} |->
     IF n = id THEN [h \in Hours |-> Recount(oldCap, newCap, Free(slots, id, h))]
               ELSE slots[n]]

\* The path goes on for one node behind the one where he parks.
TrimPathLate(path, parkingNode) ==
  SubSeq(path, 1, 1 + CHOOSE i \in DOMAIN path : path[i] = parkingNode)

\* The driver's path up to the first visit of the node where he parks.
TrimPath(path, parkingNode) ==
  SubSeq(path, 1, CHOOSE i \in DOMAIN path :
                    /\ path[i] = parkingNode
                    /\ \A j \in 1 .. (i - 1) : path[j] # parkingNode)

-----------------------------------------------------------------------------

\* The responses of the handlers, each with the part of its request that the
\* properties look at.
NoReply == [status |-> "none"]
Refused == [status |-> "error"]
Updated == [status |-> "updated"]

Reserved(src, dest, parkingNode, fallback, path) ==
  [status |-> "reserved", start |-> src, dest |-> dest,
   parkingNode |-> parkingNode, fallback |-> fallback, path |-> path]

=============================================================================
