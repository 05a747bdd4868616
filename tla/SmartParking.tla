---------------------------- MODULE SmartParking ----------------------------
(***************************************************************************)
(* The parking service as its handlers read when one request runs at a     *)
(* time: each action is a whole HTTP handler of Server.cpp with everything *)
(* it calls in class SmartParking, or a restart of the process.            *)
(*                                                                         *)
(* granted and forgot are history variables.  granted counts, per lot and  *)
(* hour, the stays the service has confirmed to a driver; it is a fact     *)
(* about the world and survives a restart.  forgot holds the lots for      *)
(* which the slots table has lost track of some confirmed stay.            *)
(***************************************************************************)
EXTENDS ParkingData

CONSTANTS
  HourInputs,   \* hours a request may carry; out of range stands for any
                \* value the handler refuses, an unparsable one included
  CapInputs,    \* capacities an administrator may enter
  CurHour,      \* the hour /nodes reports on, 10 in the code
  MayRestart,   \* whether the process may be restarted
  MaxGranted    \* bound on the stays confirmed per lot and hour

ASSUME InputAssumption == HourInputs \subseteq Int /\ CapInputs \subseteq Int

ASSUME CurHourAssumption == CurHour \in Nat

VARIABLES
  capacity,     \* nodes[n].capacity
  slots,        \* the slots table
  file,         \* capacity column of nodes_list.txt
  granted,      \* history: stays confirmed per lot and hour
  forgot,       \* history: lots with a confirmed stay slots does not count
  reply         \* the last response, with the request it answers

vars == <<capacity, slots, file, granted, forgot, reply>>

-----------------------------------------------------------------------------

Listing(cap, sl) ==
  [status |-> "nodes",
   rows |-> [n \in Lots |->
               [capacity  |-> cap[n],
                available |-> IF CurHour \in Hours THEN Free(sl, n, CurHour) ELSE 0]]]

\* A stay confirmed at n: one more driver in each of its hours.
Confirm(n, startH, endH) ==
  /\ \A h \in Stay(startH, endH) : granted[n][h] < MaxGranted
  /\ granted' = [granted EXCEPT ![n] =
                   [h \in Hours |-> IF h \in Stay(startH, endH) THEN @[h] + 1 ELSE @[h]]]

-----------------------------------------------------------------------------

\* SmartParking(): all four maps are read from the files.
Init ==
  /\ capacity = InitialCapacity
  /\ slots = FreshSlots(InitialCapacity)
  /\ file = InitialCapacity
  /\ granted = [n \in Lots |-> [h \in Hours |-> 0]]
  /\ forgot = {}
  /\ reply = NoReply

\* What /route requires before it looks for a place.
Routable(src, dest, startH, endH) ==
  /\ ValidHours(startH, endH)
  /\ src \in Nodes /\ dest \in Nodes
  /\ Route(src, dest) # << >>

\* /route, the destination has a place for the whole stay.
RouteToDestination(src, dest, startH, endH) ==
  /\ Routable(src, dest, startH, endH)
  /\ AvailableAtTime(slots, dest, startH, endH)
  /\ slots' = ReserveSlot(slots, dest, startH, endH)
  /\ Confirm(dest, startH, endH)
  /\ reply' = Reserved(src, dest, dest, FALSE, Route(src, dest))
  /\ UNCHANGED <<capacity, file, forgot>>

\* The whole path is shown although the driver parks before its end.
FallbackReplyUntrimmed(src, dest, parkingNode) ==
  Reserved(src, dest, parkingNode, TRUE, Route(src, dest))

\* The driver is told the node he asked for.
FallbackReplyAtDestination(src, dest, parkingNode) ==
  Reserved(src, dest, dest, TRUE, TrimPath(Route(src, dest), parkingNode))

\* The response when the driver parks on the way: the path is cut where he
\* parks, unless that is the destination after all.
FallbackReply(src, dest, parkingNode) ==
  Reserved(src, dest, parkingNode, TRUE,
           IF parkingNode # dest THEN TrimPath(Route(src, dest), parkingNode)
                                 ELSE Route(src, dest))

\* /route, the destination is full: the last lot of the path with a place.
RouteToFallback(src, dest, startH, endH) ==
  /\ Routable(src, dest, startH, endH)
  /\ ~ AvailableAtTime(slots, dest, startH, endH)
  /\ \E i \in DOMAIN Route(src, dest) :
       LET parkingNode == Route(src, dest)[i]
       IN  /\ FallbackIndex(slots, Route(src, dest), startH, endH, i)
           /\ slots' = ReserveSlot(slots, parkingNode, startH, endH)
           /\ Confirm(parkingNode, startH, endH)
           /\ reply' = FallbackReply(src, dest, parkingNode)
  /\ UNCHANGED <<capacity, file, forgot>>

\* /route, every early return: bad hours, unknown names, no route, no place.
RouteRefused(src, dest, startH, endH) ==
  /\ \/ ~ Routable(src, dest, startH, endH)
     \/ /\ Routable(src, dest, startH, endH)
        /\ ~ AvailableAtTime(slots, dest, startH, endH)
        /\ NothingOnPath(slots, Route(src, dest), startH, endH)
  /\ reply' = Refused
  /\ UNCHANGED <<capacity, slots, file, granted, forgot>>

\* Lots where the new capacity is below what the old table says is reserved.
CutBelowReserved(id, newCap) ==
  {n \in {id} : \E h \in Hours : capacity[n] - Free(slots, n, h) > newCap}

\* A ghost passes for a lot.
UpdateAcceptedForGhost(id, newCap) == newCap >= 0 /\ id \in Nodes

UpdateAccepted(id, newCap) == newCap >= 0 /\ id \in Lots

\* updateCapacity up to saveNodes.
ChangeCapacity(id, newCap) ==
  /\ UpdateAccepted(id, newCap)
  /\ capacity' = [capacity EXCEPT ![id] = newCap]
  /\ slots' = UpdateSlots(slots, id, capacity[id], newCap)
  /\ forgot' = forgot \cup CutBelowReserved(id, newCap)
  /\ reply' = Updated
  /\ UNCHANGED granted

\* saveNodes is not called.
UpdateUnsaved(id, newCap) == ChangeCapacity(id, newCap) /\ UNCHANGED file

\* /update: updateCapacity, which ends in saveNodes.
Update(id, newCap) == ChangeCapacity(id, newCap) /\ file' = capacity'

\* /update, every early return: negative capacity, unknown node, ghost node.
UpdateRefused(id, newCap) ==
  /\ ~ UpdateAccepted(id, newCap)
  /\ reply' = Refused
  /\ UNCHANGED <<capacity, slots, file, granted, forgot>>

\* /nodes: what the map shows.
ListNodes ==
  /\ reply' = Listing(capacity, slots)
  /\ UNCHANGED <<capacity, slots, file, granted, forgot>>

\* The process ends and is started again: the constructor reads the file,
\* and no file keeps the slots table.
Restart ==
  /\ MayRestart
  /\ capacity' = file
  /\ slots' = FreshSlots(file)
  /\ forgot' = forgot \cup {n \in Lots : \E h \in Hours : granted[n][h] > 0}
  /\ reply' = NoReply
  /\ UNCHANGED <<file, granted>>

Next ==
  \/ \E src, dest \in Nodes \cup {NoNode}, startH, endH \in HourInputs :
       \/ RouteToDestination(src, dest, startH, endH)
       \/ RouteToFallback(src, dest, startH, endH)
       \/ RouteRefused(src, dest, startH, endH)
  \/ \E id \in Nodes \cup {NoNode}, newCap \in CapInputs :
       \/ Update(id, newCap)
       \/ UpdateRefused(id, newCap)
  \/ ListNodes
  \/ Restart

Spec == Init /\ [][Next]_vars

\* The promise to drivers, read off the lots of this state.
Promise == INSTANCE ParkingLot WITH
             capacity      <- [n \in Lots |-> capacity[n]],
             void          <- forgot,
             StartCapacity <- [n \in Lots |-> InitialCapacity[n]],
             Capacities    <- {c \in CapInputs : c >= 0}

\* The service implements the promise: every step books places that are left,
\* sets a capacity, wipes the memory of the stays or leaves all this alone, and
\* the table loses track of a stay exactly where the promise becomes void.
ImplementsPromise == Promise!Spec

-----------------------------------------------------------------------------

\* Shapes of the state.
TypeOK ==
  /\ capacity \in [Nodes -> Nat]
  /\ DOMAIN slots \subseteq Lots
  /\ slots \in [DOMAIN slots -> [Hours -> Int]]
  /\ file \in [Nodes -> Nat]
  /\ granted \in [Lots -> [Hours -> Nat]]
  /\ forgot \subseteq Lots

\* The count of free places of a lot stays between zero and its capacity at
\* every hour, across reserveSlot, updateCapacity and loadNodes.
SlotsWithinCapacity ==
  \A n \in Lots, h \in Hours :
    0 <= Free(slots, n, h) /\ Free(slots, n, h) <= capacity[n]

\* Unless the table has lost track of a stay, free places and confirmed stays
\* of a lot add up to its capacity at every hour: what updateCapacity computes
\* as "reserved" really is the number of stays reserveSlot took.
LedgerExact ==
  \A n \in Lots \ forgot, h \in Hours :
    Free(slots, n, h) + granted[n][h] = capacity[n]

\* Even where stays were lost track of, every place that is not free is backed
\* by a confirmed stay: the service withholds no place that nobody booked.
EveryTakenPlaceIsBooked ==
  \A n \in Lots, h \in Hours :
    capacity[n] - Free(slots, n, h) <= granted[n][h]

\* The path in a /route response leads from the driver's start to the node
\* where his place is, and a fallback never is the destination itself.
DriverReachesPlace ==
  reply.status = "reserved" =>
    /\ reply.path[1] = reply.start
    /\ reply.path[Len(reply.path)] = reply.parkingNode
    /\ reply.fallback <=> reply.parkingNode # reply.dest

\* Only an acknowledged /update changes the capacity of a lot; in particular a
\* restart reads back from nodes_list.txt what the process had in memory.
RestartKeepsCapacity ==
  [][capacity' # capacity => reply' = Updated]_vars

\* A stay is confirmed only while the lot has fewer confirmed stays than
\* places in each of its hours.
ConfirmedOnlyWhenFree ==
  [][\A n \in Lots, h \in Hours :
       granted'[n][h] > granted[n][h] => granted[n][h] < capacity[n]]_vars

=============================================================================
