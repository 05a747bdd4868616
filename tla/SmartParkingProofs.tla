------------------------- MODULE SmartParkingProofs -------------------------
(***************************************************************************)
(* Proofs about SmartParking, for every map, every day length, every set   *)
(* of inputs and any number of requests and restarts.                      *)
(*                                                                         *)
(* The inductive invariant says that the free places and the confirmed     *)
(* stays of a lot add up to its capacity unless the lot was forgotten, and *)
(* that the file agrees with memory; the last part is what a restart needs. *)
(***************************************************************************)
EXTENDS SmartParking, ParkingDataProofs, TLAPS

IInv ==
  /\ TypeOK
  /\ SlotsWithinCapacity
  /\ LedgerExact
  /\ EveryTakenPlaceIsBooked
  /\ file = capacity

-----------------------------------------------------------------------------

LEMMA InitIInv == Init => IInv
<1> SUFFICES ASSUME Init PROVE IInv
  OBVIOUS
<1>1. Lots \subseteq Nodes
  BY DEF Lots
<1>2. TypeOK
  BY CapacityAssumption, FreshSlotsFree DEF Init, TypeOK, IsTable
<1>3. \A n \in Lots, h \in Hours : Free(slots, n, h) = capacity[n] /\ capacity[n] \in Nat
  BY <1>1, CapacityAssumption, FreshSlotsFree DEF Init
<1>4. \A n \in Lots, h \in Hours : granted[n][h] = 0
  BY DEF Init
<1>5. SlotsWithinCapacity
  BY <1>3 DEF SlotsWithinCapacity
<1>6. LedgerExact
  BY <1>3, <1>4 DEF LedgerExact
<1>7. EveryTakenPlaceIsBooked
  BY <1>3, <1>4 DEF EveryTakenPlaceIsBooked
<1> QED
  BY <1>2, <1>5, <1>6, <1>7 DEF IInv, Init

\* Both successful outcomes of /route: a stay is confirmed at a lot that
\* availableAtTime has accepted.
LEMMA BookingKeepsIInv ==
  ASSUME IInv,
         NEW n, NEW startH \in Int, NEW endH \in Int,
         AvailableAtTime(slots, n, startH, endH),
         slots' = ReserveSlot(slots, n, startH, endH),
         Confirm(n, startH, endH),
         UNCHANGED <<capacity, file, forgot>>
  PROVE  IInv'
<1> USE DEF IInv
<1>1. Lots \subseteq Nodes /\ n \in Lots
  BY DEF Lots, AvailableAtTime
<1>2. /\ IsTable(slots')
      /\ \A m \in Lots, h \in Hours :
           Free(slots', m, h) = IF m = n /\ h \in Stay(startH, endH)
                                THEN Free(slots, m, h) - 1
                                ELSE Free(slots, m, h)
  <2>1. IsTable(slots)
    BY DEF TypeOK, IsTable
  <2> QED
    BY <2>1, ReserveSlotFree
<1>3. \A h \in Stay(startH, endH) : Free(slots, n, h) > 0
  BY DEF AvailableAtTime, Free
<1>4. granted' = [granted EXCEPT ![n] =
                    [h \in Hours |-> IF h \in Stay(startH, endH) THEN @[h] + 1 ELSE @[h]]]
  BY DEF Confirm
<1>5. /\ granted' \in [Lots -> [Hours -> Nat]]
      /\ \A m \in Lots, h \in Hours :
           granted'[m][h] = IF m = n /\ h \in Stay(startH, endH)
                            THEN granted[m][h] + 1
                            ELSE granted[m][h]
  BY <1>1, <1>4 DEF TypeOK
<1>6. \A m \in Lots, h \in Hours :
        /\ granted[m][h] \in Nat
        /\ Free(slots, m, h) \in Int
        /\ capacity[m] \in Nat
  BY <1>1 DEF TypeOK, Free
<1>7. TypeOK'
  BY <1>2, <1>5 DEF TypeOK, IsTable
<1>8. SlotsWithinCapacity'
  BY <1>2, <1>3, <1>6 DEF SlotsWithinCapacity
<1>9. LedgerExact'
  <2> SUFFICES ASSUME NEW m \in Lots \ forgot', NEW h \in Hours
               PROVE  Free(slots, m, h)' + granted'[m][h] = capacity'[m]
    BY DEF LedgerExact
  <2>1. Free(slots, m, h) + granted[m][h] = capacity[m]
    BY DEF LedgerExact
  <2>2. capacity' = capacity
    OBVIOUS
  <2>3. CASE m = n /\ h \in Stay(startH, endH)
    <3>1. Free(slots, m, h)' = Free(slots, m, h) - 1
      BY <1>2, <2>3
    <3>2. granted'[m][h] = granted[m][h] + 1
      BY <1>5, <2>3
    <3> QED
      BY <1>6, <2>1, <2>2, <3>1, <3>2
  <2>4. CASE ~ (m = n /\ h \in Stay(startH, endH))
    BY <1>2, <1>5, <1>6, <2>1, <2>2, <2>4
  <2> QED
    BY <2>3, <2>4
<1>10. EveryTakenPlaceIsBooked'
  BY <1>2, <1>5, <1>6 DEF EveryTakenPlaceIsBooked
<1> QED
  BY <1>7, <1>8, <1>9, <1>10

\* An accepted /update: the recount keeps what is reserved, and where the new
\* capacity is below it the lot is forgotten.
LEMMA UpdateKeepsIInv ==
  ASSUME IInv, NEW id, NEW newCap \in CapInputs, Update(id, newCap)
  PROVE  IInv'
<1> USE DEF IInv
<1>1. Lots \subseteq Nodes /\ id \in Lots /\ newCap \in Nat
  BY InputAssumption DEF Lots, Update, ChangeCapacity, UpdateAccepted
<1>2. capacity' = [capacity EXCEPT ![id] = newCap] /\ file' = capacity'
      /\ granted' = granted /\ forgot' = forgot \cup CutBelowReserved(id, newCap)
      /\ slots' = UpdateSlots(slots, id, capacity[id], newCap)
  BY DEF Update, ChangeCapacity
<1>3. /\ capacity \in [Nodes -> Nat] /\ capacity[id] \in Nat
      /\ capacity' \in [Nodes -> Nat]
      /\ \A m \in Lots : capacity'[m] = IF m = id THEN newCap ELSE capacity[m]
  BY <1>1, <1>2 DEF TypeOK
<1>4. /\ IsTable(slots')
      /\ \A m \in Lots, h \in Hours :
           Free(slots', m, h) = IF m = id
                                THEN Recount(capacity[id], newCap, Free(slots, id, h))
                                ELSE Free(slots, m, h)
  <2>1. IsTable(slots)
    BY DEF TypeOK, IsTable
  <2> QED
    BY <1>1, <1>2, <1>3, <2>1, UpdateSlotsFree
<1>5. \A m \in Lots, h \in Hours :
        /\ granted[m][h] \in Nat
        /\ Free(slots, m, h) \in Int
        /\ capacity[m] \in Nat
        /\ 0 <= Free(slots, m, h)
        /\ Free(slots, m, h) <= capacity[m]
  BY <1>1 DEF TypeOK, Free, SlotsWithinCapacity
<1>6. \A h \in Hours :
        LET free == Free(slots, id, h)
            recount == Recount(capacity[id], newCap, free)
        IN  /\ recount \in 0 .. newCap
            /\ newCap - recount <= capacity[id] - free
            /\ capacity[id] - free <= newCap =>
                 newCap - recount = capacity[id] - free
  BY <1>1, <1>3, <1>5, RecountBounds
<1>7. forgot' \subseteq Lots
  BY <1>1, <1>2 DEF TypeOK, CutBelowReserved
<1>8. TypeOK'
  BY <1>2, <1>3, <1>4, <1>7 DEF TypeOK, IsTable
<1>9. SlotsWithinCapacity'
  BY <1>3, <1>4, <1>5, <1>6 DEF SlotsWithinCapacity
<1>10. LedgerExact'
  <2> SUFFICES ASSUME NEW n \in Lots \ forgot', NEW h \in Hours
               PROVE  Free(slots, n, h)' + granted'[n][h] = capacity'[n]
    BY DEF LedgerExact
  <2>1. n \in Lots \ forgot /\ Free(slots, n, h) + granted[n][h] = capacity[n]
    BY <1>2 DEF LedgerExact
  <2>2. CASE n = id
    <3>1. capacity[id] - Free(slots, id, h) <= newCap
      BY <1>1, <1>2, <1>3, <1>5, <2>2 DEF CutBelowReserved
    <3> QED
      BY <1>1, <1>2, <1>3, <1>4, <1>5, <1>6, <2>1, <2>2, <3>1
  <2>3. CASE n # id
    BY <1>2, <1>3, <1>4, <2>1, <2>3
  <2> QED
    BY <2>2, <2>3
<1>11. EveryTakenPlaceIsBooked'
  <2> SUFFICES ASSUME NEW n \in Lots, NEW h \in Hours
               PROVE  capacity'[n] - Free(slots, n, h)' <= granted'[n][h]
    BY DEF EveryTakenPlaceIsBooked
  <2>1. capacity[n] - Free(slots, n, h) <= granted[n][h]
    BY DEF EveryTakenPlaceIsBooked
  <2>2. CASE n = id
    <3>1. newCap - Recount(capacity[id], newCap, Free(slots, id, h)) <= granted[n][h]
      <4>1. Recount(capacity[id], newCap, Free(slots, id, h)) \in Int
        BY <1>1, <1>6
      <4> QED
        BY <1>1, <1>3, <1>5, <1>6, <2>1, <2>2, <4>1
    <3> QED
      BY <1>2, <1>3, <1>4, <2>2, <3>1
  <2>3. CASE n # id
    BY <1>2, <1>3, <1>4, <2>1, <2>3
  <2> QED
    BY <2>2, <2>3
<1> QED
  BY <1>2, <1>8, <1>9, <1>10, <1>11

\* A restart: the fresh table is exact for the lots nobody has a stay at.
LEMMA RestartKeepsIInv == IInv /\ Restart => IInv'
<1> SUFFICES ASSUME IInv, Restart PROVE IInv'
  OBVIOUS
<1> USE DEF IInv
<1>1. Lots \subseteq Nodes
  BY DEF Lots
<1>2. capacity' = capacity /\ file' = file /\ granted' = granted
      /\ slots' = FreshSlots(capacity)
      /\ forgot' = forgot \cup {n \in Lots : \E h \in Hours : granted[n][h] > 0}
  BY DEF Restart
<1>3. /\ IsTable(slots')
      /\ \A n \in Lots, h \in Hours : Free(slots', n, h) = capacity[n]
  BY <1>2, FreshSlotsFree DEF TypeOK
<1>4. \A n \in Lots, h \in Hours : granted[n][h] \in Nat /\ capacity[n] \in Nat
  BY <1>1 DEF TypeOK
<1>5. TypeOK'
  BY <1>2, <1>3 DEF TypeOK, IsTable
<1>6. SlotsWithinCapacity'
  BY <1>2, <1>3, <1>4 DEF SlotsWithinCapacity
<1>7. LedgerExact'
  <2> SUFFICES ASSUME NEW n \in Lots \ forgot', NEW h \in Hours
               PROVE  Free(slots, n, h)' + granted'[n][h] = capacity'[n]
    BY DEF LedgerExact
  <2>1. granted[n][h] = 0
    BY <1>2, <1>4
  <2> QED
    BY <1>2, <1>3, <1>4, <2>1
<1>8. EveryTakenPlaceIsBooked'
  BY <1>2, <1>3, <1>4 DEF EveryTakenPlaceIsBooked
<1> QED
  BY <1>2, <1>5, <1>6, <1>7, <1>8

\* Responses that leave the state of the service alone.
LEMMA UnchangedKeepsIInv ==
  IInv /\ UNCHANGED <<capacity, slots, file, granted, forgot>> => IInv'
BY DEF IInv, TypeOK, SlotsWithinCapacity, LedgerExact, EveryTakenPlaceIsBooked, Free

LEMMA NextIInv == IInv /\ [Next]_vars => IInv'
<1> SUFFICES ASSUME IInv, [Next]_vars PROVE IInv'
  OBVIOUS
<1>1. ASSUME NEW src, NEW dest, NEW startH \in Int, NEW endH \in Int,
             RouteToDestination(src, dest, startH, endH)
      PROVE  IInv'
  BY <1>1, BookingKeepsIInv DEF RouteToDestination
<1>2. ASSUME NEW src, NEW dest, NEW startH \in Int, NEW endH \in Int,
             RouteToFallback(src, dest, startH, endH)
      PROVE  IInv'
  <2>1. PICK i \in DOMAIN Route(src, dest) :
          LET parkingNode == Route(src, dest)[i]
          IN  /\ FallbackIndex(slots, Route(src, dest), startH, endH, i)
              /\ slots' = ReserveSlot(slots, parkingNode, startH, endH)
              /\ Confirm(parkingNode, startH, endH)
    BY <1>2 DEF RouteToFallback
  <2>2. AvailableAtTime(slots, Route(src, dest)[i], startH, endH)
    BY <2>1 DEF FallbackIndex
  <2> QED
    BY <1>2, <2>1, <2>2, BookingKeepsIInv DEF RouteToFallback
<1>3. ASSUME NEW src, NEW dest, NEW startH, NEW endH,
             RouteRefused(src, dest, startH, endH)
      PROVE  IInv'
  BY <1>3, UnchangedKeepsIInv DEF RouteRefused
<1>4. ASSUME NEW id, NEW newCap \in CapInputs, Update(id, newCap)
      PROVE  IInv'
  BY <1>4, UpdateKeepsIInv
<1>5. ASSUME NEW id, NEW newCap, UpdateRefused(id, newCap)
      PROVE  IInv'
  BY <1>5, UnchangedKeepsIInv DEF UpdateRefused
<1>6. CASE ListNodes
  BY <1>6, UnchangedKeepsIInv DEF ListNodes
<1>7. CASE Restart
  BY <1>7, RestartKeepsIInv
<1>8. CASE UNCHANGED vars
  BY <1>8, UnchangedKeepsIInv DEF vars
<1> QED
  BY <1>1, <1>2, <1>3, <1>4, <1>5, <1>6, <1>7, <1>8, InputAssumption DEF Next

LEMMA Invariance == Spec => []IInv
<1>1. Init => IInv
  BY InitIInv
<1>2. IInv /\ [Next]_vars => IInv'
  BY NextIInv
<1> QED
  BY <1>1, <1>2, PTL DEF Spec

-----------------------------------------------------------------------------

\* The state of the service keeps its shape: handlers index slots, capacity
\* and granted only where they have entries.
THEOREM TypeCorrect == Spec => []TypeOK
BY Invariance, PTL DEF IInv

\* Free places stay between zero and the capacity, through any sequence of
\* reservations, capacity changes and restarts.
THEOREM SlotsStayWithinCapacity == Spec => []SlotsWithinCapacity
BY Invariance, PTL DEF IInv

\* As long as a lot was never cut below what is reserved and no restart wiped
\* a stay, the slots table is an exact account of the confirmed stays.
THEOREM LedgerStaysExact == Spec => []LedgerExact
BY Invariance, PTL DEF IInv

\* The service never withholds a place that nobody booked.
THEOREM TakenPlacesAreBooked == Spec => []EveryTakenPlaceIsBooked
BY Invariance, PTL DEF IInv

\* A restart reads back the capacities in memory: only an acknowledged
\* /update changes them.
THEOREM RestartIsFaithful == Spec => RestartKeepsCapacity
<1>1. IInv /\ [Next]_vars => [capacity' # capacity => reply' = Updated]_vars
  <2> SUFFICES ASSUME IInv, Next PROVE capacity' # capacity => reply' = Updated
    OBVIOUS
  <2>1. ASSUME NEW src, NEW dest, NEW startH, NEW endH,
               \/ RouteToDestination(src, dest, startH, endH)
               \/ RouteToFallback(src, dest, startH, endH)
               \/ RouteRefused(src, dest, startH, endH)
        PROVE  capacity' = capacity
    BY <2>1 DEF RouteToDestination, RouteToFallback, RouteRefused
  <2>2. ASSUME NEW id, NEW newCap, Update(id, newCap)
        PROVE  reply' = Updated
    BY <2>2 DEF Update, ChangeCapacity
  <2>3. ASSUME NEW id, NEW newCap, UpdateRefused(id, newCap)
        PROVE  capacity' = capacity
    BY <2>3 DEF UpdateRefused
  <2>4. CASE ListNodes
    BY <2>4 DEF ListNodes
  <2>5. CASE Restart
    BY <2>5 DEF Restart, IInv
  <2> QED
    BY <2>1, <2>2, <2>3, <2>4, <2>5 DEF Next
<1> QED
  BY <1>1, Invariance, PTL DEF Spec, RestartKeepsCapacity

-----------------------------------------------------------------------------

\* A confirmed stay on the driver's route, at its end or at the index of a lot
\* that has places while the end has none.
LEMMA ReservedReply ==
  ASSUME NEW src, NEW dest, NEW startH, NEW endH, Routable(src, dest, startH, endH)
  PROVE  /\ reply' = Reserved(src, dest, dest, FALSE, Route(src, dest)) =>
              DriverReachesPlace'
         /\ \A i \in DOMAIN Route(src, dest) :
              /\ Route(src, dest)[i] # dest
              /\ reply' = FallbackReply(src, dest, Route(src, dest)[i])
              => DriverReachesPlace'
<1> DEFINE p == Route(src, dest)
<1>1. /\ p \in Seq(Lots) /\ Len(p) \in Nat \ {0}
      /\ p[1] = src /\ p[Len(p)] = dest
      /\ \A i, j \in 1 .. Len(p) : p[i] = p[j] => i = j
      /\ DOMAIN p = 1 .. Len(p)
  <2>1. src \in Nodes /\ dest \in Nodes /\ p # << >>
    BY DEF Routable
  <2> QED
    BY <2>1, RouteFacts
<1> HIDE DEF p
<1>2. ASSUME reply' = Reserved(src, dest, dest, FALSE, p) PROVE DriverReachesPlace'
  BY <1>1, <1>2 DEF DriverReachesPlace, Reserved
<1>3. ASSUME NEW i \in DOMAIN p, p[i] # dest,
             reply' = Reserved(src, dest, p[i], TRUE, TrimPath(p, p[i]))
      PROVE  DriverReachesPlace'
  <2>1. /\ Len(TrimPath(p, p[i])) = i
        /\ TrimPath(p, p[i])[1] = src
        /\ TrimPath(p, p[i])[i] = p[i]
    BY <1>1, TrimPathEnds
  <2> QED
    BY <1>3, <2>1 DEF DriverReachesPlace, Reserved
<1> QED
  BY <1>2, <1>3 DEF p, FallbackReply

\* The path of every /route response leads from the driver's start to the node
\* where his place is, and a fallback never is the destination itself.
THEOREM DriversReachTheirPlaces == Spec => []DriverReachesPlace
<1>1. Init => DriverReachesPlace
  BY DEF Init, DriverReachesPlace, NoReply
<1>2. DriverReachesPlace /\ [Next]_vars => DriverReachesPlace'
  <2> SUFFICES ASSUME DriverReachesPlace, [Next]_vars PROVE DriverReachesPlace'
    OBVIOUS
  <2>1. ASSUME NEW src, NEW dest, NEW startH, NEW endH,
               RouteToDestination(src, dest, startH, endH)
        PROVE  DriverReachesPlace'
    BY <2>1, ReservedReply DEF RouteToDestination
  <2>2. ASSUME NEW src, NEW dest, NEW startH, NEW endH,
               RouteToFallback(src, dest, startH, endH)
        PROVE  DriverReachesPlace'
    <3>1. PICK i \in DOMAIN Route(src, dest) :
            /\ FallbackIndex(slots, Route(src, dest), startH, endH, i)
            /\ reply' = FallbackReply(src, dest, Route(src, dest)[i])
      BY <2>2 DEF RouteToFallback
    <3>2. Route(src, dest)[i] # dest
      BY <2>2, <3>1 DEF RouteToFallback, FallbackIndex
    <3>3. Routable(src, dest, startH, endH)
      BY <2>2 DEF RouteToFallback
    <3> QED
      BY <3>1, <3>2, <3>3, ReservedReply
  <2>3. ASSUME reply' \in {Refused, Updated, Listing(capacity, slots), NoReply, reply}
        PROVE  DriverReachesPlace'
    BY <2>3 DEF DriverReachesPlace, Refused, Updated, Listing, NoReply
  <2>4. CASE Next
    BY <2>1, <2>2, <2>3, <2>4
       DEF Next, RouteRefused, Update, ChangeCapacity, UpdateRefused, ListNodes, Restart
  <2>5. CASE UNCHANGED vars
    BY <2>3, <2>5 DEF vars
  <2> QED
    BY <2>4, <2>5
<1> QED
  BY <1>1, <1>2, PTL DEF Spec

-----------------------------------------------------------------------------
(***************************************************************************)
(* The service implements the promise: ParkingLot allows a step whatever   *)
(* the service does, because the ledger is exact wherever the promise is   *)
(* not void.                                                               *)
(***************************************************************************)

\* The capacities of the lots, as the promise sees them.
LotCapacity == [n \in Lots |-> capacity[n]]

LEMMA PromiseInit == Init => Promise!Init
BY DEF Init, Promise!Init

\* A confirmed stay is a booking: availableAtTime saw a free place in each of
\* its hours, and where the promise holds the ledger is exact.
LEMMA BookingIsPromised ==
  ASSUME IInv,
         NEW n, NEW startH \in Int, NEW endH \in Int,
         AvailableAtTime(slots, n, startH, endH),
         Confirm(n, startH, endH),
         UNCHANGED <<capacity, forgot>>
  PROVE  Promise!Next
<1>1. n \in Lots /\ \A h \in Stay(startH, endH) : Free(slots, n, h) > 0
  BY DEF AvailableAtTime, Free
<1>2. Stay(startH, endH) \in SUBSET Hours
  BY HoursAssumption DEF AvailableAtTime, ValidHours, Stay, Hours
<1>3. ASSUME n \notin forgot, NEW h \in Hours
      PROVE  /\ Free(slots, n, h) + granted[n][h] = capacity[n]
             /\ Free(slots, n, h) \in Int
             /\ granted[n][h] \in Nat
  BY <1>1, <1>3 DEF IInv, LedgerExact, TypeOK, Free
<1>4. n \in forgot \/ \A h \in Stay(startH, endH) : granted[n][h] < LotCapacity[n]
  BY <1>1, <1>2, <1>3 DEF LotCapacity
<1>5. Promise!Book(n, Stay(startH, endH))
  BY <1>1, <1>4 DEF Promise!Book, Confirm, LotCapacity
<1> QED
  BY <1>1, <1>2, <1>5 DEF Promise!Next

\* updateCapacity compares the new capacity with what it takes to be reserved:
\* where the promise holds, that is the number of confirmed stays.
LEMMA UpdateIsPromised ==
  ASSUME IInv, NEW id, NEW newCap \in CapInputs, Update(id, newCap)
  PROVE  Promise!Next
<1>1. id \in Lots /\ newCap \in Nat /\ Lots \subseteq Nodes
  BY InputAssumption DEF Update, ChangeCapacity, UpdateAccepted, Lots
<1>2. ASSUME id \notin forgot, NEW h \in Hours
      PROVE  capacity[id] - Free(slots, id, h) = granted[id][h]
  BY <1>1, <1>2 DEF IInv, LedgerExact, TypeOK, Free
<1>3. forgot' = forgot \cup {m \in {id} : \E h \in Hours : granted[m][h] > newCap}
  <2>1. forgot' = forgot \cup CutBelowReserved(id, newCap)
    BY DEF Update, ChangeCapacity
  <2>2. CASE id \in forgot
    BY <2>1, <2>2 DEF CutBelowReserved
  <2>3. CASE id \notin forgot
    <3>1. \A h \in Hours : capacity[id] - Free(slots, id, h) = granted[id][h]
      BY <1>2, <2>3
    <3>2. CutBelowReserved(id, newCap)
            = {m \in {id} : \E h \in Hours : granted[m][h] > newCap}
      BY <3>1 DEF CutBelowReserved
    <3> QED
      BY <2>1, <3>2
  <2> QED
    BY <2>2, <2>3
<1>4. LotCapacity' = [LotCapacity EXCEPT ![id] = newCap]
  BY <1>1 DEF Update, ChangeCapacity, LotCapacity, IInv, TypeOK
<1>5. Promise!SetCapacity(id, newCap)
  BY <1>3, <1>4 DEF Promise!SetCapacity, Update, ChangeCapacity, LotCapacity
<1>6. newCap \in {c \in CapInputs : c >= 0}
  BY <1>1
<1> QED
  BY <1>1, <1>5, <1>6 DEF Promise!Next

\* A restart wipes the memory of the stays and leaves the capacities as they
\* are, because the file has them.
LEMMA RestartIsWipe == IInv /\ Restart => Promise!Next
<1> SUFFICES ASSUME IInv, Restart PROVE Promise!Next
  OBVIOUS
<1>1. LotCapacity' = LotCapacity
  BY DEF Restart, LotCapacity, IInv
<1>2. Promise!Wipe
  BY <1>1 DEF Promise!Wipe, Restart, LotCapacity
<1> QED
  BY <1>2 DEF Promise!Next

LEMMA PromiseStep ==
  IInv /\ [Next]_vars => [Promise!Next]_<<LotCapacity, granted, forgot>>
<1> SUFFICES ASSUME IInv, [Next]_vars
             PROVE  Promise!Next \/ UNCHANGED <<LotCapacity, granted, forgot>>
  OBVIOUS
<1>1. ASSUME NEW src, NEW dest, NEW startH \in Int, NEW endH \in Int,
             RouteToDestination(src, dest, startH, endH)
      PROVE  Promise!Next
  BY <1>1, BookingIsPromised DEF RouteToDestination
<1>2. ASSUME NEW src, NEW dest, NEW startH \in Int, NEW endH \in Int,
             RouteToFallback(src, dest, startH, endH)
      PROVE  Promise!Next
  <2>1. PICK i \in DOMAIN Route(src, dest) :
          /\ AvailableAtTime(slots, Route(src, dest)[i], startH, endH)
          /\ Confirm(Route(src, dest)[i], startH, endH)
    BY <1>2 DEF RouteToFallback, FallbackIndex
  <2> QED
    BY <1>2, <2>1, BookingIsPromised DEF RouteToFallback
<1>3. ASSUME NEW src, NEW dest, NEW startH, NEW endH,
             RouteRefused(src, dest, startH, endH)
      PROVE  UNCHANGED <<LotCapacity, granted, forgot>>
  BY <1>3 DEF RouteRefused, LotCapacity
<1>4. ASSUME NEW id, NEW newCap \in CapInputs, Update(id, newCap)
      PROVE  Promise!Next
  BY <1>4, UpdateIsPromised
<1>5. ASSUME NEW id, NEW newCap, UpdateRefused(id, newCap)
      PROVE  UNCHANGED <<LotCapacity, granted, forgot>>
  BY <1>5 DEF UpdateRefused, LotCapacity
<1>6. CASE ListNodes
  BY <1>6 DEF ListNodes, LotCapacity
<1>7. CASE Restart
  BY <1>7, RestartIsWipe
<1>8. CASE UNCHANGED vars
  BY <1>8 DEF vars, LotCapacity
<1> QED
  BY <1>1, <1>2, <1>3, <1>4, <1>5, <1>6, <1>7, <1>8, InputAssumption DEF Next

\* The detailed service implements the promise to drivers: the number of stays
\* confirmed for a lot exceeds its places only after a cut below what was
\* confirmed or a restart over a confirmed stay.
THEOREM PromiseKept == Spec => ImplementsPromise
BY Invariance, PromiseInit, PromiseStep, PTL
   DEF Spec, ImplementsPromise, Promise!Spec, LotCapacity

=============================================================================
