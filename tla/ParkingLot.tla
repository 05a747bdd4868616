----------------------------- MODULE ParkingLot -----------------------------
(***************************************************************************)
(* What the service promises a driver: a stay that was confirmed has a     *)
(* place in every one of its hours, because no more stays are confirmed    *)
(* for a lot and hour than it has places.  Two things void the promise for *)
(* a lot, and nothing else does: an administrator who sets fewer places    *)
(* than stays are confirmed, and a wipe of the service's memory while a    *)
(* stay is confirmed.                                                      *)
(***************************************************************************)
EXTENDS Integers

CONSTANTS
  Lots, Hours,
  StartCapacity,   \* places of each lot when the service starts
  Capacities       \* what the number of places may be changed to

VARIABLES
  capacity,
  granted,         \* stays confirmed per lot and hour
  void             \* lots whose promise is void

Init ==
  /\ capacity = StartCapacity
  /\ granted = [n \in Lots |-> [h \in Hours |-> 0]]
  /\ void = {}

\* One stay more in each of some hours; all of them have a place left, unless
\* the promise is void.
Book(n, stay) ==
  /\ n \in void \/ \A h \in stay : granted[n][h] < capacity[n]
  /\ granted' = [granted EXCEPT ![n] =
                   [h \in Hours |-> IF h \in stay THEN @[h] + 1 ELSE @[h]]]
  /\ UNCHANGED <<capacity, void>>

\* The number of places changes; the promise is void if they do not cover what
\* is confirmed.
SetCapacity(n, cap) ==
  /\ capacity' = [capacity EXCEPT ![n] = cap]
  /\ void' = void \cup {m \in {n} : \E h \in Hours : granted[m][h] > cap}
  /\ UNCHANGED granted

\* The memory of every confirmed stay is lost.
Wipe ==
  /\ void' = void \cup {n \in Lots : \E h \in Hours : granted[n][h] > 0}
  /\ UNCHANGED <<capacity, granted>>

Next ==
  \/ \E n \in Lots :
       \/ \E stay \in SUBSET Hours : Book(n, stay)
       \/ \E cap \in Capacities : SetCapacity(n, cap)
  \/ Wipe

Spec == Init /\ [][Next]_<<capacity, granted, void>>

=============================================================================
