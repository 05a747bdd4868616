-------------------------- MODULE ParkingDataProofs --------------------------
(***************************************************************************)
(* What the pure computations of ParkingData return, for every map and day *)
(* length.  The proofs about one request at a time and the proofs about    *)
(* worker threads both rest on these facts.                                *)
(***************************************************************************)
EXTENDS ParkingData, TLAPS

\* A slots table: entries for some lots, each with a number for every hour.
IsTable(sl) == DOMAIN sl \subseteq Lots /\ sl \in [DOMAIN sl -> [Hours -> Int]]

-----------------------------------------------------------------------------

LEMMA LotsAreNodes == Lots \subseteq Nodes /\ NoNode \notin Nodes
BY NodesAssumption DEF Lots, NoNode

\* What route planning promises, for a route that was found.
LEMMA RouteFacts ==
  ASSUME NEW a \in Nodes, NEW b \in Nodes, Route(a, b) # << >>
  PROVE  /\ Route(a, b) \in Seq(Lots)
         /\ Len(Route(a, b)) \in Nat \ {0}
         /\ \A i \in 1 .. Len(Route(a, b)) : Route(a, b)[i] \in Lots
         /\ Route(a, b)[1] = a
         /\ Route(a, b)[Len(Route(a, b))] = b
         /\ \A i, j \in 1 .. Len(Route(a, b)) :
              Route(a, b)[i] = Route(a, b)[j] => i = j
         /\ a \in Lots /\ b \in Lots
<1> DEFINE p == Route(a, b)
<1>1. p \in Seq(Lots) /\ p # << >>
  BY RouteAssumption DEF Route
<1> HIDE DEF p
<1>2. Len(p) \in Nat \ {0} /\ DOMAIN p = 1 .. Len(p)
  BY <1>1
<1>3. \A i \in 1 .. Len(p) : p[i] \in Lots
  BY <1>1
<1>4. /\ p[1] = a /\ p[Len(p)] = b
      /\ \A i, j \in DOMAIN p : p[i] = p[j] => i = j
  BY RouteAssumption DEF p
<1>5. a \in Lots /\ b \in Lots
  BY <1>2, <1>3, <1>4
<1> QED
  BY <1>1, <1>2, <1>3, <1>4, <1>5 DEF p

\* What reserveSlot does to a lot availableAtTime has accepted: one place less
\* in each hour of the stay, and nothing else.
LEMMA ReserveSlotFree ==
  ASSUME NEW sl, IsTable(sl), NEW n, NEW startH \in Int, NEW endH \in Int,
         AvailableAtTime(sl, n, startH, endH)
  PROVE  LET after == ReserveSlot(sl, n, startH, endH) IN
         /\ IsTable(after)
         /\ \A m \in Lots, h \in Hours :
              Free(after, m, h) = IF m = n /\ h \in Stay(startH, endH)
                                  THEN Free(sl, m, h) - 1
                                  ELSE Free(sl, m, h)
<1> DEFINE after == ReserveSlot(sl, n, startH, endH)
<1>1. n \in DOMAIN sl /\ ValidHours(startH, endH)
      /\ \A h \in Stay(startH, endH) : sl[n][h] > 0
  BY DEF AvailableAtTime
<1>2. after = [sl EXCEPT ![n] =
                 [h \in Hours |-> IF h \in Stay(startH, endH) /\ @[h] > 0
                                  THEN @[h] - 1 ELSE @[h]]]
  BY <1>1 DEF ReserveSlot
<1> HIDE DEF after
<1>3. sl[n] \in [Hours -> Int]
  BY <1>1 DEF IsTable
<1>4. [h \in Hours |-> IF h \in Stay(startH, endH) /\ sl[n][h] > 0
                       THEN sl[n][h] - 1 ELSE sl[n][h]] \in [Hours -> Int]
  BY <1>3
<1>5. DOMAIN after = DOMAIN sl /\ after \in [DOMAIN after -> [Hours -> Int]]
  BY <1>2, <1>4 DEF IsTable
<1>6. ASSUME NEW m \in Lots, NEW h \in Hours
      PROVE  Free(after, m, h) = IF m = n /\ h \in Stay(startH, endH)
                                 THEN Free(sl, m, h) - 1
                                 ELSE Free(sl, m, h)
  <2>1. CASE m = n
    <3>1. after[m][h] = IF h \in Stay(startH, endH) /\ sl[n][h] > 0
                        THEN sl[n][h] - 1 ELSE sl[n][h]
      BY <1>1, <1>2, <2>1
    <3> QED
      BY <3>1, <1>1, <1>5, <2>1 DEF Free
  <2>2. CASE m # n
    BY <1>2, <1>5, <2>2 DEF Free
  <2> QED
    BY <2>1, <2>2
<1> QED
  BY <1>5, <1>6 DEF after, IsTable

\* What the loop of updateCapacity does: the updated lot is recounted hour by
\* hour, and the other lots keep their free places.
LEMMA UpdateSlotsFree ==
  ASSUME NEW sl, IsTable(sl),
         NEW id \in Lots, NEW oldCap \in Nat, NEW newCap \in Nat
  PROVE  LET after == UpdateSlots(sl, id, oldCap, newCap) IN
         /\ IsTable(after)
         /\ \A m \in Lots, h \in Hours :
              Free(after, m, h) = IF m = id
                                  THEN Recount(oldCap, newCap, Free(sl, id, h))
                                  ELSE Free(sl, m, h)
<1> DEFINE after == UpdateSlots(sl, id, oldCap, newCap)
<1>1. \A h \in Hours : Free(sl, id, h) \in Int
  BY DEF Free, IsTable
<1>2. \A h \in Hours : Recount(oldCap, newCap, Free(sl, id, h)) \in Int
  BY <1>1 DEF Recount, NonNegative
<1>3. DOMAIN after = DOMAIN sl \cup {id}
  BY DEF UpdateSlots
<1>4. \A n \in DOMAIN after :
        after[n] = IF n = id
                   THEN [h \in Hours |-> Recount(oldCap, newCap, Free(sl, id, h))]
                   ELSE sl[n]
  BY <1>3 DEF UpdateSlots
<1>5. after \in [DOMAIN after -> [Hours -> Int]]
  <2>1. ASSUME NEW n \in DOMAIN after PROVE after[n] \in [Hours -> Int]
    <3>1. CASE n = id
      BY <1>2, <1>4, <3>1
    <3>2. CASE n # id
      BY <1>3, <1>4, <3>2 DEF IsTable
    <3> QED
      BY <3>1, <3>2
  <2> QED
    BY <2>1 DEF UpdateSlots
<1> HIDE DEF after
<1>6. ASSUME NEW m \in Lots, NEW h \in Hours
      PROVE  Free(after, m, h) = IF m = id
                                 THEN Recount(oldCap, newCap, Free(sl, id, h))
                                 ELSE Free(sl, m, h)
  <2>1. CASE m = id
    <3>1. after[m] = [x \in Hours |-> Recount(oldCap, newCap, Free(sl, id, x))]
      BY <1>3, <1>4, <2>1
    <3> QED
      BY <3>1, <1>3, <2>1 DEF Free
  <2>2. CASE m # id
    BY <1>3, <1>4, <2>2 DEF Free
  <2> QED
    BY <2>1, <2>2
<1>7. IsTable(after)
  BY <1>3, <1>5 DEF IsTable
<1> QED
  BY <1>6, <1>7 DEF after

\* What loadNodes leaves: every place of every lot is free at every hour.
LEMMA FreshSlotsFree ==
  ASSUME NEW cap \in [Nodes -> Nat]
  PROVE  /\ IsTable(FreshSlots(cap))
         /\ \A n \in Lots, h \in Hours : Free(FreshSlots(cap), n, h) = cap[n]
<1>1. Lots \subseteq Nodes
  BY DEF Lots
<1>2. DOMAIN FreshSlots(cap) = {m \in Lots : cap[m] > 0}
  BY DEF FreshSlots
<1>3. FreshSlots(cap) \in [DOMAIN FreshSlots(cap) -> [Hours -> Int]]
  BY <1>1 DEF FreshSlots
<1>4. ASSUME NEW n \in Lots, NEW h \in Hours
      PROVE  Free(FreshSlots(cap), n, h) = cap[n]
  <2>1. cap[n] \in Nat
    BY <1>1
  <2>2. CASE cap[n] > 0
    BY <2>2 DEF Free, FreshSlots
  <2>3. CASE ~ (cap[n] > 0)
    BY <2>1, <2>3, <1>2 DEF Free
  <2> QED
    BY <2>2, <2>3
<1> QED
  BY <1>2, <1>3, <1>4 DEF IsTable

\* The arithmetic of updateCapacity for one hour, when the table was within
\* the old capacity.
LEMMA RecountBounds ==
  ASSUME NEW oldCap \in Nat, NEW newCap \in Nat, NEW free \in Int,
         0 <= free, free <= oldCap
  PROVE  /\ Recount(oldCap, newCap, free) \in 0 .. newCap
         /\ newCap - Recount(oldCap, newCap, free) <= oldCap - free
         /\ oldCap - free <= newCap =>
              newCap - Recount(oldCap, newCap, free) = oldCap - free
BY DEF Recount, NonNegative

\* Where a path that visits no node twice is cut, for a node on it: the shown
\* path begins where the path begins and ends at the node.
LEMMA TrimPathEnds ==
  ASSUME NEW S, NEW p \in Seq(S), NEW i \in 1 .. Len(p),
         \A j, k \in 1 .. Len(p) : p[j] = p[k] => j = k
  PROVE  /\ TrimPath(p, p[i]) = SubSeq(p, 1, i)
         /\ Len(TrimPath(p, p[i])) = i
         /\ TrimPath(p, p[i])[1] = p[1]
         /\ TrimPath(p, p[i])[i] = p[i]
<1> DEFINE First(k) == p[k] = p[i] /\ \A j \in 1 .. (k - 1) : p[j] # p[i]
           at == CHOOSE k \in DOMAIN p : First(k)
<1>1. Len(p) \in Nat /\ DOMAIN p = 1 .. Len(p) /\ i \in DOMAIN p
  OBVIOUS
<1>2. First(i)
  BY <1>1
<1>3. \A k \in DOMAIN p : First(k) => k = i
  BY <1>1
<1> HIDE DEF First
<1>4. at = i
  BY <1>1, <1>2, <1>3
<1> HIDE DEF at
<1>5. TrimPath(p, p[i]) = SubSeq(p, 1, i)
  BY <1>4 DEF TrimPath, at, First
<1>6. /\ Len(SubSeq(p, 1, i)) = i
      /\ \A k \in 1 .. i : SubSeq(p, 1, i)[k] = p[k]
  BY <1>1
<1> QED
  BY <1>1, <1>5, <1>6

=============================================================================
