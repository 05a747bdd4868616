-------------------------- MODULE ParkingSoloProofs --------------------------
(***************************************************************************)
(* A server with one worker implements SmartParking: the loops and early   *)
(* returns of its handlers, read and stored hour by hour, amount to the    *)
(* atomic handlers.  The proof follows the refinement mapping of           *)
(* ParkingServer: a handler takes effect at the step where it chooses its  *)
(* candidate, or where it writes the capacity, and every other step leaves *)
(* what SmartParking sees unchanged.                                       *)
(***************************************************************************)
EXTENDS ParkingServerProofs

Available(t, n) == AvailableAtTime(slots, n, t.startH, t.endH)

\* What availableAtTime has found so far: the candidate is free at the hours
\* before h, and neither the destination nor a later node of the path is
\* available.
SearchedSoFar(t) ==
  /\ t.startH \in HourInputs /\ t.endH \in HourInputs
  /\ ValidHours(t.startH, t.endH)
  /\ \A h \in t.startH .. (t.h - 1) : Free(slots, Candidate(t), h) > 0
  /\ IsFallback(t) => ~ Available(t, t.dest)
  /\ \A i \in (t.at + 1) .. Len(Path(t)) : ~ Available(t, Path(t)[i])

\* What the rest of reserveSlot relies on: nobody else takes the places that
\* availableAtTime has seen.
PlacesKept(t) ==
  /\ \A h \in ToTake(t) : Free(slots, Candidate(t), h) > 0
  /\ t.pc = "store" => t.value = Free(slots, Candidate(t), t.h)

SoloInv ==
  /\ TypeInv
  /\ requests <= MaxRequests
  /\ \A n \in Lots, h \in Hours :
       granted[n][h] + (IF Solo.pc = "check" THEN 1 ELSE 0) <= requests
  /\ Solo.pc = "check" => SearchedSoFar(Solo)
  /\ Reserving => PlacesKept(Solo)
  /\ Solo.pc \in {"readCap", "writeCap"} => Solo.newCap \in CapInputs
  /\ Solo.pc = "writeCap" => Solo.oldCap = capacity[Solo.id]
  /\ Solo.pc = "writeSlot" => Solo.value = Free(slots, Solo.id, Solo.h)

-----------------------------------------------------------------------------

LEMMA SoloIsTheWorker ==
  ASSUME NEW w, Workers = {w}
  PROVE  Solo = thread[w] /\ Solo' = thread'[w] /\ w \in Workers
<1>1. (CHOOSE v \in Workers : TRUE) = w
  OBVIOUS
<1> QED
  BY <1>1 DEF Solo

\* One hour without a place refutes a lot, and the whole stay with places is what
\* availableAtTime asks for.
LEMMA AvailableMeans ==
  ASSUME TypeInv, NEW t \in RouteThreads, NEW n \in Lots
  PROVE  /\ \A h \in t.startH .. (t.endH - 1) :
              Free(slots, n, h) <= 0 => ~ Available(t, n)
         /\ /\ ValidHours(t.startH, t.endH)
            /\ \A h \in t.startH .. (t.endH - 1) : Free(slots, n, h) > 0
            => Available(t, n)
<1>1. /\ Stay(t.startH, t.endH) \subseteq Hours
      /\ ValidHours(t.startH, t.endH) => t.startH \in Stay(t.startH, t.endH)
  BY HoursAssumption DEF RouteThreads, Hours, Stay, ValidHours
<1>2. ASSUME NEW h \in Stay(t.startH, t.endH), Free(slots, n, h) <= 0
      PROVE  ~ Available(t, n)
  <2>1. CASE n \in DOMAIN slots
    <3>1. slots[n][h] <= 0 /\ slots[n][h] \in Int
      BY <1>1, <1>2, <2>1 DEF Free, TypeInv, TypeOK
    <3> QED
      BY <1>2, <3>1 DEF Available, AvailableAtTime
  <2>2. CASE n \notin DOMAIN slots
    BY <2>2 DEF Available, AvailableAtTime
  <2> QED
    BY <2>1, <2>2
<1>3. ASSUME ValidHours(t.startH, t.endH),
             \A h \in Stay(t.startH, t.endH) : Free(slots, n, h) > 0
      PROVE  Available(t, n)
  <2>1. n \in DOMAIN slots
    BY <1>1, <1>3 DEF Free
  <2> QED
    BY <1>3, <2>1 DEF Available, AvailableAtTime, Free
<1> QED
  BY <1>2, <1>3 DEF Stay

\* What the worker is doing, in the terms the steps need.
LEMMA SoloKinds ==
  ASSUME NEW w, Workers = {w}, SoloInv
  PROVE  LET t == thread[w] IN
         /\ TypeInv /\ Solo = t
         /\ t.pc \in {"check", "test", "load", "store"} =>
              /\ t \in RouteThreads
              /\ t.h \in Hours /\ t.startH \in Hours /\ t.endH \in 1 .. HoursPerDay
              /\ t.startH <= t.h /\ t.h < t.endH
              /\ t.at \in 1 .. (Len(Path(t)) + 1)
              /\ Path(t) \in Seq(Lots) /\ Len(Path(t)) \in Nat \ {0}
              /\ Candidate(t) \in Lots /\ t.dest \in Lots /\ t.src \in Lots
         /\ t.pc \in {"readCap", "writeCap", "readSlot", "writeSlot", "save"} =>
              /\ t \in UpdateThreads
              /\ t.id \in Lots /\ t.h \in Hours
              /\ t.oldCap \in Nat /\ t.newCap \in Nat
         /\ t.pc \in {"readCap", "writeCap"} => t.h = 0
         /\ t.pc = "writeSlot" => t.id \in DOMAIN slots
         /\ t.pc \in {"load", "store"} => Candidate(t) \in DOMAIN slots
<1> DEFINE t == thread[w]
<1>1. TypeInv /\ w \in Workers /\ Solo = t
  BY SoloIsTheWorker DEF SoloInv
<1>2. WellFormed(t, slots)
  BY <1>1, HandlerKinds
<1>3. ASSUME t.pc \in {"check", "test", "load", "store"}
      PROVE  /\ t \in RouteThreads
             /\ t.h \in Hours /\ t.startH \in Hours /\ t.endH \in 1 .. HoursPerDay
             /\ t.startH <= t.h /\ t.h < t.endH
             /\ t.at \in 1 .. (Len(Path(t)) + 1)
             /\ Path(t) \in Seq(Lots) /\ Len(Path(t)) \in Nat \ {0}
             /\ Candidate(t) \in Lots /\ t.dest \in Lots /\ t.src \in Lots
             /\ t.pc \in {"load", "store"} => Candidate(t) \in DOMAIN slots
  <2>1. t \in RouteThreads /\ t.at \in 1 .. (Len(Path(t)) + 1) /\ t.h \in Hours
    BY <1>1, <1>3, HandlerKinds
  <2>2. t.startH <= t.h /\ t.h < t.endH
        /\ (t.pc \in {"load", "store"} => Candidate(t) \in DOMAIN slots)
    BY <1>2, <1>3 DEF WellFormed, UpdateThreads, Idle
  <2>3. /\ Candidate(t) \in Lots /\ Path(t) \in Seq(Lots) /\ Len(Path(t)) \in Nat \ {0}
    BY <1>2, <2>1, CandidateIsLot
  <2> QED
    BY <2>1, <2>2, <2>3 DEF RouteThreads
<1>4. ASSUME t.pc \in {"readCap", "writeCap", "readSlot", "writeSlot", "save"}
      PROVE  /\ t \in UpdateThreads
             /\ t.id \in Lots /\ t.h \in Hours
             /\ t.oldCap \in Nat /\ t.newCap \in Nat
             /\ t.pc \in {"readCap", "writeCap"} => t.h = 0
             /\ t.pc = "writeSlot" => t.id \in DOMAIN slots
  <2>1. t \in UpdateThreads
    BY <1>1, <1>4, HandlerKinds
  <2>2. /\ t.pc \in {"readCap", "writeCap"} => t.h = 0
        /\ t.pc = "writeSlot" => t.id \in DOMAIN slots
    BY <1>2, <1>4 DEF WellFormed, RouteThreads, Idle
  <2> QED
    BY <2>1, <2>2 DEF UpdateThreads
<1> HIDE DEF t
<1> QED
  BY <1>1, <1>3, <1>4 DEF t

-----------------------------------------------------------------------------

LEMMA InitSoloInv ==
  ASSUME NEW w, Workers = {w}
  PROVE  Init => SoloInv
<1> SUFFICES ASSUME Init PROVE SoloInv
  OBVIOUS
<1>1. Solo = Idle /\ Solo.pc = "idle"
  BY SoloIsTheWorker DEF Init, Idle
<1>2. requests <= MaxRequests
  BY BoundAssumption DEF Init
<1>3. ASSUME NEW n \in Lots, NEW h \in Hours
      PROVE  granted[n][h] + (IF Solo.pc = "check" THEN 1 ELSE 0) <= requests
  BY <1>1 DEF Init
<1> QED
  BY <1>1, <1>2, <1>3, InitTypes DEF SoloInv, Reserving

\* A request that is taken in: the searches it starts with have found nothing yet.
LEMMA ArrivalKeepsSoloInv ==
  ASSUME NEW w, Workers = {w}, SoloInv, Arrival(w)
  PROVE  SoloInv'
<1> DEFINE t == thread[w]
           u == thread'[w]
<1>1. TypeInv /\ TypeInv' /\ w \in Workers /\ Solo = t /\ Solo' = u
  BY SoloIsTheWorker, ArrivalKeepsTypes DEF SoloInv
<1>2. \A x : thread' = [thread EXCEPT ![w] = x] => u = x
  BY <1>1 DEF TypeInv, TypeOK
<1>3. /\ t.pc = "idle" /\ requests \in Nat
      /\ requests' = requests + 1 /\ requests' <= MaxRequests
  <2>1. Accept(w)
    BY DEF Arrival, RouteArrives, RouteRefused, UpdateArrives, UpdateRefused
  <2> QED
    BY <1>1, <2>1, BoundAssumption DEF Accept, TypeInv, TypeOK
<1>4. ASSUME NEW n \in Lots, NEW h \in Hours
      PROVE  /\ granted'[n][h] <= requests
             /\ granted'[n][h] + (IF Solo'.pc = "check" THEN 1 ELSE 0) <= requests'
  <2>1. granted' = granted /\ granted[n][h] \in Nat
    BY <1>1, ArrivalTouchesNothing, FreeIsInt
  <2>2. granted[n][h] <= requests
    BY <1>1, <1>3, <2>1 DEF SoloInv
  <2> QED
    BY <1>3, <2>1, <2>2
<1>5. ASSUME NEW src, NEW dest, NEW startH \in HourInputs, NEW endH \in HourInputs,
             RouteArrives(w, src, dest, startH, endH)
      PROVE  SoloInv'
  <2>1. u = RouteThread(src, dest, startH, endH)
    BY <1>2, <1>5 DEF RouteArrives, Goto
  <2>2. /\ u.pc = "check" /\ u.startH = startH /\ u.endH = endH /\ u.h = startH
        /\ u.at = Len(Path(u)) + 1
    BY <2>1 DEF RouteThread, FirstCandidate, Path
  <2>3. ~ IsFallback(u) /\ (u.at + 1) .. Len(Path(u)) = {}
        /\ startH .. (startH - 1) = {}
    <3>1. Path(u) \in Seq(Lots)
      <4>1. src \in Nodes /\ dest \in Nodes /\ Route(src, dest) # << >>
        BY <1>5 DEF RouteArrives
      <4>2. Path(u) = Route(src, dest)
        BY <2>1 DEF Path, RouteThread
      <4> QED
        BY <4>1, <4>2, RouteFacts
    <3>2. Len(Path(u)) \in Nat
      BY <3>1
    <3> QED
      BY <2>2, <3>2, InputAssumption DEF IsFallback
  <2>4. SearchedSoFar(Solo)'
    BY <1>1, <1>5, <2>2, <2>3 DEF SearchedSoFar, RouteArrives
  <2>5. reply' = reply
    BY <1>5 DEF RouteArrives
  <2> QED
    BY <1>1, <1>3, <1>4, <2>2, <2>4, <2>5 DEF SoloInv, Reserving
<1>6. ASSUME NEW src, NEW dest, NEW startH, NEW endH,
             RouteRefused(w, src, dest, startH, endH)
      PROVE  SoloInv'
  <2>1. u.pc = "idle" /\ reply' = Refused
    BY <1>2, <1>6 DEF RouteRefused, Answer, Goto, Idle
  <2> QED
    BY <1>1, <1>3, <1>4, <2>1 DEF SoloInv, Reserving
<1>7. ASSUME NEW id, NEW newCap \in CapInputs, UpdateArrives(w, id, newCap)
      PROVE  SoloInv'
  <2>1. u.pc = "readCap" /\ u.newCap = newCap /\ reply' = reply
    BY <1>2, <1>7 DEF UpdateArrives, Goto, UpdateThread
  <2> QED
    BY <1>1, <1>3, <1>4, <2>1 DEF SoloInv, Reserving
<1>8. ASSUME NEW id, NEW newCap, UpdateRefused(w, id, newCap)
      PROVE  SoloInv'
  <2>1. u.pc = "idle" /\ reply' = Refused
    BY <1>2, <1>8 DEF UpdateRefused, Answer, Goto, Idle
  <2> QED
    BY <1>1, <1>3, <1>4, <2>1 DEF SoloInv, Reserving
<1> QED
  BY <1>5, <1>6, <1>7, <1>8 DEF Arrival

\* The search: what has been seen stays true, since nobody else changes the table.
LEMMA SearchKeepsSoloInv ==
  ASSUME NEW w, Workers = {w}, SoloInv, Run(w), HourTaken(w) \/ HourFree(w)
  PROVE  SoloInv'
<1> DEFINE t == thread[w]
           u == thread'[w]
<1>1. TypeInv /\ TypeInv' /\ w \in Workers /\ Solo = t /\ Solo' = u
  BY SoloIsTheWorker, RunKeepsTypes DEF SoloInv
<1>2. /\ t.pc = "check" /\ t \in RouteThreads
      /\ t.startH <= t.h /\ t.h < t.endH /\ t.h \in Hours
      /\ t.startH \in Hours /\ t.endH \in 1 .. HoursPerDay
      /\ t.at \in 1 .. (Len(Path(t)) + 1) /\ Len(Path(t)) \in Nat \ {0}
      /\ Candidate(t) \in Lots
  <2>1. t.pc = "check"
    BY DEF HourTaken, HourFree
  <2> QED
    BY <2>1, SoloKinds
<1>3. SearchedSoFar(t) /\ requests' = requests /\ requests <= MaxRequests
      /\ slots' = slots
  BY <1>1, <1>2 DEF SoloInv, HourTaken, HourFree, shared
<1>4. t.h \in Int /\ t.startH \in Int /\ t.endH \in Int
  BY <1>2, HoursAssumption DEF Hours
<1>5. ASSUME NEW n \in Lots, NEW h \in Hours
      PROVE  /\ granted[n][h] \in Nat /\ requests \in Nat
             /\ granted[n][h] + 1 <= requests
  BY <1>1, <1>2, FreeIsInt DEF SoloInv, TypeInv, TypeOK
<1>6. CASE HourTaken(w)
  <2>1. granted' = granted /\ reply' \in {reply, Refused}
        /\ Free(slots, Candidate(t), t.h) <= 0
    BY <1>6 DEF HourTaken, history, Answer
  <2>2. \A n \in Lots, h \in Hours :
          granted'[n][h] + (IF Solo'.pc = "check" THEN 1 ELSE 0) <= requests'
    BY <1>3, <1>5, <2>1
  <2>3. CASE u = Idle
    BY <1>1, <1>3, <2>1, <2>2, <2>3 DEF SoloInv, Reserving, Idle
  <2>4. CASE u = NextCandidate(t) /\ t.at > 1
    <3>1. /\ u.pc = "check" /\ u.src = t.src /\ u.dest = t.dest
          /\ u.startH = t.startH /\ u.endH = t.endH /\ u.h = t.startH
          /\ u.at = t.at - 1 /\ Path(u) = Path(t)
      BY <1>2, <2>4 DEF NextCandidate, RouteThreads, Path
    <3>2. ~ Available(t, Candidate(t))
      BY <1>1, <1>2, <1>4, <2>1, AvailableMeans
    <3>3. ~ Available(t, t.dest)
      BY <1>3, <3>2 DEF SearchedSoFar, Candidate
    <3>4. ASSUME NEW i \in (u.at + 1) .. Len(Path(t)) PROVE ~ Available(t, Path(t)[i])
      <4>1. i = t.at \/ i \in (t.at + 1) .. Len(Path(t))
        BY <1>2, <3>1
      <4>2. i = t.at => Path(t)[i] = Candidate(t)
        BY <1>2, <3>1 DEF Candidate, IsFallback
      <4> QED
        BY <1>3, <3>2, <4>1, <4>2 DEF SearchedSoFar
    <3>5. t.startH .. (t.startH - 1) = {}
      BY <1>4
    <3>6. SearchedSoFar(Solo)'
      BY <1>1, <1>3, <3>1, <3>3, <3>4, <3>5 DEF SearchedSoFar, Available
    <3> QED
      BY <1>1, <1>3, <2>1, <2>2, <3>1, <3>6 DEF SoloInv, Reserving
  <2>5. u = Idle \/ (u = NextCandidate(t) /\ t.at > 1)
    <3>1. \A x : thread' = [thread EXCEPT ![w] = x] => u = x
      BY <1>1 DEF TypeInv, TypeOK
    <3> QED
      BY <1>6, <3>1 DEF HourTaken, Answer, Goto
  <2> QED
    BY <2>3, <2>4, <2>5
<1>7. CASE HourFree(w)
  <2>1. SameStay(t, u) /\ Path(u) = Path(t) /\ reply' = reply
        /\ Free(slots, Candidate(t), t.h) > 0
    BY <1>1, <1>7, RouteMoves DEF SameStay, Path, HourFree
  <2>2. \A h \in t.startH .. t.h : Free(slots, Candidate(t), h) > 0
    <3>1. \A h \in t.startH .. t.h : h = t.h \/ h \in t.startH .. (t.h - 1)
      BY <1>4
    <3> QED
      BY <1>3, <2>1, <3>1 DEF SearchedSoFar
  <2>3. CASE ~ LastHour(t)
    <3>1. u.pc = "check" /\ u.h = t.h + 1 /\ granted' = granted
      BY <1>1, <1>7, <2>3, RouteMoves DEF HourFree
    <3>2. t.startH .. (u.h - 1) = t.startH .. t.h
      BY <1>4, <3>1
    <3>3. SearchedSoFar(Solo)'
      BY <1>1, <1>3, <2>1, <2>2, <3>2 DEF SearchedSoFar, Available, SameStay, IsFallback
    <3>4. \A n \in Lots, h \in Hours :
            granted'[n][h] + (IF Solo'.pc = "check" THEN 1 ELSE 0) <= requests'
      BY <1>3, <1>5, <3>1
    <3> QED
      BY <1>1, <1>3, <2>1, <3>1, <3>3, <3>4 DEF SoloInv, Reserving
  <2>4. CASE LastHour(t)
    <3>1. u.pc = "test" /\ u.h = t.startH
      BY <1>1, <1>7, <2>4, RouteMoves
    <3>2. ToTake(u) = t.startH .. t.h /\ t.startH .. (t.endH - 1) = t.startH .. t.h
      BY <1>4, <2>1, <2>4, <3>1 DEF ToTake, SameStay, LastHour
    <3>3. PlacesKept(Solo)'
      BY <1>1, <1>3, <2>1, <2>2, <3>1, <3>2 DEF PlacesKept, SameStay
    <3>4. ASSUME NEW n \in Lots, NEW h \in Hours
          PROVE  granted'[n][h] + (IF Solo'.pc = "check" THEN 1 ELSE 0) <= requests'
      <4>1. granted'[n][h] \in {granted[n][h], granted[n][h] + 1}
        BY <1>1, <1>7, TableChanges
      <4> QED
        BY <1>1, <1>3, <1>5, <3>1, <4>1
    <3> QED
      BY <1>1, <1>3, <2>1, <3>1, <3>3, <3>4 DEF SoloInv, Reserving
  <2> QED
    BY <2>3, <2>4
<1> QED
  BY <1>6, <1>7

\* reserveSlot finds every place that availableAtTime has seen.
LEMMA ReserveKeepsSoloInv ==
  ASSUME NEW w, Workers = {w}, SoloInv, Run(w),
         ReserveTestFree(w) \/ ReserveTestTaken(w) \/ ReserveLoad(w) \/ ReserveStore(w)
  PROVE  SoloInv' /\ ~ ReserveTestTaken(w)
<1> DEFINE t == thread[w]
           u == thread'[w]
<1>1. TypeInv /\ TypeInv' /\ w \in Workers /\ Solo = t /\ Solo' = u
  BY SoloIsTheWorker, RunKeepsTypes DEF SoloInv
<1>2. /\ t.pc \in {"test", "load", "store"} /\ t \in RouteThreads
      /\ t.startH <= t.h /\ t.h < t.endH /\ t.h \in Hours
      /\ t.startH \in Hours /\ t.endH \in 1 .. HoursPerDay
      /\ Candidate(t) \in Lots
      /\ t.pc \in {"load", "store"} => Candidate(t) \in DOMAIN slots
  <2>1. t.pc \in {"test", "load", "store"}
    BY DEF ReserveTestFree, ReserveTestTaken, ReserveLoad, ReserveStore
  <2> QED
    BY <2>1, SoloKinds
<1>3. PlacesKept(t) /\ requests' = requests /\ requests <= MaxRequests
      /\ granted' = granted
  BY <1>1, <1>2 DEF SoloInv, Reserving, ReserveTestFree, ReserveTestTaken, ReserveLoad,
     ReserveStore, history
<1>4. /\ t.h \in Int /\ t.startH \in Int /\ t.endH \in Int /\ t.h \in ToTake(t)
      /\ ToTake(t) \subseteq Hours
  BY <1>2, HoursAssumption DEF Hours, ToTake
<1>5. ~ ReserveTestTaken(w)
  <2>1. Free(slots, Candidate(t), t.h) > 0 /\ Free(slots, Candidate(t), t.h) \in Int
    BY <1>1, <1>2, <1>3, <1>4, FreeIsInt DEF PlacesKept
  <2> QED
    BY <2>1 DEF ReserveTestTaken
<1>6. ASSUME NEW n \in Lots, NEW h \in Hours
      PROVE  granted'[n][h] + 0 <= requests'
  BY <1>1, <1>2, <1>3 DEF SoloInv
<1>7. CASE ReserveTestFree(w) \/ ReserveLoad(w)
  <2>1. /\ SameStay(t, u) /\ u.pc \in {"load", "store"} /\ u.h = t.h
        /\ slots' = slots /\ reply' = reply
    BY <1>1, <1>7, RouteMoves DEF ReserveTestFree, ReserveLoad, shared
  <2>2. ToTake(u) = ToTake(t)
    BY <2>1 DEF ToTake, SameStay
  <2>3. u.pc = "store" => u.value = Free(slots, Candidate(u), u.h)
    <3>1. u.pc = "store" => t.pc = "load" /\ u.value = slots[Candidate(t)][t.h]
      BY <1>1, <1>7, RouteMoves DEF ReserveLoad
    <3> QED
      BY <1>2, <2>1, <3>1 DEF SameStay, Free
  <2>4. PlacesKept(Solo)'
    BY <1>1, <1>3, <2>1, <2>2, <2>3 DEF PlacesKept, SameStay
  <2> QED
    BY <1>1, <1>3, <1>5, <1>6, <2>1, <2>4 DEF SoloInv, Reserving
<1>8. CASE ReserveStore(w)
  <2>1. \A h \in Hours : h # t.h => Free(slots', Candidate(t), h) = Free(slots, Candidate(t), h)
    BY <1>1, <1>2, <1>8, TableChanges
  <2>2. CASE ~ LastHour(t)
    <3>1. SameStay(t, u) /\ u.pc = "test" /\ u.h = t.h + 1 /\ reply' = reply
      BY <1>1, <1>8, <2>2, RouteMoves DEF ReserveStore, NextHourOrAnswer
    <3>2. \A h \in ToTake(u) : h \in ToTake(t) /\ h # t.h /\ h \in Hours
      BY <1>4, <3>1 DEF ToTake, SameStay
    <3>3. PlacesKept(Solo)'
      BY <1>1, <1>3, <2>1, <3>1, <3>2 DEF PlacesKept, SameStay
    <3> QED
      BY <1>1, <1>3, <1>5, <1>6, <3>1, <3>3 DEF SoloInv, Reserving
  <2>3. CASE LastHour(t)
    <3>1. u = Idle /\ u.pc = "idle"
      BY <1>1, <1>8, <2>3, RouteMoves DEF ReserveStore, NextHourOrAnswer, Answer, Idle
    <3> QED
      BY <1>1, <1>3, <1>5, <1>6, <3>1 DEF SoloInv, Reserving
  <2> QED
    BY <2>2, <2>3
<1> QED
  BY <1>5, <1>7, <1>8

LEMMA UpdateKeepsSoloInv ==
  ASSUME NEW w, Workers = {w}, SoloInv, Run(w),
         \/ UpdateReadCap(w)  \/ UpdateWriteCap(w) \/ UpdateReadSlot(w)
         \/ UpdateWriteSlot(w) \/ UpdateSave(w)
  PROVE  SoloInv'
<1> DEFINE t == thread[w]
           u == thread'[w]
<1>1. TypeInv /\ TypeInv' /\ w \in Workers /\ Solo = t /\ Solo' = u
  BY SoloIsTheWorker, RunKeepsTypes DEF SoloInv
<1>2. t.pc \in {"readCap", "writeCap", "readSlot", "writeSlot", "save"} /\ t.id \in Lots
      /\ t.h \in Hours
  <2>1. t.pc \in {"readCap", "writeCap", "readSlot", "writeSlot", "save"}
    BY DEF UpdateReadCap, UpdateWriteCap, UpdateReadSlot, UpdateWriteSlot, UpdateSave
  <2> QED
    BY <2>1, SoloKinds
<1>3. requests' = requests /\ requests <= MaxRequests /\ granted' = granted
      /\ reply' \in {reply, Updated}
  BY DEF SoloInv, UpdateReadCap, UpdateWriteCap, UpdateReadSlot, UpdateWriteSlot,
     UpdateSave, history, Answer
<1>4. ASSUME NEW n \in Lots, NEW h \in Hours
      PROVE  granted'[n][h] + 0 <= requests'
  BY <1>1, <1>2, <1>3 DEF SoloInv
<1>5. CASE UpdateReadCap(w)
  <2>1. /\ u.pc = "writeCap" /\ u.oldCap = capacity[t.id]
        /\ u.id = t.id /\ u.newCap = t.newCap /\ t.pc = "readCap" /\ capacity' = capacity
    BY <1>1, <1>5, UpdateMoves DEF UpdateReadCap, shared
  <2> QED
    BY <1>1, <1>3, <1>4, <2>1 DEF SoloInv, Reserving
<1>6. CASE UpdateWriteCap(w)
  <2>1. u.pc = "readSlot"
    BY <1>1, <1>6, UpdateMoves
  <2> QED
    BY <1>1, <1>3, <1>4, <2>1 DEF SoloInv, Reserving
<1>7. CASE UpdateReadSlot(w)
  <2>1. u.pc = "writeSlot" /\ u.id = t.id /\ u.h = t.h /\ u.value = Free(slots, t.id, t.h)
    BY <1>1, <1>7, UpdateMoves
  <2>2. Free(slots', t.id, t.h) = Free(slots, t.id, t.h)
    BY <1>1, <1>2, <1>7, TableChanges
  <2> QED
    BY <1>1, <1>3, <1>4, <2>1, <2>2 DEF SoloInv, Reserving
<1>8. CASE UpdateWriteSlot(w)
  <2>1. u.pc \in {"readSlot", "save"}
    BY <1>1, <1>8, UpdateMoves
  <2> QED
    BY <1>1, <1>3, <1>4, <2>1 DEF SoloInv, Reserving
<1>9. CASE UpdateSave(w)
  <2>1. u.pc = "idle"
    BY <1>1, <1>9, UpdateMoves DEF Idle
  <2> QED
    BY <1>1, <1>3, <1>4, <2>1 DEF SoloInv, Reserving
<1> QED
  BY <1>5, <1>6, <1>7, <1>8, <1>9

LEMMA NextSoloInv ==
  ASSUME NEW w, Workers = {w}
  PROVE  SoloInv /\ [Next]_vars => SoloInv'
<1> SUFFICES ASSUME SoloInv, [Next]_vars PROVE SoloInv'
  OBVIOUS
<1>1. CASE Arrival(w)
  BY <1>1, ArrivalKeepsSoloInv
<1>2. CASE Run(w)
  BY <1>2, SearchKeepsSoloInv, ReserveKeepsSoloInv, UpdateKeepsSoloInv DEF Run
<1>3. CASE UNCHANGED vars
  <2>1. TypeInv'
    BY <1>3, NextTypes DEF SoloInv
  <2>2. Solo' = Solo
    BY <1>3 DEF Solo, vars
  <2>3. UNCHANGED <<slots, capacity, granted, requests, reply>>
    BY <1>3 DEF vars, shared, history
  <2>4. /\ SearchedSoFar(Solo)' <=> SearchedSoFar(Solo)
        /\ PlacesKept(Solo)' <=> PlacesKept(Solo)
        /\ Reserving' <=> Reserving
    BY <2>2, <2>3 DEF SearchedSoFar, PlacesKept, Available, Reserving
  <2> QED
    BY <2>1, <2>2, <2>3, <2>4 DEF SoloInv
<1> QED
  BY <1>1, <1>2, <1>3 DEF Next

-----------------------------------------------------------------------------
(***************************************************************************)
(* The refinement mapping.                                                 *)
(***************************************************************************)

\* SmartParking computes with the same data.
LEMMA SameTables ==
  /\ Sequential!Lots = Lots /\ Sequential!Hours = Hours /\ Sequential!NoNode = NoNode
  /\ \A s, e : Sequential!ValidHours(s, e) <=> ValidHours(s, e)
  /\ \A s, e : Sequential!Stay(s, e) = Stay(s, e)
  /\ \A sl, n, h : Sequential!Free(sl, n, h) = Free(sl, n, h)
  /\ \A cap : Sequential!FreshSlots(cap) = FreshSlots(cap)
BY DEF Sequential!Lots, Lots, Sequential!Hours, Hours, Sequential!NoNode, NoNode,
       Sequential!ValidHours, ValidHours, Sequential!Stay, Stay, Sequential!Free, Free,
       Sequential!FreshSlots, FreshSlots

LEMMA SameComputations ==
  /\ \A sl, n, s, e : Sequential!AvailableAtTime(sl, n, s, e) <=> AvailableAtTime(sl, n, s, e)
  /\ \A sl, n, s, e : Sequential!ReserveSlot(sl, n, s, e) = ReserveSlot(sl, n, s, e)
  /\ \A x, y, z : Sequential!Recount(x, y, z) = Recount(x, y, z)
  /\ \A sl, n, x, y : Sequential!UpdateSlots(sl, n, x, y) = UpdateSlots(sl, n, x, y)
<1>1. \A sl, n, s, e : Sequential!AvailableAtTime(sl, n, s, e) <=> AvailableAtTime(sl, n, s, e)
  BY SameTables DEF Sequential!AvailableAtTime, AvailableAtTime
<1>2. \A sl, n, s, e : Sequential!ReserveSlot(sl, n, s, e) = ReserveSlot(sl, n, s, e)
  <2> SUFFICES ASSUME NEW sl, NEW n, NEW s, NEW e
               PROVE  Sequential!ReserveSlot(sl, n, s, e) = ReserveSlot(sl, n, s, e)
    OBVIOUS
  <2>1. Sequential!ValidHours(s, e) <=> ValidHours(s, e)
    BY SameTables
  <2>2. [h \in Sequential!Hours |-> IF h \in Sequential!Stay(s, e) /\ sl[n][h] > 0
                                    THEN sl[n][h] - 1 ELSE sl[n][h]]
        = [h \in Hours |-> IF h \in Stay(s, e) /\ sl[n][h] > 0
                           THEN sl[n][h] - 1 ELSE sl[n][h]]
    BY SameTables
  <2> QED
    BY <2>1, <2>2 DEF Sequential!ReserveSlot, ReserveSlot
<1>3. \A x, y, z : Sequential!Recount(x, y, z) = Recount(x, y, z)
  BY DEF Sequential!Recount, Recount, Sequential!NonNegative, NonNegative
<1>4. \A sl, n, x, y : Sequential!UpdateSlots(sl, n, x, y) = UpdateSlots(sl, n, x, y)
  BY <1>3, SameTables DEF Sequential!UpdateSlots, UpdateSlots
<1> QED
  BY <1>1, <1>2, <1>3, <1>4

LEMMA SamePaths ==
  /\ \A a, b : Sequential!Route(a, b) = Route(a, b)
  /\ \A p, n : Sequential!TrimPath(p, n) = TrimPath(p, n)
  /\ Sequential!NoReply = NoReply /\ Sequential!Refused = Refused
  /\ Sequential!Updated = Updated
  /\ \A a, b, n, f, p : Sequential!Reserved(a, b, n, f, p) = Reserved(a, b, n, f, p)
BY DEF Sequential!Route, Route, Sequential!TrimPath, TrimPath,
       Sequential!NoReply, NoReply, Sequential!Refused, Refused,
       Sequential!Updated, Updated, Sequential!Reserved, Reserved

\* Tables with the same entries and the same free places are the same.
LEMMA TablesEqual ==
  ASSUME NEW f, NEW g, IsTable(f), IsTable(g), DOMAIN f = DOMAIN g,
         \A n \in DOMAIN f, h \in Hours : Free(f, n, h) = Free(g, n, h)
  PROVE  f = g
<1>1. \A n \in DOMAIN f : f[n] \in [Hours -> Int] /\ g[n] \in [Hours -> Int]
  BY DEF IsTable
<1>2. \A n \in DOMAIN f, h \in Hours : f[n][h] = g[n][h]
  BY DEF Free
<1>3. \A n \in DOMAIN f : f[n] = g[n]
  BY <1>1, <1>2
<1> QED
  BY <1>3 DEF IsTable

\* SlotsAhead for a handler t and a table sl.
Ahead(t, sl) ==
  IF t.pc \in {"test", "load", "store"}
  THEN [sl EXCEPT ![Candidate(t)] =
          [h \in Hours |-> IF h \in ToTake(t) THEN @[h] - 1 ELSE @[h]]]
  ELSE IF t.pc \in {"readSlot", "writeSlot"}
  THEN [n \in DOMAIN sl \cup {t.id} |->
          [h \in Hours |-> IF n = t.id /\ h >= t.h
                           THEN Recount(t.oldCap, t.newCap, Free(sl, n, h))
                           ELSE Free(sl, n, h)]]
  ELSE sl

LEMMA SlotsAheadIsAhead ==
  SlotsAhead = Ahead(Solo, slots) /\ SlotsAhead' = Ahead(Solo', slots')
BY DEF SlotsAhead, Ahead, Reserving, Recounting, ToTake

\* The table ahead of a /route handler that has still places to take ...
LEMMA AheadOfReserve ==
  ASSUME NEW t, NEW sl, IsTable(sl), t.pc \in {"test", "load", "store"},
         Candidate(t) \in DOMAIN sl
  PROVE  /\ IsTable(Ahead(t, sl)) /\ DOMAIN Ahead(t, sl) = DOMAIN sl
         /\ \A n \in DOMAIN sl, h \in Hours :
              Free(Ahead(t, sl), n, h) = IF n = Candidate(t) /\ h \in ToTake(t)
                                         THEN Free(sl, n, h) - 1 ELSE Free(sl, n, h)
<1> DEFINE c == Candidate(t)
           row == [h \in Hours |-> IF h \in ToTake(t) THEN sl[c][h] - 1 ELSE sl[c][h]]
<1>1. Ahead(t, sl) = [sl EXCEPT ![c] = row]
  BY DEF Ahead
<1>2. row \in [Hours -> Int]
  BY DEF IsTable
<1>3. \A h \in Hours : row[h] = IF h \in ToTake(t) THEN sl[c][h] - 1 ELSE sl[c][h]
  OBVIOUS
<1> HIDE DEF c, row
<1> QED
  BY <1>1, <1>2, <1>3 DEF IsTable, Free, c

\* ... and of an /update handler in its loop.
LEMMA AheadOfUpdate ==
  ASSUME NEW t, NEW sl, IsTable(sl), t.pc \in {"readSlot", "writeSlot"},
         t.id \in Lots, t.oldCap \in Nat, t.newCap \in Nat
  PROVE  /\ IsTable(Ahead(t, sl)) /\ DOMAIN Ahead(t, sl) = DOMAIN sl \cup {t.id}
         /\ \A n \in DOMAIN sl \cup {t.id}, h \in Hours :
              Free(Ahead(t, sl), n, h) = IF n = t.id /\ h >= t.h
                                         THEN Recount(t.oldCap, t.newCap, Free(sl, n, h))
                                         ELSE Free(sl, n, h)
<1> DEFINE new(n) == [h \in Hours |-> IF n = t.id /\ h >= t.h
                                      THEN Recount(t.oldCap, t.newCap, Free(sl, n, h))
                                      ELSE Free(sl, n, h)]
<1>1. Ahead(t, sl) = [n \in DOMAIN sl \cup {t.id} |-> new(n)]
  BY DEF Ahead
<1>2. \A n, h : h \in Hours => Free(sl, n, h) \in Int
  BY DEF Free, IsTable
<1>3. \A n : new(n) \in [Hours -> Int]
  BY <1>2 DEF Recount, NonNegative
<1>4. \A n, h : h \in Hours => new(n)[h] = IF n = t.id /\ h >= t.h
                                      THEN Recount(t.oldCap, t.newCap, Free(sl, n, h))
                                      ELSE Free(sl, n, h)
  OBVIOUS
<1> HIDE DEF new
<1>5. DOMAIN Ahead(t, sl) = DOMAIN sl \cup {t.id} /\ DOMAIN sl \subseteq Lots
  BY <1>1 DEF IsTable
<1>6. IsTable(Ahead(t, sl))
  BY <1>1, <1>3, <1>5 DEF IsTable
<1>7. \A n \in DOMAIN sl \cup {t.id}, h \in Hours : Free(Ahead(t, sl), n, h) = new(n)[h]
  BY <1>1, <1>5 DEF Free
<1> QED
  BY <1>4, <1>5, <1>6, <1>7

-----------------------------------------------------------------------------

\* The file as SmartParking sees it.
FileAhead == IF Recounting \/ Solo.pc = "save" THEN capacity ELSE file

\* A worker that is neither taking places nor recounting has nothing ahead.
LEMMA NothingAhead ==
  ASSUME NEW w, Workers = {w}
  PROVE  /\ thread[w].pc \in {"idle", "check", "readCap", "writeCap"} =>
              SlotsAhead = slots /\ FileAhead = file /\ ReplyAhead = reply
         /\ thread'[w].pc \in {"idle", "check", "readCap", "writeCap"} =>
              SlotsAhead' = slots' /\ FileAhead' = file' /\ ReplyAhead' = reply'
<1>1. Solo = thread[w] /\ Solo' = thread'[w]
  BY SoloIsTheWorker
<1> QED
  BY <1>1 DEF SlotsAhead, FileAhead, ReplyAhead, Reserving, Recounting

LEMMA Stutters ==
  ASSUME UNCHANGED <<capacity, granted, forgot>>, SlotsAhead' = SlotsAhead,
         FileAhead' = FileAhead, ReplyAhead' = ReplyAhead
  PROVE  UNCHANGED Sequential!vars
BY DEF Sequential!vars, FileAhead

LEMMA InitIsSequential ==
  ASSUME NEW w, Workers = {w}
  PROVE  Init => Sequential!Init
<1> SUFFICES ASSUME Init PROVE Sequential!Init
  OBVIOUS
<1>1. thread[w].pc = "idle"
  BY DEF Init, Idle
<1>2. SlotsAhead = slots /\ FileAhead = file /\ ReplyAhead = reply
  BY <1>1, NothingAhead
<1> QED
  BY <1>2, SameTables, SamePaths DEF Init, Sequential!Init, FileAhead

\* Only a refusal of /route or /update is answered on the spot.
LEMMA ArrivalIsSequential ==
  ASSUME NEW w, Workers = {w}, SoloInv, Arrival(w)
  PROVE  Sequential!Next \/ UNCHANGED Sequential!vars
<1> DEFINE t == thread[w]
           u == thread'[w]
<1>1. TypeInv /\ w \in Workers
  BY SoloIsTheWorker DEF SoloInv
<1>2. \A x : thread' = [thread EXCEPT ![w] = x] => u = x
  BY <1>1 DEF TypeInv, TypeOK
<1>3. t.pc = "idle"
  BY DEF Arrival, Accept, RouteArrives, RouteRefused, UpdateArrives, UpdateRefused
<1>4. SlotsAhead = slots /\ FileAhead = file /\ ReplyAhead = reply
  BY <1>3, NothingAhead
<1>5. u.pc \in {"idle", "check", "readCap"} =>
        SlotsAhead' = slots' /\ FileAhead' = file' /\ ReplyAhead' = reply'
  BY NothingAhead
<1>6. ASSUME NEW src \in Nodes \cup {NoNode}, NEW dest \in Nodes \cup {NoNode},
             NEW startH \in HourInputs, NEW endH \in HourInputs,
             RouteArrives(w, src, dest, startH, endH)
      PROVE  UNCHANGED Sequential!vars
  <2>1. u.pc = "check" /\ UNCHANGED <<shared, reply, history>>
    BY <1>2, <1>6 DEF RouteArrives, Goto, RouteThread
  <2> QED
    BY <1>4, <1>5, <2>1, Stutters DEF shared, history
<1>7. ASSUME NEW src \in Nodes \cup {NoNode}, NEW dest \in Nodes \cup {NoNode},
             NEW startH \in HourInputs, NEW endH \in HourInputs,
             RouteRefused(w, src, dest, startH, endH)
      PROVE  Sequential!Next
  <2>1. u.pc = "idle" /\ reply' = Refused /\ UNCHANGED <<shared, history>>
    BY <1>2, <1>7 DEF RouteRefused, Answer, Goto, Idle
  <2>2. ~ Sequential!Routable(src, dest, startH, endH)
    BY <1>7, LotsAreNodes, SameTables, SamePaths DEF RouteRefused, Sequential!Routable
  <2>3. /\ ReplyAhead' = Refused /\ SlotsAhead' = SlotsAhead /\ FileAhead' = FileAhead
        /\ UNCHANGED <<capacity, granted, forgot>>
    BY <1>4, <1>5, <2>1 DEF shared, history
  <2>4. Sequential!RouteRefused(src, dest, startH, endH)
    BY <2>2, <2>3, SamePaths DEF Sequential!RouteRefused, FileAhead
  <2> QED
    BY <2>4, SameTables DEF Sequential!Next
<1>8. ASSUME NEW id, NEW newCap, UpdateArrives(w, id, newCap)
      PROVE  UNCHANGED Sequential!vars
  <2>1. u.pc = "readCap" /\ UNCHANGED <<shared, reply, history>>
    BY <1>2, <1>8 DEF UpdateArrives, Goto, UpdateThread
  <2> QED
    BY <1>4, <1>5, <2>1, Stutters DEF shared, history
<1>9. ASSUME NEW id \in Nodes \cup {NoNode}, NEW newCap \in CapInputs,
             UpdateRefused(w, id, newCap)
      PROVE  Sequential!Next
  <2>1. u.pc = "idle" /\ reply' = Refused /\ UNCHANGED <<shared, history>>
    BY <1>2, <1>9 DEF UpdateRefused, Answer, Goto, Idle
  <2>2. ~ Sequential!UpdateAccepted(id, newCap)
    BY <1>9, SameTables DEF UpdateRefused, UpdateAccepted, Sequential!UpdateAccepted
  <2>3. /\ ReplyAhead' = Refused /\ SlotsAhead' = SlotsAhead /\ FileAhead' = FileAhead
        /\ UNCHANGED <<capacity, granted, forgot>>
    BY <1>4, <1>5, <2>1 DEF shared, history
  <2>4. Sequential!UpdateRefused(id, newCap)
    BY <2>2, <2>3, SamePaths DEF Sequential!UpdateRefused, FileAhead
  <2> QED
    BY <2>4, SameTables DEF Sequential!Next
<1> QED
  BY <1>6, <1>7, <1>8, <1>9 DEF Arrival

\* HourTaken: nothing happens, or the search ends without a place.
LEMMA HourTakenIsSequential ==
  ASSUME NEW w, Workers = {w}, SoloInv, Run(w), HourTaken(w)
  PROVE  Sequential!Next \/ UNCHANGED Sequential!vars
<1> DEFINE t == thread[w]
           u == thread'[w]
<1>1. TypeInv /\ w \in Workers /\ Solo = t
  BY SoloIsTheWorker DEF SoloInv
<1>2. t.pc = "check" /\ SearchedSoFar(t) /\ Free(slots, Candidate(t), t.h) <= 0
  BY <1>1 DEF HourTaken, SoloInv
<1>3. u.pc \in {"idle", "check"} /\ UNCHANGED <<shared, history>>
  BY <1>1, RouteMoves DEF HourTaken, Idle
<1>4. /\ SlotsAhead = slots /\ FileAhead = file /\ ReplyAhead = reply
      /\ SlotsAhead' = SlotsAhead /\ FileAhead' = FileAhead /\ ReplyAhead' = reply'
      /\ UNCHANGED <<capacity, granted, forgot>>
  BY <1>2, <1>3, NothingAhead DEF shared, history
<1>5. CASE reply' = reply
  BY <1>4, <1>5, Stutters
<1>6. CASE t.at = 1 /\ reply' = Refused
  <2>1. /\ t \in RouteThreads /\ t.h \in t.startH .. (t.endH - 1)
        /\ Candidate(t) \in Lots /\ t.dest \in Lots /\ t.src \in Lots
        /\ Path(t) \in Seq(Lots) /\ Len(Path(t)) \in Nat \ {0}
    BY <1>1, <1>2, SoloKinds, HandlerKinds
  <2>2. IsFallback(t) /\ Candidate(t) = Path(t)[1]
    BY <1>6, <2>1 DEF IsFallback, Candidate
  <2>3. ~ Available(t, Candidate(t))
    BY <1>1, <1>2, <2>1, AvailableMeans
  <2>4. \A i \in DOMAIN Path(t) : ~ Available(t, Path(t)[i])
    <3>1. \A i \in DOMAIN Path(t) : i = 1 \/ i \in (t.at + 1) .. Len(Path(t))
      BY <1>6, <2>1
    <3> QED
      BY <1>2, <2>2, <2>3, <3>1 DEF SearchedSoFar
  <2>5. /\ ~ Sequential!AvailableAtTime(SlotsAhead, t.dest, t.startH, t.endH)
        /\ Sequential!NothingOnPath(SlotsAhead, Sequential!Route(t.src, t.dest), t.startH, t.endH)
    BY <1>2, <1>4, <2>2, <2>4, SameComputations, SamePaths
       DEF SearchedSoFar, Available, Path, Sequential!NothingOnPath
  <2>6. Sequential!Routable(t.src, t.dest, t.startH, t.endH)
    BY <1>2, <2>1, SameTables, SamePaths, LotsAreNodes
       DEF SearchedSoFar, Sequential!Routable, Path
  <2>7. Sequential!RouteRefused(t.src, t.dest, t.startH, t.endH)
    BY <1>4, <1>6, <2>5, <2>6, SamePaths DEF Sequential!RouteRefused, FileAhead
  <2> QED
    BY <1>2, <2>1, <2>7, LotsAreNodes DEF Sequential!Next, SearchedSoFar
<1> QED
  BY <1>5, <1>6 DEF HourTaken, Answer

\* HourFree at the last hour: the candidate is booked as a whole.
LEMMA ChoiceIsSequential ==
  ASSUME NEW w, Workers = {w}, SoloInv, Run(w), HourFree(w), LastHour(thread[w])
  PROVE  Sequential!Next
<1> DEFINE t == thread[w]
           u == thread'[w]
           c == Candidate(t)
<1>1. TypeInv /\ w \in Workers /\ Solo = t /\ Solo' = u
  BY SoloIsTheWorker DEF SoloInv
<1>2. /\ t.pc = "check" /\ SearchedSoFar(t) /\ Free(slots, c, t.h) > 0
      /\ slots' = slots /\ UNCHANGED <<capacity, file, forgot>>
  BY <1>1 DEF HourFree, SoloInv, shared
<1>3. /\ t \in RouteThreads
      /\ c \in Lots /\ t.dest \in Lots /\ t.src \in Lots
      /\ Path(t) \in Seq(Lots) /\ Len(Path(t)) \in Nat \ {0}
      /\ t.at \in 1 .. (Len(Path(t)) + 1)
      /\ t.startH \in Int /\ t.endH \in Int /\ t.h \in Int
      /\ Stay(t.startH, t.endH) \subseteq Hours
  <2>1. /\ t \in RouteThreads
        /\ c \in Lots /\ t.dest \in Lots /\ t.src \in Lots
        /\ Path(t) \in Seq(Lots) /\ Len(Path(t)) \in Nat \ {0}
        /\ t.at \in 1 .. (Len(Path(t)) + 1)
        /\ t.startH \in Hours /\ t.endH \in 1 .. HoursPerDay /\ t.h \in Hours
    BY <1>2, SoloKinds
  <2> HIDE DEF t, c
  <2> QED
    BY <2>1, HoursAssumption DEF Hours, Stay
<1>4. Available(t, c)
  <2>1. ASSUME NEW h \in t.startH .. (t.endH - 1) PROVE Free(slots, c, h) > 0
    <3>1. h = t.h \/ h \in t.startH .. (t.h - 1)
      BY <1>3 DEF LastHour
    <3> QED
      BY <1>2, <3>1 DEF SearchedSoFar
  <2> QED
    BY <1>1, <1>2, <1>3, <2>1, AvailableMeans DEF SearchedSoFar
<1>5. u.pc = "test" /\ SameStay(t, u) /\ u.h = t.startH /\ Path(u) = Path(t)
      /\ (IsFallback(u) <=> IsFallback(t))
  BY <1>1, RouteMoves DEF SameStay, Path, IsFallback
<1>6. c \in DOMAIN slots /\ IsTable(slots)
  BY <1>1, <1>4 DEF Available, AvailableAtTime, TypeInv, TypeOK, IsTable
<1>7. SlotsAhead = slots /\ FileAhead = file /\ FileAhead' = FileAhead
  <2>1. FileAhead' = file'
    BY <1>1, <1>5 DEF FileAhead, Recounting
  <2> QED
    BY <1>2, <2>1, NothingAhead
<1>8. SlotsAhead' = ReserveSlot(slots, c, t.startH, t.endH)
  <2> DEFINE f == Ahead(u, slots)
             g == ReserveSlot(slots, c, t.startH, t.endH)
  <2>1. SlotsAhead' = f
    BY <1>1, <1>2, SlotsAheadIsAhead
  <2>2. /\ IsTable(f) /\ DOMAIN f = DOMAIN slots
        /\ \A n \in DOMAIN slots, h \in Hours :
             Free(f, n, h) = IF n = c /\ h \in Stay(t.startH, t.endH)
                             THEN Free(slots, n, h) - 1 ELSE Free(slots, n, h)
    <3>1. Candidate(u) = c /\ ToTake(u) = Stay(t.startH, t.endH)
      BY <1>5 DEF SameStay, ToTake, Stay
    <3> QED
      BY <1>5, <1>6, <3>1, AheadOfReserve
  <2>3. /\ IsTable(g) /\ \A n \in Lots, h \in Hours :
             Free(g, n, h) = IF n = c /\ h \in Stay(t.startH, t.endH)
                             THEN Free(slots, n, h) - 1 ELSE Free(slots, n, h)
    BY <1>3, <1>4, <1>6, ReserveSlotFree DEF Available
  <2>4. DOMAIN g = DOMAIN slots
    BY DEF ReserveSlot
  <2> HIDE DEF f, g
  <2>5. f = g
    <3>1. DOMAIN slots \subseteq Lots
      BY <1>6 DEF IsTable
    <3>2. \A n \in DOMAIN f, h \in Hours : Free(f, n, h) = Free(g, n, h)
      BY <2>2, <2>3, <3>1
    <3> QED
      BY <2>2, <2>3, <2>4, <3>2, TablesEqual
  <2> QED
    BY <2>1, <2>5 DEF g
<1>9. Sequential!Confirm(c, t.startH, t.endH)
  <2>1. ASSUME NEW h \in Stay(t.startH, t.endH) PROVE granted[c][h] < MaxRequests
    <3>1. granted[c][h] + 1 <= requests /\ granted[c][h] \in Nat /\ requests \in Nat
          /\ requests <= MaxRequests
      BY <1>1, <1>2, <1>3, FreeIsInt DEF SoloInv, TypeInv, TypeOK
    <3> QED
      BY <3>1, BoundAssumption
  <2>2. granted' = [granted EXCEPT ![c] =
                     [h \in Hours |-> IF h \in Stay(t.startH, t.endH) THEN @[h] + 1 ELSE @[h]]]
    BY DEF HourFree
  <2> HIDE DEF t, c
  <2> QED
    BY <2>1, <2>2, SameTables DEF Sequential!Confirm
<1>10. ReplyAhead' = RouteReply(u) /\ Candidate(u) = c /\ u.src = t.src /\ u.dest = t.dest
  BY <1>1, <1>5 DEF ReplyAhead, Reserving, SameStay
<1>11. Sequential!Routable(t.src, t.dest, t.startH, t.endH)
  <2>1. Path(t) # << >>
    BY <1>3
  <2> QED
    BY <1>2, <1>3, <2>1, SameTables, SamePaths, LotsAreNodes
       DEF SearchedSoFar, Sequential!Routable, Path
<1>12. CASE ~ IsFallback(t)
  <2>1. c = t.dest
    BY <1>12 DEF Candidate
  <2>2. IsFallback(u) = FALSE
    BY <1>5, <1>12 DEF IsFallback
  <2>3. ReplyAhead' = Reserved(t.src, t.dest, t.dest, FALSE, Route(t.src, t.dest))
    BY <1>5, <1>10, <2>1, <2>2 DEF RouteReply, Path
  <2>4. Sequential!RouteToDestination(t.src, t.dest, t.startH, t.endH)
    BY <1>2, <1>4, <1>7, <1>8, <1>9, <1>11, <2>1, <2>3, SameComputations, SamePaths
       DEF Sequential!RouteToDestination, Available, FileAhead
  <2> QED
    BY <1>2, <1>3, <2>4, LotsAreNodes DEF Sequential!Next, SearchedSoFar
<1>13. CASE IsFallback(t)
  <2>1. t.at \in DOMAIN Path(t) /\ c = Path(t)[t.at] /\ ~ Available(t, t.dest) /\ c # t.dest
    BY <1>2, <1>3, <1>4, <1>13 DEF IsFallback, Candidate, SearchedSoFar
  <2>2. ReplyAhead' = Reserved(t.src, t.dest, c, TRUE, TrimPath(Path(t), c))
    <3>1. IsFallback(u) = TRUE
      BY <1>5, <1>13 DEF IsFallback
    <3> QED
      BY <1>5, <1>10, <2>1, <3>1 DEF RouteReply
  <2>3. ReplyAhead' = Sequential!FallbackReply(t.src, t.dest, c)
    BY <2>1, <2>2, SamePaths DEF Sequential!FallbackReply, Path
  <2>4. Sequential!FallbackIndex(SlotsAhead, Sequential!Route(t.src, t.dest), t.startH, t.endH, t.at)
    BY <1>2, <1>4, <1>7, <2>1, SameComputations, SamePaths
       DEF Sequential!FallbackIndex, SearchedSoFar, Available, Path
  <2>5. ~ Sequential!AvailableAtTime(SlotsAhead, t.dest, t.startH, t.endH)
    BY <1>7, <2>1, SameComputations DEF Available
  <2>6. SlotsAhead' = Sequential!ReserveSlot(SlotsAhead, c, t.startH, t.endH)
    BY <1>7, <1>8, SameComputations
  <2>7. t.at \in DOMAIN Sequential!Route(t.src, t.dest)
        /\ c = Sequential!Route(t.src, t.dest)[t.at]
    BY <2>1, SamePaths DEF Path
  <2>8. Sequential!RouteToFallback(t.src, t.dest, t.startH, t.endH)
    <3> HIDE DEF c, t
    <3> QED
      BY <1>2, <1>7, <1>9, <1>11, <2>3, <2>4, <2>5, <2>6, <2>7
         DEF Sequential!RouteToFallback, FileAhead
  <2> QED
    BY <1>2, <1>3, <2>8, LotsAreNodes DEF Sequential!Next, SearchedSoFar
<1> QED
  BY <1>12, <1>13

\* The loop of reserveSlot: each place it takes was already taken ahead.
LEMMA ReserveIsSequential ==
  ASSUME NEW w, Workers = {w}, SoloInv, Run(w),
         ReserveTestFree(w) \/ ReserveLoad(w) \/ ReserveStore(w)
  PROVE  UNCHANGED Sequential!vars
<1> DEFINE t == thread[w]
           u == thread'[w]
           c == Candidate(t)
<1>1. TypeInv /\ TypeInv' /\ w \in Workers /\ Solo = t /\ Solo' = u
  BY SoloIsTheWorker, RunKeepsTypes DEF SoloInv
<1>2. /\ t.pc \in {"test", "load", "store"} /\ PlacesKept(t)
      /\ UNCHANGED <<capacity, file, granted, forgot>>
  BY <1>1 DEF ReserveTestFree, ReserveLoad, ReserveStore, SoloInv, Reserving,
     shared, history
<1>3. /\ t.startH <= t.h /\ t.h < t.endH /\ t.h \in Hours /\ c \in Lots
      /\ t.startH \in Hours /\ t.endH \in 1 .. HoursPerDay
  BY <1>2, SoloKinds
<1>4. t.h \in Int /\ t.endH \in Int /\ t.h \in ToTake(t)
  BY <1>3, HoursAssumption DEF Hours, ToTake
<1>5. c \in DOMAIN slots /\ IsTable(slots) /\ IsTable(slots')
  BY <1>1, <1>2, <1>4 DEF PlacesKept, Free, TypeInv, TypeOK, IsTable
<1>6. /\ SlotsAhead = Ahead(t, slots) /\ SlotsAhead' = Ahead(u, slots')
      /\ FileAhead = file /\ ReplyAhead = RouteReply(t)
  BY <1>1, <1>2, SlotsAheadIsAhead DEF FileAhead, ReplyAhead, Reserving, Recounting
<1>7. /\ IsTable(SlotsAhead) /\ DOMAIN SlotsAhead = DOMAIN slots
      /\ \A n \in DOMAIN slots, h \in Hours :
           Free(SlotsAhead, n, h) = IF n = c /\ h \in ToTake(t)
                                    THEN Free(slots, n, h) - 1 ELSE Free(slots, n, h)
  BY <1>2, <1>5, <1>6, AheadOfReserve
<1>8. ASSUME SameStay(t, u), u.pc \in {"test", "load", "store"}
      PROVE  FileAhead' = FileAhead /\ ReplyAhead' = ReplyAhead
  <2>1. RouteReply(u) = RouteReply(t)
    BY <1>8 DEF SameStay, RouteReply, IsFallback, Path
  <2> QED
    BY <1>1, <1>2, <1>6, <1>8, <2>1 DEF FileAhead, ReplyAhead, Reserving, Recounting
<1>9. CASE ReserveTestFree(w) \/ ReserveLoad(w)
  <2>1. /\ SameStay(t, u) /\ u.pc \in {"load", "store"} /\ u.h = t.h /\ slots' = slots
    BY <1>1, <1>9, RouteMoves DEF ReserveTestFree, ReserveLoad, shared
  <2>2. Ahead(u, slots') = Ahead(t, slots)
    <3>1. Candidate(u) = c /\ ToTake(u) = ToTake(t)
      BY <2>1 DEF SameStay, ToTake
    <3> QED
      BY <1>2, <2>1, <3>1 DEF Ahead
  <2> QED
    BY <1>2, <1>6, <1>8, <2>1, <2>2, Stutters
<1>10. CASE ReserveStore(w)
  <2>1. /\ t.pc = "store" /\ DOMAIN slots' = DOMAIN slots
        /\ t.value = Free(slots, c, t.h)
    BY <1>2, <1>10 DEF ReserveStore, Stored, PlacesKept
  <2>2. \A n \in Lots, h \in Hours :
          Free(slots', n, h) = IF n = c /\ h = t.h THEN Free(slots, c, t.h) - 1
                                                    ELSE Free(slots, n, h)
    BY <1>1, <1>10, <2>1, TableChanges
  <2>3. DOMAIN slots \subseteq Lots
    BY <1>5 DEF IsTable
  <2>4. CASE LastHour(t)
    <3>1. u = Idle /\ u.pc = "idle" /\ reply' = RouteReply(t)
      BY <1>1, <1>10, <2>4, RouteMoves DEF ReserveStore, NextHourOrAnswer, Answer, Idle
    <3>2. SlotsAhead' = slots' /\ FileAhead' = file' /\ ReplyAhead' = reply'
      BY <3>1, NothingAhead
    <3>3. \A h : h \in ToTake(t) <=> h = t.h
      BY <1>4, <2>4 DEF ToTake, LastHour
    <3>4. \A n \in DOMAIN slots, h \in Hours : Free(slots', n, h) = Free(SlotsAhead, n, h)
      BY <1>7, <2>2, <2>3, <3>3
    <3>5. slots' = SlotsAhead
      BY <1>5, <1>7, <2>1, <3>4, TablesEqual
    <3> QED
      BY <1>2, <1>6, <3>1, <3>2, <3>5, Stutters
  <2>5. CASE ~ LastHour(t)
    <3>1. SameStay(t, u) /\ u.pc = "test" /\ u.h = t.h + 1
      BY <1>1, <1>10, <2>5, RouteMoves
    <3>2. Candidate(u) = c /\ \A h : h \in ToTake(t) <=> h = t.h \/ h \in ToTake(u)
      BY <1>3, <1>4, <3>1 DEF ToTake, SameStay
    <3>3. t.h \notin ToTake(u)
      BY <1>4, <3>1 DEF ToTake
    <3>4. /\ IsTable(SlotsAhead') /\ DOMAIN SlotsAhead' = DOMAIN slots
          /\ \A n \in DOMAIN slots, h \in Hours :
               Free(SlotsAhead', n, h) = IF n = c /\ h \in ToTake(u)
                                         THEN Free(slots', n, h) - 1 ELSE Free(slots', n, h)
      <4>1. Candidate(u) \in DOMAIN slots'
        BY <1>5, <2>1, <3>2
      <4> QED
        BY <1>5, <1>6, <2>1, <3>1, <3>2, <4>1, AheadOfReserve
    <3>5. \A n \in DOMAIN slots, h \in Hours : Free(SlotsAhead', n, h) = Free(SlotsAhead, n, h)
      BY <1>7, <2>2, <2>3, <3>2, <3>3, <3>4
    <3>6. SlotsAhead' = SlotsAhead
      BY <1>7, <3>4, <3>5, TablesEqual
    <3> QED
      BY <1>2, <1>8, <3>1, <3>6, Stutters
  <2> QED
    BY <2>4, <2>5
<1> QED
  BY <1>9, <1>10

\* updateCapacity: the write of the capacity recounts every hour ahead.
LEMMA UpdateIsSequential ==
  ASSUME NEW w, Workers = {w}, SoloInv, Run(w),
         \/ UpdateReadCap(w)  \/ UpdateWriteCap(w) \/ UpdateReadSlot(w)
         \/ UpdateWriteSlot(w) \/ UpdateSave(w)
  PROVE  Sequential!Next \/ UNCHANGED Sequential!vars
<1> DEFINE t == thread[w]
           u == thread'[w]
<1>1. TypeInv /\ TypeInv' /\ w \in Workers /\ Solo = t /\ Solo' = u
  BY SoloIsTheWorker, RunKeepsTypes DEF SoloInv
<1>2. /\ t.pc \in {"readCap", "writeCap", "readSlot", "writeSlot", "save"}
      /\ t.id \in Lots /\ t.h \in Hours /\ t.oldCap \in Nat /\ t.newCap \in Nat
      /\ granted' = granted
      /\ t.pc = "writeSlot" => t.id \in DOMAIN slots
      /\ t.pc = "writeCap" => t.h = 0
  <2>1. t.pc \in {"readCap", "writeCap", "readSlot", "writeSlot", "save"}
        /\ granted' = granted
    BY DEF UpdateReadCap, UpdateWriteCap, UpdateReadSlot, UpdateWriteSlot, UpdateSave,
           history
  <2> QED
    BY <2>1, SoloKinds
<1>3. /\ IsTable(slots) /\ IsTable(slots') /\ Hours \subseteq Int /\ t.h \in Int
      /\ \A h \in Hours : 0 <= h /\ h < HoursPerDay
  BY <1>1, <1>2, HoursAssumption DEF TypeInv, TypeOK, IsTable, Hours
<1>4. SlotsAhead = Ahead(t, slots) /\ SlotsAhead' = Ahead(u, slots')
  BY <1>1, SlotsAheadIsAhead
<1>5. ASSUME t.pc \in {"readSlot", "writeSlot"}
      PROVE  /\ IsTable(SlotsAhead) /\ DOMAIN SlotsAhead = DOMAIN slots \cup {t.id}
             /\ \A n \in DOMAIN slots \cup {t.id}, h \in Hours :
                  Free(SlotsAhead, n, h) = IF n = t.id /\ h >= t.h
                                           THEN Recount(t.oldCap, t.newCap, Free(slots, n, h))
                                           ELSE Free(slots, n, h)
             /\ FileAhead = capacity /\ ReplyAhead = Updated
  <2>1. FileAhead = capacity /\ ReplyAhead = Updated
    BY <1>1, <1>5 DEF FileAhead, ReplyAhead, Reserving, Recounting
  <2> QED
    BY <1>2, <1>3, <1>4, <1>5, <2>1, AheadOfUpdate
<1>6. ASSUME u.pc \in {"readSlot", "writeSlot"}, u.id = t.id, u.oldCap = t.oldCap,
             u.newCap = t.newCap
      PROVE  /\ IsTable(SlotsAhead') /\ DOMAIN SlotsAhead' = DOMAIN slots' \cup {t.id}
             /\ \A n \in DOMAIN slots' \cup {t.id}, h \in Hours :
                  Free(SlotsAhead', n, h) = IF n = t.id /\ h >= u.h
                                            THEN Recount(t.oldCap, t.newCap, Free(slots', n, h))
                                            ELSE Free(slots', n, h)
             /\ FileAhead' = capacity' /\ ReplyAhead' = Updated
  <2>1. FileAhead' = capacity' /\ ReplyAhead' = Updated
    BY <1>1, <1>6 DEF FileAhead, ReplyAhead, Reserving, Recounting
  <2> QED
    BY <1>2, <1>3, <1>4, <1>6, <2>1, AheadOfUpdate
<1>7. CASE UpdateReadCap(w)
  <2>1. t.pc = "readCap" /\ u.pc = "writeCap" /\ UNCHANGED <<shared, reply, history>>
    BY <1>1, <1>7, UpdateMoves DEF UpdateReadCap
  <2> QED
    BY <2>1, NothingAhead, Stutters DEF shared, history
<1>8. CASE UpdateWriteCap(w)
  <2>1. /\ t.pc = "writeCap" /\ t.oldCap = capacity[t.id] /\ t.newCap \in CapInputs
        /\ slots' = slots
    BY <1>1, <1>8 DEF UpdateWriteCap, SoloInv
  <2>2. /\ u.pc = "readSlot" /\ u.id = t.id /\ u.oldCap = t.oldCap
        /\ u.newCap = t.newCap /\ u.h = 0
    BY <1>1, <1>2, <1>8, <2>1, UpdateMoves
  <2>3. SlotsAhead = slots /\ FileAhead = file /\ FileAhead' = capacity'
        /\ ReplyAhead' = Updated
    BY <1>6, <2>1, <2>2, NothingAhead
  <2>4. SlotsAhead' = UpdateSlots(slots, t.id, capacity[t.id], t.newCap)
    <3> DEFINE g == UpdateSlots(slots, t.id, t.oldCap, t.newCap)
    <3>1. IsTable(g) /\ \A n \in Lots, h \in Hours :
            Free(g, n, h) = IF n = t.id THEN Recount(t.oldCap, t.newCap, Free(slots, t.id, h))
                                        ELSE Free(slots, n, h)
      <4>1. ASSUME NEW id \in Lots, NEW o \in Nat, NEW c \in Nat
            PROVE  /\ IsTable(UpdateSlots(slots, id, o, c))
                   /\ \A n \in Lots, h \in Hours :
                        Free(UpdateSlots(slots, id, o, c), n, h) =
                          IF n = id THEN Recount(o, c, Free(slots, id, h))
                                    ELSE Free(slots, n, h)
        BY <1>3, UpdateSlotsFree
      <4>2. t.id \in Lots /\ t.oldCap \in Nat /\ t.newCap \in Nat
        BY <1>2
      <4> QED
        BY <4>1, <4>2
    <3>2. DOMAIN g = DOMAIN slots \cup {t.id}
      BY DEF UpdateSlots
    <3>3. /\ IsTable(SlotsAhead') /\ DOMAIN SlotsAhead' = DOMAIN slots \cup {t.id}
          /\ \A n \in DOMAIN slots \cup {t.id}, h \in Hours :
               Free(SlotsAhead', n, h) = IF n = t.id
                                         THEN Recount(t.oldCap, t.newCap, Free(slots, n, h))
                                         ELSE Free(slots, n, h)
      BY <1>3, <1>6, <2>1, <2>2
    <3>4. DOMAIN slots \cup {t.id} \subseteq Lots
      BY <1>2, <1>3 DEF IsTable
    <3> HIDE DEF g
    <3>5. \A n \in DOMAIN g, h \in Hours : Free(SlotsAhead', n, h) = Free(g, n, h)
      BY <3>1, <3>2, <3>3, <3>4
    <3>6. SlotsAhead' = g
      BY <3>1, <3>2, <3>3, <3>5, TablesEqual
    <3> QED
      BY <2>1, <3>6 DEF g
  <2>5. forgot' = forgot \cup Sequential!CutBelowReserved(t.id, t.newCap)
    BY <1>8, <2>1, <2>3, SameTables DEF UpdateWriteCap, Sequential!CutBelowReserved
  <2>6. Sequential!UpdateAccepted(t.id, t.newCap)
    BY <1>2, SameTables DEF Sequential!UpdateAccepted
  <2>7. capacity' = [capacity EXCEPT ![t.id] = t.newCap]
    BY <1>8 DEF UpdateWriteCap
  <2>8. SlotsAhead' = Sequential!UpdateSlots(SlotsAhead, t.id, capacity[t.id], t.newCap)
    BY <2>3, <2>4, SameComputations
  <2>9. Sequential!Update(t.id, t.newCap)
    BY <1>2, <2>3, <2>5, <2>6, <2>7, <2>8, SamePaths
       DEF Sequential!Update, Sequential!ChangeCapacity, FileAhead
  <2> QED
    BY <1>2, <2>1, <2>9, LotsAreNodes DEF Sequential!Next
<1>9. CASE UpdateReadSlot(w)
  <2>1. /\ t.pc = "readSlot" /\ UNCHANGED <<capacity, forgot>>
        /\ DOMAIN slots' = DOMAIN slots \cup {t.id}
    BY <1>9 DEF UpdateReadSlot, history
  <2>2. /\ u.pc = "writeSlot" /\ u.id = t.id /\ u.oldCap = t.oldCap
        /\ u.newCap = t.newCap /\ u.h = t.h
    BY <1>1, <1>9, UpdateMoves
  <2>3. \A n \in Lots, h \in Hours : Free(slots', n, h) = Free(slots, n, h)
    BY <1>1, <1>9, TableChanges
  <2>4. DOMAIN slots \cup {t.id} \subseteq Lots
    BY <1>2, <1>3 DEF IsTable
  <2>5. /\ DOMAIN SlotsAhead' = DOMAIN slots \cup {t.id} /\ IsTable(SlotsAhead')
        /\ \A n \in DOMAIN slots \cup {t.id}, h \in Hours :
             Free(SlotsAhead', n, h) = Free(SlotsAhead, n, h)
    BY <1>5, <1>6, <2>1, <2>2, <2>3, <2>4
  <2>6. SlotsAhead' = SlotsAhead
    BY <1>5, <2>1, <2>5, TablesEqual
  <2> QED
    BY <1>2, <1>5, <1>6, <2>1, <2>2, <2>6, Stutters
<1>10. CASE UpdateWriteSlot(w)
  <2>1. /\ t.pc = "writeSlot" /\ UNCHANGED <<capacity, forgot>>
        /\ DOMAIN slots' = DOMAIN slots /\ t.id \in DOMAIN slots
        /\ t.value = Free(slots, t.id, t.h)
    BY <1>1, <1>2, <1>10 DEF UpdateWriteSlot, history, SoloInv
  <2>2. /\ u.id = t.id /\ u.newCap = t.newCap /\ u.oldCap = t.oldCap
        /\ t.h + 1 < HoursPerDay => u.pc = "readSlot" /\ u.h = t.h + 1
        /\ ~ (t.h + 1 < HoursPerDay) => u.pc = "save"
    BY <1>1, <1>10, UpdateMoves
  <2>3. \A n \in Lots, h \in Hours :
          Free(slots', n, h) = IF n = t.id /\ h = t.h
                               THEN Recount(t.oldCap, t.newCap, Free(slots, n, h))
                               ELSE Free(slots, n, h)
    BY <1>1, <1>10, <2>1, TableChanges
  <2>4. DOMAIN slots \cup {t.id} = DOMAIN slots /\ DOMAIN slots \subseteq Lots
    BY <1>3, <2>1 DEF IsTable
  <2>5. CASE t.h + 1 < HoursPerDay
    <3>1. \A h \in Hours : h >= t.h <=> h = t.h \/ h >= u.h
      <4>1. u.h = t.h + 1 /\ t.h \in Int
        BY <1>3, <2>2, <2>5
      <4> HIDE DEF t, u
      <4> QED
        BY <1>3, <4>1
    <3>2. ~ (t.h >= u.h)
      <4>1. u.h = t.h + 1 /\ t.h \in Int
        BY <1>3, <2>2, <2>5
      <4> HIDE DEF t, u
      <4> QED
        BY <4>1
    <3>3. /\ DOMAIN SlotsAhead' = DOMAIN slots /\ IsTable(SlotsAhead')
          /\ \A n \in DOMAIN slots, h \in Hours :
               Free(SlotsAhead', n, h) = IF n = t.id /\ h >= u.h
                                         THEN Recount(t.oldCap, t.newCap, Free(slots', n, h))
                                         ELSE Free(slots', n, h)
      BY <1>6, <2>1, <2>2, <2>4, <2>5
    <3>4. \A n \in DOMAIN slots, h \in Hours :
            Free(SlotsAhead, n, h) = IF n = t.id /\ h >= t.h
                                     THEN Recount(t.oldCap, t.newCap, Free(slots, n, h))
                                     ELSE Free(slots, n, h)
      BY <1>5, <2>1
    <3>5. \A n \in DOMAIN slots, h \in Hours :
            Free(SlotsAhead', n, h) = Free(SlotsAhead, n, h)
      BY <2>3, <2>4, <3>1, <3>2, <3>3, <3>4
    <3>6. SlotsAhead' = SlotsAhead
      BY <1>5, <2>1, <2>4, <3>3, <3>5, TablesEqual
    <3> QED
      BY <1>2, <1>5, <1>6, <2>1, <2>2, <2>5, <3>6, Stutters
  <2>6. CASE ~ (t.h + 1 < HoursPerDay)
    <3>1. u.pc = "save"
      BY <2>2, <2>6
    <3>2. SlotsAhead' = slots'
      BY <1>4, <3>1 DEF Ahead
    <3>3. FileAhead' = capacity' /\ ReplyAhead' = Updated
      BY <1>1, <3>1 DEF FileAhead, ReplyAhead, Reserving, Recounting
    <3>4. \A h \in Hours : h >= t.h <=> h = t.h
      BY <1>2, <2>6, HoursAssumption DEF Hours
    <3>5. \A n \in DOMAIN slots, h \in Hours :
            Free(slots', n, h) = Free(SlotsAhead, n, h)
      BY <1>5, <2>1, <2>3, <2>4, <3>4
    <3>6. slots' = SlotsAhead
      BY <1>3, <1>5, <2>1, <2>4, <3>5, TablesEqual
    <3> QED
      BY <1>2, <1>5, <2>1, <3>2, <3>3, <3>6, Stutters
  <2> QED
    BY <2>5, <2>6
<1>11. CASE UpdateSave(w)
  <2>1. /\ t.pc = "save" /\ file' = capacity /\ reply' = Updated
        /\ UNCHANGED <<capacity, slots, forgot>>
    BY <1>11 DEF UpdateSave, Answer, history
  <2>2. u.pc = "idle"
    BY <1>1, <1>11, UpdateMoves DEF Idle
  <2>3. SlotsAhead = slots /\ FileAhead = capacity /\ ReplyAhead = Updated
    BY <1>1, <2>1 DEF SlotsAhead, FileAhead, ReplyAhead, Reserving, Recounting
  <2>4. SlotsAhead' = slots' /\ FileAhead' = file' /\ ReplyAhead' = reply'
    BY <2>2, NothingAhead
  <2> QED
    BY <1>2, <2>1, <2>3, <2>4, Stutters
<1> QED
  BY <1>7, <1>8, <1>9, <1>10, <1>11

LEMMA StepIsSequential ==
  ASSUME NEW w, Workers = {w}
  PROVE  SoloInv /\ [Next]_vars => [Sequential!Next]_(Sequential!vars)
<1> SUFFICES ASSUME SoloInv, [Next]_vars
             PROVE  Sequential!Next \/ UNCHANGED Sequential!vars
  OBVIOUS
<1>1. CASE Arrival(w)
  BY <1>1, ArrivalIsSequential
<1>2. CASE Run(w)
  <2>1. CASE HourFree(w) /\ ~ LastHour(thread[w])
    <3>1. /\ thread[w].pc = "check" /\ thread'[w].pc = "check"
          /\ UNCHANGED <<shared, reply, granted, forgot>>
      <4>1. TypeInv /\ w \in Workers
        BY DEF SoloInv
      <4> QED
        BY <2>1, <4>1, RouteMoves DEF HourFree
    <3> QED
      BY <3>1, NothingAhead, Stutters DEF shared
  <2> QED
    BY <1>2, <2>1, HourTakenIsSequential, ChoiceIsSequential, ReserveKeepsSoloInv,
       ReserveIsSequential, UpdateIsSequential DEF Run
<1>3. CASE UNCHANGED vars
  <2>1. Solo' = Solo
    BY <1>3 DEF Solo, vars
  <2>2. UNCHANGED <<capacity, slots, file, reply, granted, forgot>>
    BY <1>3 DEF vars, shared, history
  <2>3. SlotsAhead' = SlotsAhead /\ FileAhead' = FileAhead /\ ReplyAhead' = ReplyAhead
    BY <2>1, <2>2 DEF SlotsAhead, FileAhead, ReplyAhead, Reserving, Recounting
  <2> QED
    BY <2>2, <2>3, Stutters
<1> QED
  BY <1>1, <1>2, <1>3 DEF Next

\* A server with one worker is the service of SmartParking, one request at a time:
\* the hour-by-hour loops of availableAtTime, reserveSlot and updateCapacity
\* amount to its atomic handlers, for every map, day length and input.
THEOREM OneWorkerIsSequential ==
  ASSUME NEW w, Workers = {w}
  PROVE  Spec => ImplementsSequential
<1>1. Spec => []SoloInv
  BY InitSoloInv, NextSoloInv, PTL DEF Spec
<1>2. Init => Sequential!Init
  BY InitIsSequential
<1>3. SoloInv /\ [Next]_vars => [Sequential!Next]_(Sequential!vars)
  BY StepIsSequential
<1> QED
  BY <1>1, <1>2, <1>3, PTL DEF Spec, ImplementsSequential, Sequential!Spec

=============================================================================
