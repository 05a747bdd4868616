---------------------------- MODULE ParkingServer ----------------------------
(***************************************************************************)
(* The same handlers on Crow's worker threads.  Server.cpp starts the app  *)
(* with multithreaded() and the handlers share the global object sys       *)
(* without a lock, so a step of this specification is one access of one    *)
(* thread to shared memory: the read of slots[n][h] by availableAtTime, the *)
(* read by the test in reserveSlot, the load and the store of its --, the  *)
(* read and the write of the capacity and of each hour by updateCapacity.  *)
(* The data races are resolved as interleavings of these accesses; an int  *)
(* is loaded and stored whole.  saveNodes is one step here: no step of a   *)
(* running server reads the file, and NodesFile takes it apart.            *)
(*                                                                         *)
(* granted, forgot, peak and raced are history variables: the stays a      *)
(* thread has decided to confirm (from there on its handler can only       *)
(* answer "reserved"), the lots cut below what was reserved, the largest   *)
(* capacity each lot ever had, and the lots two handlers were at work on   *)
(* at the same time.                                                       *)
(***************************************************************************)
EXTENDS ParkingData, FiniteSets

CONSTANTS
  Workers,      \* Crow's worker threads
  HourInputs,   \* hours a request may carry
  CapInputs,    \* capacities an administrator may enter
  MaxRequests   \* bound on the requests the server takes in

ASSUME InputAssumption == HourInputs \subseteq Int /\ CapInputs \subseteq Int

ASSUME WorkersAssumption == IsFiniteSet(Workers)

ASSUME BoundAssumption == MaxRequests \in Nat

VARIABLES
  capacity,     \* nodes[n].capacity
  slots,        \* the slots table
  file,         \* capacity column of nodes_list.txt
  thread,       \* what each worker is doing, with the locals of its handler
  reply,        \* the last response, with the request it answers
  requests,     \* requests taken in so far
  granted,      \* history: stays decided on, per lot and hour
  forgot,       \* history: lots cut below what the table counts as reserved
  peak,         \* history: largest capacity of each lot so far
  raced         \* history: lots at which two handlers overlapped

shared == <<capacity, slots, file>>
history == <<granted, forgot, peak>>
vars == <<shared, thread, reply, requests, history, raced>>

-----------------------------------------------------------------------------

Idle == [pc |-> "idle"]

\* Where the search starts: behind the end of the path, which stands for the
\* test of the destination that comes before fallbackParking.
FirstCandidate(path) == Len(path) + 1

\* Locals of a /route handler.  at is the index in the path of the candidate
\* under test, h the hour loop's counter and value the number loaded by
\* slots[node][h]--.
RouteThread(src, dest, startH, endH) ==
  [pc |-> "check", src |-> src, dest |-> dest, startH |-> startH, endH |-> endH,
   at |-> FirstCandidate(Route(src, dest)), h |-> startH, value |-> 0]

\* Locals of an /update handler.
UpdateThread(id, newCap) ==
  [pc |-> "readCap", id |-> id, newCap |-> newCap, oldCap |-> 0, h |-> 0, value |-> 0]

Path(t) == Route(t.src, t.dest)

IsFallback(t) == t.at <= Len(Path(t))

Candidate(t) == IF IsFallback(t) THEN Path(t)[t.at] ELSE t.dest

RouteReply(t) ==
  LET p == Candidate(t)
  IN  Reserved(t.src, t.dest, p, IsFallback(t),
               IF IsFallback(t) /\ p # t.dest THEN TrimPath(Path(t), p) ELSE Path(t))

\* The loop over the path does not step back.
SameCandidate(t) == [t EXCEPT !.h = t.startH]

\* One node back on the path, and its hours from the first.
NextCandidate(t) == [t EXCEPT !.at = @ - 1, !.h = t.startH]

\* The hour loops end one hour early.
LastHourEarly(t) == t.h + 2 >= t.endH

LastHour(t) == t.h + 1 = t.endH

\* The lot whose hours a handler has begun to read or write.
Touched(t) ==
  IF t.pc \in {"test", "load", "store"} \/ (t.pc = "check" /\ t.h > t.startH)
  THEN {Candidate(t)}
  ELSE IF t.pc \in {"writeCap", "readSlot", "writeSlot"} THEN {t.id} ELSE {}

NoteRaces ==
  raced' = raced \cup {n \in Lots : \E v, w \in Workers :
                         v # w /\ n \in Touched(thread'[v]) \cap Touched(thread'[w])}

Goto(w, t) == thread' = [thread EXCEPT ![w] = t]

Answer(w, r) ==
  /\ Goto(w, Idle)
  /\ reply' = r

-----------------------------------------------------------------------------

Init ==
  /\ capacity = InitialCapacity
  /\ slots = FreshSlots(InitialCapacity)
  /\ file = InitialCapacity
  /\ thread = [w \in Workers |-> Idle]
  /\ reply = NoReply
  /\ requests = 0
  /\ granted = [n \in Lots |-> [h \in Hours |-> 0]]
  /\ forgot = {}
  /\ peak = InitialCapacity
  /\ raced = {}

\* A worker picks up the next request.
Accept(w) ==
  /\ thread[w].pc = "idle"
  /\ requests < MaxRequests
  /\ requests' = requests + 1

\* /route up to the search for a place; route planning reads only maps that
\* no handler changes.
RouteArrives(w, src, dest, startH, endH) ==
  /\ Accept(w)
  /\ ValidHours(startH, endH)
  /\ src \in Nodes /\ dest \in Nodes
  /\ Route(src, dest) # << >>
  /\ Goto(w, RouteThread(src, dest, startH, endH))
  /\ UNCHANGED <<shared, reply, history>>

\* /route, the early returns before the search.
RouteRefused(w, src, dest, startH, endH) ==
  /\ Accept(w)
  /\ \/ ~ ValidHours(startH, endH)
     \/ {src, dest} \cap {NoNode} # {}
     \/ src \in Nodes /\ dest \in Nodes /\ Route(src, dest) = << >>
  /\ Answer(w, Refused)
  /\ UNCHANGED <<shared, history>>

\* availableAtTime reads an hour of the candidate and finds no place: on to
\* the previous node of the path, or the response that nothing is free.
HourTaken(w) ==
  LET t == thread[w]
  IN  /\ t.pc = "check"
      /\ Free(slots, Candidate(t), t.h) <= 0
      /\ \/ /\ t.at > 1
            /\ Goto(w, NextCandidate(t))
            /\ UNCHANGED reply
         \/ /\ t.at = 1
            /\ Answer(w, Refused)
      /\ UNCHANGED <<shared, requests, history>>

\* ... finds a place: on to the next hour, or the candidate is chosen.
HourFree(w) ==
  LET t == thread[w]
      n == Candidate(t)
  IN  /\ t.pc = "check"
      /\ Free(slots, n, t.h) > 0
      /\ \/ /\ ~ LastHour(t)
            /\ Goto(w, [t EXCEPT !.h = @ + 1])
            /\ UNCHANGED granted
         \/ /\ LastHour(t)
            /\ Goto(w, [t EXCEPT !.pc = "test", !.h = t.startH])
            /\ granted' = [granted EXCEPT ![n] =
                 [h \in Hours |-> IF h \in Stay(t.startH, t.endH) THEN @[h] + 1 ELSE @[h]]]
      /\ UNCHANGED <<shared, reply, requests, forgot, peak>>

\* The hour loop of reserveSlot goes on, or the handler answers.
NextHourOrAnswer(w, t) ==
  \/ /\ ~ LastHour(t)
     /\ Goto(w, [t EXCEPT !.pc = "test", !.h = @ + 1])
     /\ UNCHANGED reply
  \/ /\ LastHour(t)
     /\ Answer(w, RouteReply(t))

\* reserveSlot: the test slots[node][h] > 0 succeeds.
ReserveTestFree(w) ==
  LET t == thread[w]
  IN  /\ t.pc = "test"
      /\ Free(slots, Candidate(t), t.h) > 0
      /\ Goto(w, [t EXCEPT !.pc = "load"])
      /\ UNCHANGED <<shared, reply, requests, history>>

\* ... or fails: another thread took the place, and the hour is skipped.
ReserveTestTaken(w) ==
  LET t == thread[w]
  IN  /\ t.pc = "test"
      /\ Free(slots, Candidate(t), t.h) <= 0
      /\ NextHourOrAnswer(w, t)
      /\ UNCHANGED <<shared, requests, history>>

\* slots[node][h]--, the load.
ReserveLoad(w) ==
  LET t == thread[w]
  IN  /\ t.pc = "load"
      /\ Goto(w, [t EXCEPT !.pc = "store", !.value = slots[Candidate(t)][t.h]])
      /\ UNCHANGED <<shared, reply, requests, history>>

\* The place is taken at the destination instead of the candidate.
StoredAtDestination(t) == [slots EXCEPT ![t.dest][t.h] = t.value - 1]

Stored(t) == [slots EXCEPT ![Candidate(t)][t.h] = t.value - 1]

\* slots[node][h]--, the store.
ReserveStore(w) ==
  LET t == thread[w]
  IN  /\ t.pc = "store"
      /\ slots' = Stored(t)
      /\ NextHourOrAnswer(w, t)
      /\ UNCHANGED <<capacity, file, requests, history>>

-----------------------------------------------------------------------------

\* A negative capacity is not refused.
UpdateAcceptedNegative(id, newCap) == id \in Lots

UpdateAccepted(id, newCap) == newCap >= 0 /\ id \in Lots

\* /update up to the call of updateCapacity.
UpdateArrives(w, id, newCap) ==
  /\ Accept(w)
  /\ UpdateAccepted(id, newCap)
  /\ Goto(w, UpdateThread(id, newCap))
  /\ UNCHANGED <<shared, reply, history>>

\* /update, the early returns.
UpdateRefused(w, id, newCap) ==
  /\ Accept(w)
  /\ ~ UpdateAccepted(id, newCap)
  /\ Answer(w, Refused)
  /\ UNCHANGED <<shared, history>>

\* oldCap = nodes[id].capacity
UpdateReadCap(w) ==
  LET t == thread[w]
  IN  /\ t.pc = "readCap"
      /\ Goto(w, [t EXCEPT !.pc = "writeCap", !.oldCap = capacity[t.id]])
      /\ UNCHANGED <<shared, reply, requests, history>>

\* nodes[id].capacity = newCap
UpdateWriteCap(w) ==
  LET t == thread[w]
  IN  /\ t.pc = "writeCap"
      /\ capacity' = [capacity EXCEPT ![t.id] = t.newCap]
      /\ peak' = [peak EXCEPT ![t.id] = IF t.newCap > @ THEN t.newCap ELSE @]
      /\ forgot' = forgot \cup {n \in {t.id} : \E h \in Hours :
                                t.oldCap - Free(slots, n, h) > t.newCap}
      /\ Goto(w, [t EXCEPT !.pc = "readSlot"])
      /\ UNCHANGED <<slots, file, reply, requests, granted>>

\* One hour of updateCapacity's loop, the read; operator[] inserts a missing
\* entry, which reads as 0 at every hour.
UpdateReadSlot(w) ==
  LET t == thread[w]
  IN  /\ t.pc = "readSlot"
      /\ Goto(w, [t EXCEPT !.pc = "writeSlot", !.value = Free(slots, t.id, t.h)])
      /\ slots' = [n \in DOMAIN slots \cup {t.id} |->
                     IF n \in DOMAIN slots THEN slots[n] ELSE [h \in Hours |-> 0]]
      /\ UNCHANGED <<capacity, file, reply, requests, history>>

\* ... and the write of max(0, newCap - reserved).
UpdateWriteSlot(w) ==
  LET t == thread[w]
  IN  /\ t.pc = "writeSlot"
      /\ slots' = [slots EXCEPT ![t.id][t.h] = Recount(t.oldCap, t.newCap, t.value)]
      /\ Goto(w, IF t.h + 1 < HoursPerDay
                 THEN [t EXCEPT !.pc = "readSlot", !.h = @ + 1]
                 ELSE [t EXCEPT !.pc = "save"])
      /\ UNCHANGED <<capacity, file, reply, requests, history>>

\* saveNodes and the response.
UpdateSave(w) ==
  /\ thread[w].pc = "save"
  /\ file' = capacity
  /\ Answer(w, Updated)
  /\ UNCHANGED <<capacity, slots, requests, history>>

-----------------------------------------------------------------------------

\* A request reaches a worker.
Arrival(w) ==
  /\ \/ \E src, dest \in Nodes \cup {NoNode}, startH, endH \in HourInputs :
          \/ RouteArrives(w, src, dest, startH, endH)
          \/ RouteRefused(w, src, dest, startH, endH)
     \/ \E id \in Nodes \cup {NoNode}, newCap \in CapInputs :
          \/ UpdateArrives(w, id, newCap)
          \/ UpdateRefused(w, id, newCap)
  /\ UNCHANGED raced

\* A handler that is running takes its next step.
Run(w) ==
  /\ \/ HourTaken(w)       \/ HourFree(w)
     \/ ReserveTestFree(w) \/ ReserveTestTaken(w)
     \/ ReserveLoad(w)     \/ ReserveStore(w)
     \/ UpdateReadCap(w)   \/ UpdateWriteCap(w)
     \/ UpdateReadSlot(w)  \/ UpdateWriteSlot(w)
     \/ UpdateSave(w)
  /\ NoteRaces

Next == \E w \in Workers : Arrival(w) \/ Run(w)

Spec == Init /\ [][Next]_vars

\* The operating system runs every thread that has something to do; no client
\* is obliged to send anything.
FairSpec == Spec /\ \A w \in Workers : WF_vars(Run(w))

-----------------------------------------------------------------------------
(***************************************************************************)
(* With a single worker the server behaves like SmartParking.  A /route    *)
(* takes effect when its candidate is chosen and an /update when it writes *)
(* the capacity; what the handler has still to do is read ahead.           *)
(***************************************************************************)
Solo == thread[CHOOSE w \in Workers : TRUE]

Reserving == Solo.pc \in {"test", "load", "store"}
Recounting == Solo.pc \in {"readSlot", "writeSlot"}

SlotsAhead ==
  IF Reserving
  THEN [slots EXCEPT ![Candidate(Solo)] =
          [h \in Hours |-> IF h \in Solo.h .. (Solo.endH - 1) THEN @[h] - 1 ELSE @[h]]]
  ELSE IF Recounting
  THEN [n \in DOMAIN slots \cup {Solo.id} |->
          [h \in Hours |-> IF n = Solo.id /\ h >= Solo.h
                           THEN Recount(Solo.oldCap, Solo.newCap, Free(slots, n, h))
                           ELSE Free(slots, n, h)]]
  ELSE slots

ReplyAhead ==
  IF Reserving THEN RouteReply(Solo)
  ELSE IF Recounting \/ Solo.pc = "save" THEN Updated
  ELSE reply

Sequential == INSTANCE SmartParking WITH
                slots      <- SlotsAhead,
                file       <- IF Recounting \/ Solo.pc = "save" THEN capacity ELSE file,
                reply      <- ReplyAhead,
                CurHour    <- 0,
                MayRestart <- FALSE,
                MaxGranted <- MaxRequests

\* Every behaviour of a server with one worker is a behaviour of SmartParking:
\* its loops and early returns amount to the atomic handlers.
ImplementsSequential == Sequential!Spec

-----------------------------------------------------------------------------

RouteThreads ==
  [pc : {"check", "test", "load", "store"}, src : Lots, dest : Lots,
   startH : Hours, endH : 1 .. HoursPerDay, at : Nat \ {0}, h : Hours, value : Int]

UpdateThreads ==
  [pc : {"readCap", "writeCap", "readSlot", "writeSlot", "save"}, id : Lots,
   newCap : Nat, oldCap : Nat, h : Hours, value : Int]

\* Shapes of the state.
TypeOK ==
  /\ capacity \in [Nodes -> Nat]
  /\ DOMAIN slots \subseteq Lots
  /\ slots \in [DOMAIN slots -> [Hours -> Int]]
  /\ file \in [Nodes -> Nat]
  /\ thread \in [Workers -> {Idle} \cup RouteThreads \cup UpdateThreads]
  /\ requests \in Nat
  /\ granted \in [Lots -> [Hours -> Nat]]
  /\ forgot \subseteq Lots
  /\ peak \in [Nodes -> Nat]
  /\ raced \subseteq Lots

\* However the threads interleave, a lot never shows more free places than it
\* ever had places: stale stores of reserveSlot and racing recounts of
\* updateCapacity may misplace places but do not invent them.
NoInventedPlaces ==
  \A n \in DOMAIN slots, h \in Hours : slots[n][h] <= peak[n]

\* Only two handlers at work on the same lot at the same time, or a cut below
\* what is reserved, can spoil the account of a lot: for every other lot free
\* places and stays add up to the capacity whenever no handler is in the
\* middle of it, whatever happens at its neighbours on the path.
LedgerExactUnlessRaced ==
  \A n \in Lots \ (forgot \cup raced), h \in Hours :
    (\A w \in Workers : n \notin Touched(thread[w])) =>
      Free(slots, n, h) + granted[n][h] = capacity[n]

\* Drivers are promised more places than a lot has only if two handlers were
\* at work on the lot at once or it was cut below what is reserved: as long as
\* every /route and /update of a lot finds it to itself, its test of the free
\* places is as good as a lock, in the middle of an /update too.
BookedWithinPlacesUnlessRaced ==
  \A n \in Lots \ (forgot \cup raced), h \in Hours : granted[n][h] <= capacity[n]

\* While no capacity is changed, every place that is not free belongs to a
\* stay some thread decided on: racing reserveSlot calls lose decrements and
\* never make one too many.
EveryTakenPlaceIsBooked ==
  \A n \in Lots, h \in Hours : capacity[n] - Free(slots, n, h) <= granted[n][h]

\* A response about a reserved place names a lot on the driver's path and
\* shows the path up to it.
DriverReachesPlace ==
  reply.status = "reserved" =>
    /\ reply.parkingNode \in Lots
    /\ reply.path[1] = reply.start
    /\ reply.path[Len(reply.path)] = reply.parkingNode
    /\ ~ reply.fallback => reply.parkingNode = reply.dest

\* Every request a worker picks up is answered, whatever the other threads do
\* to the table it searches.
EveryRequestAnswered ==
  \A w \in Workers : thread[w].pc # "idle" ~> thread[w].pc = "idle"

\* A stay is decided on only while fewer stays than places are.
ConfirmedOnlyWhenFree ==
  [][\A n \in Lots, h \in Hours :
       granted'[n][h] > granted[n][h] => granted[n][h] < capacity[n]]_vars

\* A response that says "Destination Full" and sends the driver on with public
\* transport does not give him a place at his destination.
FallbackIsElsewhere ==
  reply.status = "reserved" /\ reply.fallback => reply.parkingNode # reply.dest

=============================================================================
