------------------------- MODULE ParkingServerProofs -------------------------
(***************************************************************************)
(* Proofs about ParkingServer, for every number of worker threads, every   *)
(* map, day length and set of inputs.                                      *)
(***************************************************************************)
EXTENDS ParkingServer, ParkingDataProofs, FiniteSetTheorems, TLAPS

\* A handler between two steps, beside the table sl: a /route handler is within
\* its hours and on its path, and a store goes to an entry the table has.
WellFormed(t, sl) ==
  \/ t = Idle
  \/ /\ t \in RouteThreads
     /\ Path(t) # << >>
     /\ t.at \in 1 .. (Len(Path(t)) + 1)
     /\ t.startH <= t.h /\ t.h < t.endH
     /\ t.pc \in {"load", "store"} => Candidate(t) \in DOMAIN sl
  \/ /\ t \in UpdateThreads
     /\ t.pc \in {"readCap", "writeCap"} => t.h = 0
     /\ t.pc = "writeSlot" => t.id \in DOMAIN sl

HandlersWellFormed == \A w \in Workers : WellFormed(thread[w], slots)

TypeInv == TypeOK /\ HandlersWellFormed

-----------------------------------------------------------------------------

\* The candidate of a /route handler is a lot.
LEMMA CandidateIsLot ==
  ASSUME NEW t \in RouteThreads, NEW sl, WellFormed(t, sl)
  PROVE  /\ Candidate(t) \in Lots
         /\ Path(t) \in Seq(Lots)
         /\ Len(Path(t)) \in Nat \ {0}
<1>1. t.src \in Nodes /\ t.dest \in Nodes /\ t.dest \in Lots
  BY LotsAreNodes DEF RouteThreads
<1>2. Path(t) # << >> /\ t.at \in 1 .. (Len(Path(t)) + 1)
  BY DEF WellFormed, RouteThreads, UpdateThreads, Idle
<1>3. /\ Path(t) \in Seq(Lots)
      /\ Len(Path(t)) \in Nat \ {0}
      /\ \A i \in 1 .. Len(Path(t)) : Path(t)[i] \in Lots
  BY <1>1, <1>2, RouteFacts DEF Path
<1> QED
  BY <1>1, <1>2, <1>3 DEF Candidate, IsFallback

LEMMA MoveKeepsHandlers ==
  ASSUME TypeInv, NEW w \in Workers, NEW u,
         thread' = [thread EXCEPT ![w] = u],
         WellFormed(u, slots'), DOMAIN slots \subseteq DOMAIN slots'
  PROVE  /\ thread' \in [Workers -> {Idle} \cup RouteThreads \cup UpdateThreads]
         /\ HandlersWellFormed'
<1>1. u \in {Idle} \cup RouteThreads \cup UpdateThreads
  BY DEF WellFormed
<1>2. thread \in [Workers -> {Idle} \cup RouteThreads \cup UpdateThreads]
  BY DEF TypeInv, TypeOK
<1>3. ASSUME NEW v \in Workers PROVE WellFormed(thread'[v], slots')
  <2>1. CASE v = w
    BY <1>2, <2>1
  <2>2. CASE v # w
    <3>1. thread'[v] = thread[v] /\ WellFormed(thread[v], slots)
      BY <1>2, <2>2 DEF TypeInv, HandlersWellFormed
    <3> QED
      BY <3>1 DEF WellFormed
  <2> QED
    BY <2>1, <2>2
<1> QED
  BY <1>1, <1>2, <1>3 DEF HandlersWellFormed

\* A handler that goes on within its hours and with the candidate it has.
LEMMA RouteGoesOn ==
  ASSUME NEW t \in RouteThreads, NEW sl, WellFormed(t, sl),
         NEW pc \in {"check", "test", "load", "store"},
         NEW h \in t.startH .. (t.endH - 1), NEW value \in Int, NEW after,
         pc \in {"load", "store"} => Candidate(t) \in DOMAIN after
  PROVE  LET u == [t EXCEPT !.pc = pc, !.h = h, !.value = value]
         IN  u \in RouteThreads /\ WellFormed(u, after)
                /\ Candidate(u) = Candidate(t) /\ Path(u) = Path(t)
<1> DEFINE u == [t EXCEPT !.pc = pc, !.h = h, !.value = value]
<1>1. /\ t.pc \in {"check", "test", "load", "store"}
      /\ Path(t) # << >> /\ t.at \in 1 .. (Len(Path(t)) + 1)
      /\ t.startH \in Hours /\ t.endH \in 1 .. HoursPerDay
  BY DEF WellFormed, RouteThreads, UpdateThreads, Idle
<1>2. /\ u.pc = pc /\ u.h = h /\ u.value = value
      /\ u.src = t.src /\ u.dest = t.dest /\ u.at = t.at
      /\ u.startH = t.startH /\ u.endH = t.endH
  BY DEF RouteThreads
<1>3. h \in Hours
  BY <1>1, HoursAssumption DEF Hours
<1>4. u \in RouteThreads
  BY <1>3 DEF RouteThreads
<1> HIDE DEF u
<1>5. Path(u) = Path(t) /\ Candidate(u) = Candidate(t)
  BY <1>2 DEF Path, Candidate, IsFallback
<1>6. u.startH <= u.h /\ u.h < u.endH
  BY <1>1, <1>2, HoursAssumption DEF Hours
<1>7. WellFormed(u, after)
  BY <1>1, <1>2, <1>4, <1>5, <1>6 DEF WellFormed
<1> QED
  BY <1>4, <1>5, <1>7 DEF u

\* What is known about the handler of a worker, by its program counter.
LEMMA HandlerKinds ==
  ASSUME TypeInv, NEW w \in Workers
  PROVE  LET t == thread[w] IN
         /\ WellFormed(t, slots)
         /\ t.pc \in {"check", "test", "load", "store"} =>
              /\ t \in RouteThreads
              /\ t.h \in t.startH .. (t.endH - 1)
              /\ t.h \in Hours
              /\ t.at \in 1 .. (Len(Path(t)) + 1)
              /\ ~ LastHour(t) => t.h + 1 \in t.startH .. (t.endH - 1)
              /\ t.startH \in t.startH .. (t.endH - 1)
              /\ t.value \in Int
         /\ t.pc \in {"readCap", "writeCap", "readSlot", "writeSlot", "save"} =>
              t \in UpdateThreads
         /\ t.pc = "idle" => t = Idle
<1>1. WellFormed(thread[w], slots)
  BY DEF TypeInv, HandlersWellFormed
<1>2. CASE thread[w] = Idle
  BY <1>1, <1>2 DEF Idle
<1>3. CASE thread[w] \in RouteThreads
  <2>1. /\ thread[w].startH <= thread[w].h /\ thread[w].h < thread[w].endH
        /\ thread[w].at \in 1 .. (Len(Path(thread[w])) + 1)
    BY <1>1, <1>3 DEF WellFormed, RouteThreads, UpdateThreads, Idle
  <2>2. /\ thread[w].startH \in Hours /\ thread[w].endH \in 1 .. HoursPerDay
        /\ thread[w].h \in Hours /\ thread[w].value \in Int
        /\ thread[w].pc \in {"check", "test", "load", "store"}
    BY <1>3 DEF RouteThreads
  <2>3. ~ LastHour(thread[w]) => thread[w].h + 1 < thread[w].endH
    BY <2>1, <2>2, HoursAssumption DEF LastHour, Hours
  <2>4. /\ thread[w].startH \in Int /\ thread[w].h \in Int /\ thread[w].endH \in Int
    BY <2>2, HoursAssumption DEF Hours
  <2>5. /\ thread[w].h \in thread[w].startH .. (thread[w].endH - 1)
        /\ thread[w].startH \in thread[w].startH .. (thread[w].endH - 1)
    BY <2>1, <2>4
  <2>6. ~ LastHour(thread[w]) =>
          thread[w].h + 1 \in thread[w].startH .. (thread[w].endH - 1)
    BY <2>1, <2>3, <2>4
  <2> QED
    BY <1>1, <1>3, <2>1, <2>2, <2>5, <2>6
<1>4. CASE thread[w] \in UpdateThreads
  BY <1>1, <1>4 DEF UpdateThreads
<1>5. \/ thread[w] = Idle
      \/ thread[w] \in RouteThreads
      \/ thread[w] \in UpdateThreads
  BY <1>1 DEF WellFormed
<1> QED
  BY <1>2, <1>3, <1>4, <1>5

LEMMA MoveKeepsTypeInv ==
  ASSUME TypeInv, NEW w \in Workers, NEW u,
         thread' = [thread EXCEPT ![w] = u],
         WellFormed(u, slots'), DOMAIN slots \subseteq DOMAIN slots',
         capacity' \in [Nodes -> Nat], file' \in [Nodes -> Nat],
         DOMAIN slots' \subseteq Lots, slots' \in [DOMAIN slots' -> [Hours -> Int]],
         requests' \in Nat, granted' \in [Lots -> [Hours -> Nat]],
         forgot' \subseteq Lots, peak' \in [Nodes -> Nat], raced' \subseteq Lots
  PROVE  TypeInv'
BY MoveKeepsHandlers DEF TypeInv, TypeOK

\* The end of an iteration of the loop of reserveSlot.
LEMMA LoopKeepsTypes ==
  ASSUME TypeInv, NEW w \in Workers,
         thread[w].pc \in {"test", "store"}, NextHourOrAnswer(w, thread[w])
  PROVE  \E u : thread' = [thread EXCEPT ![w] = u] /\ \A sl : WellFormed(u, sl)
<1> DEFINE t == thread[w]
<1>1. CASE ~ LastHour(t) /\ Goto(w, [t EXCEPT !.pc = "test", !.h = @ + 1])
  <2> DEFINE u == [t EXCEPT !.pc = "test", !.h = @ + 1]
  <2>1. t \in RouteThreads /\ WellFormed(t, slots) /\ t.value \in Int
        /\ t.h + 1 \in t.startH .. (t.endH - 1)
    BY <1>1, HandlerKinds
  <2>2. u = [t EXCEPT !.pc = "test", !.h = t.h + 1, !.value = t.value]
    BY <2>1 DEF RouteThreads
  <2>3. \A sl : WellFormed(u, sl)
    BY <2>1, <2>2, RouteGoesOn
  <2> HIDE DEF u
  <2> QED
    BY <1>1, <2>3 DEF Goto, u
<1>2. CASE Answer(w, RouteReply(t))
  BY <1>2 DEF Answer, Goto, WellFormed
<1> QED
  BY <1>1, <1>2 DEF NextHourOrAnswer

LEMMA AcceptKeepsTypeInv ==
  ASSUME TypeInv, NEW w \in Workers, NEW u,
         Accept(w), thread' = [thread EXCEPT ![w] = u], WellFormed(u, slots),
         UNCHANGED <<shared, history, raced>>
  PROVE  TypeInv'
<1>1. UNCHANGED <<capacity, slots, file, granted, forgot, peak, raced>>
  BY DEF shared, history
<1>2. WellFormed(u, slots')
  BY <1>1
<1>3. requests' \in Nat
  BY DEF Accept, TypeInv, TypeOK
<1> QED
  BY <1>1, <1>2, <1>3, MoveKeepsTypeInv DEF TypeInv, TypeOK

LEMMA RunKeepsTypes ==
  ASSUME TypeInv, NEW w \in Workers, Run(w)
  PROVE  TypeInv'
<1> DEFINE t == thread[w]
<1> USE DEF Goto
<1>1. raced' \subseteq Lots
  BY DEF Run, NoteRaces, TypeInv, TypeOK
<1>2. /\ thread \in [Workers -> {Idle} \cup RouteThreads \cup UpdateThreads]
      /\ capacity \in [Nodes -> Nat] /\ file \in [Nodes -> Nat]
      /\ DOMAIN slots \subseteq Lots /\ slots \in [DOMAIN slots -> [Hours -> Int]]
      /\ requests \in Nat /\ granted \in [Lots -> [Hours -> Nat]]
      /\ forgot \subseteq Lots /\ peak \in [Nodes -> Nat]
  BY DEF TypeInv, TypeOK
<1>3. WellFormed(t, slots)
  BY HandlerKinds
<1>4. \A sl : WellFormed(Idle, sl)
  BY DEF WellFormed
<1>5. CASE HourTaken(w)
  <2>1. t \in RouteThreads /\ t.startH \in t.startH .. (t.endH - 1)
        /\ t.at \in 1 .. (Len(Path(t)) + 1) /\ t.startH \in Hours
    BY <1>5, HandlerKinds DEF HourTaken, RouteThreads
  <2>2. CASE t.at > 1 /\ Goto(w, NextCandidate(t))
    <3> DEFINE u == NextCandidate(t)
    <3>1. /\ u.pc = t.pc /\ u.src = t.src /\ u.dest = t.dest
          /\ u.startH = t.startH /\ u.endH = t.endH /\ u.h = t.startH
          /\ u.at = t.at - 1
      BY <2>1 DEF NextCandidate, RouteThreads
    <3>2. u \in RouteThreads
      <4>1. t.at - 1 \in Nat \ {0}
        BY <2>1, <2>2 DEF RouteThreads
      <4>2. u = [t EXCEPT !.at = t.at - 1, !.h = t.startH]
        BY DEF NextCandidate
      <4> QED
        BY <2>1, <4>1, <4>2 DEF RouteThreads
    <3>3. WellFormed(u, slots')
      BY <1>3, <1>5, <2>1, <2>2, <3>1, <3>2
         DEF WellFormed, HourTaken, Path, RouteThreads, UpdateThreads, Idle
    <3> HIDE DEF u
    <3> QED
      BY <1>1, <1>2, <1>5, <2>2, <3>3, MoveKeepsTypeInv DEF HourTaken, shared, history, u
  <2>3. CASE Answer(w, Refused)
    BY <1>1, <1>2, <1>4, <1>5, <2>3, MoveKeepsTypeInv DEF HourTaken, shared, history, Answer
  <2> QED
    BY <1>5, <2>2, <2>3 DEF HourTaken
<1>6. CASE HourFree(w)
  <2>1. /\ t \in RouteThreads /\ t.startH \in t.startH .. (t.endH - 1)
        /\ ~ LastHour(t) => t.h + 1 \in t.startH .. (t.endH - 1)
        /\ t.value \in Int /\ t.pc = "check"
    BY <1>6, HandlerKinds DEF HourFree
  <2>2. CASE ~ LastHour(t) /\ Goto(w, [t EXCEPT !.h = @ + 1]) /\ UNCHANGED granted
    <3> DEFINE u == [t EXCEPT !.h = @ + 1]
    <3>1. u = [t EXCEPT !.pc = "check", !.h = t.h + 1, !.value = t.value]
      BY <2>1 DEF RouteThreads
    <3>2. WellFormed(u, slots')
      BY <1>3, <2>1, <2>2, <3>1, RouteGoesOn
    <3> HIDE DEF u
    <3> QED
      BY <1>1, <1>2, <1>6, <2>2, <3>2, MoveKeepsTypeInv DEF HourFree, shared, u
  <2>3. CASE /\ Goto(w, [t EXCEPT !.pc = "test", !.h = t.startH])
             /\ granted' = [granted EXCEPT ![Candidate(t)] =
                  [h \in Hours |-> IF h \in Stay(t.startH, t.endH) THEN @[h] + 1 ELSE @[h]]]
    <3> DEFINE u == [t EXCEPT !.pc = "test", !.h = t.startH]
    <3>1. u = [t EXCEPT !.pc = "test", !.h = t.startH, !.value = t.value]
      BY <2>1 DEF RouteThreads
    <3>2. WellFormed(u, slots')
      BY <1>3, <2>1, <3>1, RouteGoesOn
    <3>3. granted' \in [Lots -> [Hours -> Nat]]
      <4>1. granted[Candidate(t)] \in [Hours -> Nat]
        BY <1>2, <1>3, <2>1, CandidateIsLot
      <4>2. [h \in Hours |-> IF h \in Stay(t.startH, t.endH)
                              THEN granted[Candidate(t)][h] + 1
                              ELSE granted[Candidate(t)][h]] \in [Hours -> Nat]
        BY <4>1
      <4> QED
        BY <1>2, <2>3, <4>2
    <3> HIDE DEF u
    <3> QED
      BY <1>1, <1>2, <1>6, <2>3, <3>2, <3>3, MoveKeepsTypeInv DEF HourFree, shared, u
  <2> QED
    BY <1>6, <2>2, <2>3 DEF HourFree
<1>7. CASE ReserveTestFree(w)
  <2> DEFINE u == [t EXCEPT !.pc = "load"]
  <2>1. t \in RouteThreads /\ t.h \in t.startH .. (t.endH - 1) /\ t.value \in Int
    BY <1>7, HandlerKinds DEF ReserveTestFree
  <2>2. u = [t EXCEPT !.pc = "load", !.h = t.h, !.value = t.value]
    BY <2>1 DEF RouteThreads
  <2>3. Candidate(t) \in DOMAIN slots
    BY <1>7 DEF ReserveTestFree, Free
  <2>4. WellFormed(u, slots')
    BY <1>3, <1>7, <2>1, <2>2, <2>3, RouteGoesOn DEF ReserveTestFree, shared
  <2> HIDE DEF u
  <2> QED
    BY <1>1, <1>2, <1>7, <2>4, MoveKeepsTypeInv DEF ReserveTestFree, shared, history, u
<1>8. CASE ReserveTestTaken(w)
  <2>1. PICK u : thread' = [thread EXCEPT ![w] = u] /\ \A sl : WellFormed(u, sl)
    BY <1>8, LoopKeepsTypes DEF ReserveTestTaken
  <2> QED
    BY <1>1, <1>2, <1>8, <2>1, MoveKeepsTypeInv DEF ReserveTestTaken, shared, history
<1>9. CASE ReserveLoad(w)
  <2> DEFINE u == [t EXCEPT !.pc = "store", !.value = slots[Candidate(t)][t.h]]
  <2>1. /\ t \in RouteThreads /\ t.h \in t.startH .. (t.endH - 1) /\ t.h \in Hours
        /\ t.pc = "load"
    BY <1>9, HandlerKinds DEF ReserveLoad
  <2>2. Candidate(t) \in DOMAIN slots
    BY <1>3, <2>1 DEF WellFormed, UpdateThreads, Idle
  <2>3. slots[Candidate(t)][t.h] \in Int
    BY <1>2, <2>1, <2>2
  <2>4. u = [t EXCEPT !.pc = "store", !.h = t.h, !.value = slots[Candidate(t)][t.h]]
    BY <2>1 DEF RouteThreads
  <2>5. WellFormed(u, slots')
    BY <1>3, <1>9, <2>1, <2>2, <2>3, <2>4, RouteGoesOn DEF ReserveLoad, shared
  <2> HIDE DEF u
  <2> QED
    BY <1>1, <1>2, <1>9, <2>5, MoveKeepsTypeInv DEF ReserveLoad, shared, history, u
<1>10. CASE ReserveStore(w)
  <2>1. PICK u : thread' = [thread EXCEPT ![w] = u] /\ \A sl : WellFormed(u, sl)
    BY <1>10, LoopKeepsTypes DEF ReserveStore
  <2>2. t \in RouteThreads /\ t.h \in Hours /\ t.value \in Int
    BY <1>10, HandlerKinds DEF ReserveStore
  <2>3. slots' = [slots EXCEPT ![Candidate(t)][t.h] = t.value - 1]
    BY <1>10 DEF ReserveStore, Stored
  <2>4. DOMAIN slots' = DOMAIN slots /\ slots' \in [DOMAIN slots' -> [Hours -> Int]]
    <3>1. Candidate(t) \in DOMAIN slots
      BY <1>3, <1>10, <2>2 DEF ReserveStore, WellFormed, RouteThreads, UpdateThreads, Idle
    <3>2. [slots[Candidate(t)] EXCEPT ![t.h] = t.value - 1] \in [Hours -> Int]
      BY <1>2, <2>2, <3>1
    <3> QED
      BY <1>2, <2>3, <3>1, <3>2
  <2> QED
    BY <1>1, <1>2, <1>10, <2>1, <2>4, MoveKeepsTypeInv DEF ReserveStore, history
<1>11. CASE UpdateReadCap(w)
  <2> DEFINE u == [t EXCEPT !.pc = "writeCap", !.oldCap = capacity[t.id]]
  <2>1. t \in UpdateThreads
    BY <1>11, HandlerKinds DEF UpdateReadCap
  <2>2. capacity[t.id] \in Nat
    BY <1>2, <2>1, LotsAreNodes DEF UpdateThreads
  <2>3. u \in UpdateThreads /\ u.pc = "writeCap" /\ u.h = 0
    <3>1. t.h = 0
      BY <1>3, <1>11, <2>1 DEF UpdateReadCap, WellFormed, RouteThreads, Idle
    <3> QED
      BY <2>1, <2>2, <3>1 DEF UpdateThreads
  <2>4. WellFormed(u, slots')
    BY <2>3 DEF WellFormed
  <2> HIDE DEF u
  <2> QED
    BY <1>1, <1>2, <1>11, <2>4, MoveKeepsTypeInv DEF UpdateReadCap, shared, history, u
<1>12. CASE UpdateWriteCap(w)
  <2> DEFINE u == [t EXCEPT !.pc = "readSlot"]
  <2>1. t \in UpdateThreads
    BY <1>12, HandlerKinds DEF UpdateWriteCap
  <2>2. t.id \in Lots /\ t.id \in Nodes /\ t.newCap \in Nat
    BY <2>1, LotsAreNodes DEF UpdateThreads
  <2>3. u \in UpdateThreads /\ u.pc = "readSlot"
    BY <2>1 DEF UpdateThreads
  <2>4. WellFormed(u, slots')
    BY <2>3 DEF WellFormed
  <2>5. capacity' \in [Nodes -> Nat] /\ peak' \in [Nodes -> Nat]
    BY <1>2, <1>12, <2>2 DEF UpdateWriteCap
  <2>6. forgot' \subseteq Lots
    BY <1>2, <1>12, <2>2 DEF UpdateWriteCap
  <2> HIDE DEF u
  <2> QED
    BY <1>1, <1>2, <1>12, <2>4, <2>5, <2>6, MoveKeepsTypeInv DEF UpdateWriteCap, u
<1>13. CASE UpdateReadSlot(w)
  <2> DEFINE u == [t EXCEPT !.pc = "writeSlot", !.value = Free(slots, t.id, t.h)]
  <2>1. t \in UpdateThreads /\ t.id \in Lots /\ t.h \in Hours
    BY <1>13, HandlerKinds DEF UpdateReadSlot, UpdateThreads
  <2>2. Free(slots, t.id, t.h) \in Int
    BY <1>2, <2>1 DEF Free
  <2>3. u \in UpdateThreads /\ u.id = t.id
    BY <2>1, <2>2 DEF UpdateThreads
  <2>4. /\ DOMAIN slots' = DOMAIN slots \cup {t.id}
        /\ slots' \in [DOMAIN slots' -> [Hours -> Int]]
    BY <1>2, <1>13 DEF UpdateReadSlot
  <2>5. WellFormed(u, slots')
    BY <2>3, <2>4 DEF WellFormed
  <2> HIDE DEF u
  <2> QED
    BY <1>1, <1>2, <1>13, <2>1, <2>4, <2>5, MoveKeepsTypeInv DEF UpdateReadSlot, history, u
<1>14. CASE UpdateWriteSlot(w)
  <2> DEFINE u == IF t.h + 1 < HoursPerDay
                  THEN [t EXCEPT !.pc = "readSlot", !.h = @ + 1]
                  ELSE [t EXCEPT !.pc = "save"]
  <2>1. t \in UpdateThreads /\ t.h \in Hours
    BY <1>14, HandlerKinds DEF UpdateWriteSlot, UpdateThreads
  <2>2. Recount(t.oldCap, t.newCap, t.value) \in Int
    BY <2>1 DEF UpdateThreads, Recount, NonNegative
  <2>3. u \in UpdateThreads /\ u.pc \in {"readSlot", "save"}
    <3>1. CASE t.h + 1 < HoursPerDay
      <4>1. t.h + 1 \in Hours
        BY <2>1, <3>1, HoursAssumption DEF Hours
      <4> QED
        BY <2>1, <3>1, <4>1 DEF UpdateThreads
    <3>2. CASE ~ (t.h + 1 < HoursPerDay)
      BY <2>1, <3>2 DEF UpdateThreads
    <3> QED
      BY <3>1, <3>2
  <2>4. DOMAIN slots' = DOMAIN slots /\ slots' \in [DOMAIN slots' -> [Hours -> Int]]
    BY <1>2, <1>14, <2>1, <2>2 DEF UpdateWriteSlot
  <2>5. WellFormed(u, slots')
    BY <2>3 DEF WellFormed
  <2> HIDE DEF u
  <2> QED
    BY <1>1, <1>2, <1>14, <2>4, <2>5, MoveKeepsTypeInv DEF UpdateWriteSlot, history, u
<1>15. CASE UpdateSave(w)
  BY <1>1, <1>2, <1>4, <1>15, MoveKeepsTypeInv DEF UpdateSave, Answer, history
<1> QED
  BY <1>5, <1>6, <1>7, <1>8, <1>9, <1>10, <1>11, <1>12, <1>13, <1>14, <1>15 DEF Run

LEMMA ArrivalKeepsTypes ==
  ASSUME TypeInv, NEW w \in Workers, Arrival(w)
  PROVE  TypeInv'
<1>1. raced' = raced
  BY DEF Arrival
<1>2. WellFormed(Idle, slots)
  BY DEF WellFormed
<1>3. ASSUME NEW src \in Nodes \cup {NoNode}, NEW dest \in Nodes \cup {NoNode},
             NEW startH \in HourInputs, NEW endH \in HourInputs,
             RouteArrives(w, src, dest, startH, endH)
      PROVE  TypeInv'
  <2> DEFINE u == RouteThread(src, dest, startH, endH)
  <2>1. /\ src \in Nodes /\ dest \in Nodes /\ Route(src, dest) # << >>
        /\ startH \in Int /\ endH \in Int
        /\ startH >= 0 /\ endH <= HoursPerDay /\ startH < endH
    BY <1>3, InputAssumption DEF RouteArrives, ValidHours
  <2>2. src \in Lots /\ dest \in Lots /\ Len(Route(src, dest)) \in Nat \ {0}
    BY <2>1, RouteFacts
  <2>3. startH \in Hours /\ endH \in 1 .. HoursPerDay
    BY <2>1, HoursAssumption DEF Hours
  <2>4. u \in RouteThreads
    BY <2>2, <2>3 DEF RouteThread, RouteThreads, FirstCandidate
  <2>5. /\ u.pc = "check" /\ u.startH = startH /\ u.endH = endH /\ u.h = startH
        /\ Path(u) = Route(src, dest) /\ u.at = Len(Route(src, dest)) + 1
    BY DEF RouteThread, Path, FirstCandidate
  <2> HIDE DEF u
  <2>6. WellFormed(u, slots)
    BY <2>1, <2>2, <2>4, <2>5 DEF WellFormed
  <2> QED
    BY <1>1, <1>3, <2>6, AcceptKeepsTypeInv DEF RouteArrives, Goto, u
<1>4. ASSUME NEW src, NEW dest, NEW startH, NEW endH,
             RouteRefused(w, src, dest, startH, endH)
      PROVE  TypeInv'
  BY <1>1, <1>2, <1>4, AcceptKeepsTypeInv DEF RouteRefused, Answer, Goto
<1>5. ASSUME NEW id, NEW newCap \in CapInputs, UpdateArrives(w, id, newCap)
      PROVE  TypeInv'
  <2> DEFINE u == UpdateThread(id, newCap)
  <2>1. id \in Lots /\ newCap \in Nat
    BY <1>5, InputAssumption DEF UpdateArrives, UpdateAccepted
  <2>2. 0 \in Hours
    BY HoursAssumption DEF Hours
  <2>3. u \in UpdateThreads /\ u.pc = "readCap" /\ u.h = 0
    BY <2>1, <2>2 DEF UpdateThread, UpdateThreads
  <2>4. WellFormed(u, slots)
    BY <2>3 DEF WellFormed
  <2> HIDE DEF u
  <2> QED
    BY <1>1, <1>5, <2>4, AcceptKeepsTypeInv DEF UpdateArrives, Goto, u
<1>6. ASSUME NEW id, NEW newCap, UpdateRefused(w, id, newCap)
      PROVE  TypeInv'
  BY <1>1, <1>2, <1>6, AcceptKeepsTypeInv DEF UpdateRefused, Answer, Goto
<1> QED
  BY <1>3, <1>4, <1>5, <1>6 DEF Arrival

LEMMA FreshTable ==
  /\ DOMAIN FreshSlots(InitialCapacity) \subseteq Lots
  /\ FreshSlots(InitialCapacity) \in
       [DOMAIN FreshSlots(InitialCapacity) -> [Hours -> Int]]
  /\ \A n \in Lots, h \in Hours :
       Free(FreshSlots(InitialCapacity), n, h) = InitialCapacity[n]
BY CapacityAssumption, FreshSlotsFree DEF IsTable

LEMMA InitTypes == Init => TypeInv
BY FreshTable, CapacityAssumption
   DEF Init, TypeInv, TypeOK, HandlersWellFormed, WellFormed

LEMMA NextTypes == TypeInv /\ [Next]_vars => TypeInv'
<1> SUFFICES ASSUME TypeInv, [Next]_vars PROVE TypeInv'
  OBVIOUS
<1>1. ASSUME NEW w \in Workers, Arrival(w) PROVE TypeInv'
  BY <1>1, ArrivalKeepsTypes
<1>2. ASSUME NEW w \in Workers, Run(w) PROVE TypeInv'
  BY <1>2, RunKeepsTypes
<1>3. CASE UNCHANGED vars
  BY <1>3 DEF vars, shared, history, TypeInv, TypeOK, HandlersWellFormed
<1> QED
  BY <1>1, <1>2, <1>3 DEF Next

LEMMA Types == Spec => []TypeInv
BY InitTypes, NextTypes, PTL DEF Spec

\* However the workers interleave, the state keeps its shape: handlers store only
\* where the slots table has an entry, for an hour of their stay.
THEOREM ServerTypeCorrect == Spec => []TypeOK
BY Types, PTL DEF TypeInv

-----------------------------------------------------------------------------
(***************************************************************************)
(* No place is invented.  A number a handler is about to store is within   *)
(* the largest capacity its lot ever had: it was loaded from the table, or *)
(* it is a recount of a capacity that was set before.                      *)
(***************************************************************************)

WithinPeak(t, pk) ==
  /\ t.pc = "store" => t.value <= pk[Candidate(t)]
  /\ t.pc \in {"readSlot", "writeSlot"} => t.newCap <= pk[t.id]

PeakInv ==
  /\ TypeInv
  /\ NoInventedPlaces
  /\ \A w \in Workers : WithinPeak(thread[w], peak)

LEMMA OnlyOneMoves ==
  ASSUME TypeInv, NEW w \in Workers, Arrival(w) \/ Run(w)
  PROVE  /\ \A v \in Workers : v # w => thread'[v] = thread[v]
         /\ DOMAIN thread' = Workers
<1>1. \E u : thread' = [thread EXCEPT ![w] = u]
  BY DEF Arrival, Run, RouteArrives, RouteRefused, UpdateArrives, UpdateRefused,
         HourTaken, HourFree, ReserveTestFree, ReserveTestTaken, ReserveLoad,
         ReserveStore, NextHourOrAnswer, UpdateReadCap, UpdateWriteCap,
         UpdateReadSlot, UpdateWriteSlot, UpdateSave, Answer, Goto
<1> QED
  BY <1>1 DEF TypeInv, TypeOK

\* The locals that a /route handler keeps while it is at one candidate.
SameStay(t, u) ==
  /\ u.src = t.src /\ u.dest = t.dest /\ u.at = t.at
  /\ u.startH = t.startH /\ u.endH = t.endH
  /\ Candidate(u) = Candidate(t)

\* Where the steps of a /route handler leave it.
LEMMA RouteMoves ==
  ASSUME TypeInv, NEW w \in Workers
  PROVE  LET t == thread[w]
             u == thread'[w]
         IN
         /\ HourTaken(w) => u = Idle \/ (u = NextCandidate(t) /\ u.pc = "check" /\ u.h = u.startH)
         /\ HourFree(w) => /\ SameStay(t, u)
                           /\ ~ LastHour(t) => u.pc = "check" /\ u.h = t.h + 1
                           /\ LastHour(t) => u.pc = "test" /\ u.h = t.startH
         /\ ReserveTestFree(w) => SameStay(t, u) /\ u.pc = "load" /\ u.h = t.h
         /\ ReserveTestTaken(w) \/ ReserveStore(w) =>
              /\ LastHour(t) => u = Idle
              /\ ~ LastHour(t) => SameStay(t, u) /\ u.pc = "test" /\ u.h = t.h + 1
         /\ ReserveLoad(w) => /\ SameStay(t, u) /\ u.pc = "store" /\ u.h = t.h
                              /\ u.value = slots[Candidate(t)][t.h]
<1> DEFINE t == thread[w]
<1>1. \A u : thread' = [thread EXCEPT ![w] = u] => thread'[w] = u
  BY DEF TypeInv, TypeOK
<1>2. t.pc \in {"check", "test", "load", "store"} => t \in RouteThreads
  BY HandlerKinds
<1>3. HourTaken(w) => \/ thread'[w] = Idle
                      \/ /\ thread'[w] = NextCandidate(t) /\ thread'[w].pc = "check"
                         /\ thread'[w].h = thread'[w].startH
  <2> SUFFICES ASSUME HourTaken(w), thread'[w] = NextCandidate(t)
               PROVE  thread'[w].pc = "check" /\ thread'[w].h = thread'[w].startH
    BY <1>1 DEF HourTaken, Goto, Answer
  <2>1. t \in RouteThreads /\ t.pc = "check"
    BY <1>2 DEF HourTaken
  <2> QED
    BY <2>1 DEF NextCandidate, RouteThreads
<1>4. ASSUME NEW pc, NEW h, t \in RouteThreads,
             \/ thread'[w] = [t EXCEPT !.pc = pc, !.h = h]
             \/ thread'[w] = [t EXCEPT !.pc = pc] /\ h = t.h
             \/ thread'[w] = [t EXCEPT !.h = h] /\ pc = t.pc
      PROVE  SameStay(t, thread'[w]) /\ thread'[w].pc = pc /\ thread'[w].h = h
  <2>1. /\ thread'[w].pc = pc /\ thread'[w].h = h
        /\ thread'[w].src = t.src /\ thread'[w].dest = t.dest /\ thread'[w].at = t.at
        /\ thread'[w].startH = t.startH /\ thread'[w].endH = t.endH
    BY <1>4 DEF RouteThreads
  <2> QED
    BY <2>1 DEF SameStay, Candidate, IsFallback, Path
<1>5. HourFree(w) => /\ SameStay(t, thread'[w])
                     /\ ~ LastHour(t) => thread'[w].pc = "check" /\ thread'[w].h = t.h + 1
                     /\ LastHour(t) => thread'[w].pc = "test" /\ thread'[w].h = t.startH
  <2> SUFFICES ASSUME HourFree(w)
               PROVE  /\ SameStay(t, thread'[w])
                      /\ ~ LastHour(t) => thread'[w].pc = "check" /\ thread'[w].h = t.h + 1
                      /\ LastHour(t) => thread'[w].pc = "test" /\ thread'[w].h = t.startH
    OBVIOUS
  <2>1. t \in RouteThreads /\ t.pc = "check"
    BY <1>2 DEF HourFree
  <2>2. CASE ~ LastHour(t)
    <3>1. thread'[w] = [t EXCEPT !.h = t.h + 1]
      BY <1>1, <2>1, <2>2 DEF HourFree, Goto
    <3> QED
      BY <1>4, <2>1, <2>2, <3>1
  <2>3. CASE LastHour(t)
    <3>1. thread'[w] = [t EXCEPT !.pc = "test", !.h = t.startH]
      BY <1>1, <2>3 DEF HourFree, Goto
    <3> QED
      BY <1>4, <2>1, <2>3, <3>1
  <2> QED
    BY <2>2, <2>3
<1>6. ReserveTestFree(w) =>
        SameStay(t, thread'[w]) /\ thread'[w].pc = "load" /\ thread'[w].h = t.h
  <2> SUFFICES ASSUME ReserveTestFree(w)
               PROVE  SameStay(t, thread'[w]) /\ thread'[w].pc = "load" /\ thread'[w].h = t.h
    OBVIOUS
  <2>1. t \in RouteThreads
    BY <1>2 DEF ReserveTestFree
  <2>2. thread'[w] = [t EXCEPT !.pc = "load"]
    BY <1>1 DEF ReserveTestFree, Goto
  <2> QED
    BY <1>4, <2>1, <2>2
<1>7. ReserveTestTaken(w) \/ ReserveStore(w) =>
        /\ LastHour(t) => thread'[w] = Idle
        /\ ~ LastHour(t) => /\ SameStay(t, thread'[w])
                            /\ thread'[w].pc = "test" /\ thread'[w].h = t.h + 1
  <2> SUFFICES ASSUME ReserveTestTaken(w) \/ ReserveStore(w)
               PROVE  /\ LastHour(t) => thread'[w] = Idle
                      /\ ~ LastHour(t) => /\ SameStay(t, thread'[w])
                                          /\ thread'[w].pc = "test"
                                          /\ thread'[w].h = t.h + 1
    OBVIOUS
  <2>1. t \in RouteThreads /\ NextHourOrAnswer(w, t)
    BY <1>2 DEF ReserveTestTaken, ReserveStore
  <2>2. CASE LastHour(t)
    BY <1>1, <2>1, <2>2 DEF NextHourOrAnswer, Answer, Goto
  <2>3. CASE ~ LastHour(t)
    <3>1. thread'[w] = [t EXCEPT !.pc = "test", !.h = @ + 1]
      BY <1>1, <2>1, <2>3 DEF NextHourOrAnswer, Goto
    <3>2. thread'[w] = [t EXCEPT !.pc = "test", !.h = t.h + 1]
      BY <2>1, <3>1 DEF RouteThreads
    <3> QED
      BY <1>4, <2>1, <2>3, <3>2
  <2> QED
    BY <2>2, <2>3
<1>8. ReserveLoad(w) => /\ SameStay(t, thread'[w])
                        /\ thread'[w].pc = "store" /\ thread'[w].h = t.h
                        /\ thread'[w].value = slots[Candidate(t)][t.h]
  <2> SUFFICES ASSUME ReserveLoad(w)
               PROVE  /\ SameStay(t, thread'[w])
                      /\ thread'[w].pc = "store" /\ thread'[w].h = t.h
                      /\ thread'[w].value = slots[Candidate(t)][t.h]
    OBVIOUS
  <2>1. t \in RouteThreads
    BY <1>2 DEF ReserveLoad
  <2>2. thread'[w] = [t EXCEPT !.pc = "store", !.value = slots[Candidate(t)][t.h]]
    BY <1>1 DEF ReserveLoad, Goto
  <2>3. /\ thread'[w].pc = "store" /\ thread'[w].h = t.h
        /\ thread'[w].value = slots[Candidate(t)][t.h]
        /\ thread'[w].src = t.src /\ thread'[w].dest = t.dest /\ thread'[w].at = t.at
        /\ thread'[w].startH = t.startH /\ thread'[w].endH = t.endH
    BY <2>1, <2>2 DEF RouteThreads
  <2> QED
    BY <2>3 DEF SameStay, Candidate, IsFallback, Path
<1> HIDE DEF t
<1> QED
  BY <1>3, <1>5, <1>6, <1>7, <1>8 DEF t

\* Where the steps of an /update handler leave it.
LEMMA UpdateMoves ==
  ASSUME TypeInv, NEW w \in Workers
  PROVE  LET t == thread[w]
             u == thread'[w]
         IN
         /\ UpdateReadCap(w) => /\ u.pc = "writeCap" /\ u.oldCap = capacity[t.id]
                                /\ u.id = t.id /\ u.newCap = t.newCap /\ u.h = t.h
         /\ UpdateWriteCap(w) => /\ u.pc = "readSlot" /\ u.oldCap = t.oldCap
                                 /\ u.id = t.id /\ u.newCap = t.newCap /\ u.h = t.h
         /\ UpdateReadSlot(w) => /\ u.pc = "writeSlot" /\ u.value = Free(slots, t.id, t.h)
                                 /\ u.oldCap = t.oldCap
                                 /\ u.id = t.id /\ u.newCap = t.newCap /\ u.h = t.h
         /\ UpdateWriteSlot(w) =>
              /\ u.id = t.id /\ u.newCap = t.newCap /\ u.oldCap = t.oldCap
              /\ t.h + 1 < HoursPerDay => u.pc = "readSlot" /\ u.h = t.h + 1
              /\ ~ (t.h + 1 < HoursPerDay) => u.pc = "save"
         /\ UpdateSave(w) => u = Idle
<1> DEFINE t == thread[w]
<1>1. \A u : thread' = [thread EXCEPT ![w] = u] => thread'[w] = u
  BY DEF TypeInv, TypeOK
<1>2. t.pc \in {"readCap", "writeCap", "readSlot", "writeSlot", "save"} =>
        t \in UpdateThreads
  BY HandlerKinds
<1>3. ASSUME UpdateReadCap(w)
      PROVE  /\ thread'[w].pc = "writeCap" /\ thread'[w].oldCap = capacity[t.id]
             /\ thread'[w].id = t.id /\ thread'[w].newCap = t.newCap
             /\ thread'[w].h = t.h
  <2>1. t \in UpdateThreads /\ t.pc = "readCap"
    BY <1>2, <1>3 DEF UpdateReadCap
  <2>2. thread'[w] = [t EXCEPT !.pc = "writeCap", !.oldCap = capacity[t.id]]
    BY <1>1, <1>3 DEF UpdateReadCap, Goto
  <2> QED
    BY <2>1, <2>2 DEF UpdateThreads
<1>4. ASSUME UpdateWriteCap(w)
      PROVE  /\ thread'[w].pc = "readSlot" /\ thread'[w].oldCap = t.oldCap
             /\ thread'[w].id = t.id /\ thread'[w].newCap = t.newCap
             /\ thread'[w].h = t.h
  <2>1. t \in UpdateThreads
    BY <1>2, <1>4 DEF UpdateWriteCap
  <2>2. thread'[w] = [t EXCEPT !.pc = "readSlot"]
    BY <1>1, <1>4 DEF UpdateWriteCap, Goto
  <2> QED
    BY <2>1, <2>2 DEF UpdateThreads
<1>5. ASSUME UpdateReadSlot(w)
      PROVE  /\ thread'[w].pc = "writeSlot" /\ thread'[w].value = Free(slots, t.id, t.h)
             /\ thread'[w].oldCap = t.oldCap
             /\ thread'[w].id = t.id /\ thread'[w].newCap = t.newCap
             /\ thread'[w].h = t.h
  <2>1. t \in UpdateThreads
    BY <1>2, <1>5 DEF UpdateReadSlot
  <2>2. thread'[w] = [t EXCEPT !.pc = "writeSlot", !.value = Free(slots, t.id, t.h)]
    BY <1>1, <1>5 DEF UpdateReadSlot, Goto
  <2> QED
    BY <2>1, <2>2 DEF UpdateThreads
<1>6. ASSUME UpdateWriteSlot(w)
      PROVE  /\ thread'[w].id = t.id /\ thread'[w].newCap = t.newCap
             /\ thread'[w].oldCap = t.oldCap
             /\ t.h + 1 < HoursPerDay => thread'[w].pc = "readSlot" /\ thread'[w].h = t.h + 1
             /\ ~ (t.h + 1 < HoursPerDay) => thread'[w].pc = "save"
  <2>1. t \in UpdateThreads
    BY <1>2, <1>6 DEF UpdateWriteSlot
  <2>2. CASE t.h + 1 < HoursPerDay
    <3>1. thread'[w] = [t EXCEPT !.pc = "readSlot", !.h = t.h + 1]
      BY <1>1, <1>6, <2>1, <2>2 DEF UpdateWriteSlot, Goto
    <3> QED
      BY <2>1, <2>2, <3>1 DEF UpdateThreads
  <2>3. CASE ~ (t.h + 1 < HoursPerDay)
    <3>1. thread'[w] = [t EXCEPT !.pc = "save"]
      BY <1>1, <1>6, <2>3 DEF UpdateWriteSlot, Goto
    <3> QED
      BY <2>1, <2>3, <3>1 DEF UpdateThreads
  <2> QED
    BY <2>2, <2>3
<1>7. ASSUME UpdateSave(w) PROVE thread'[w] = Idle
  BY <1>1, <1>7 DEF UpdateSave, Answer, Goto
<1> HIDE DEF t
<1> QED
  BY <1>3, <1>4, <1>5, <1>6, <1>7 DEF t

\* The steps that neither change the table nor load a number from it.
LEMMA OtherSteps ==
  ASSUME TypeInv, NEW w \in Workers,
         \/ Arrival(w)         \/ HourTaken(w)     \/ HourFree(w)
         \/ ReserveTestFree(w) \/ ReserveTestTaken(w)
         \/ UpdateReadCap(w)   \/ UpdateSave(w)
  PROVE  /\ UNCHANGED <<slots, capacity, peak, forgot>>
         /\ thread'[w].pc \in {"idle", "check", "test", "load", "readCap", "writeCap"}
<1>1. \A u : thread' = [thread EXCEPT ![w] = u] => thread'[w] = u
  BY DEF TypeInv, TypeOK
<1>2. CASE Arrival(w)
  <2> DEFINE Same == UNCHANGED <<slots, capacity, peak, forgot>>
  <2>1. ASSUME NEW src, NEW dest, NEW startH, NEW endH,
               RouteArrives(w, src, dest, startH, endH)
        PROVE  Same /\ thread'[w].pc = "check"
    BY <1>1, <2>1 DEF RouteArrives, Goto, RouteThread, shared, history
  <2>2. ASSUME NEW src, NEW dest, NEW startH, NEW endH,
               RouteRefused(w, src, dest, startH, endH)
        PROVE  Same /\ thread'[w].pc = "idle"
    BY <1>1, <2>2 DEF RouteRefused, Goto, Answer, Idle, shared, history
  <2>3. ASSUME NEW id, NEW newCap, UpdateArrives(w, id, newCap)
        PROVE  Same /\ thread'[w].pc = "readCap"
    BY <1>1, <2>3 DEF UpdateArrives, Goto, UpdateThread, shared, history
  <2>4. ASSUME NEW id, NEW newCap, UpdateRefused(w, id, newCap)
        PROVE  Same /\ thread'[w].pc = "idle"
    BY <1>1, <2>4 DEF UpdateRefused, Goto, Answer, Idle, shared, history
  <2> HIDE DEF Same
  <2>5. Same /\ thread'[w].pc \in {"idle", "check", "readCap"}
    BY <1>2, <2>1, <2>2, <2>3, <2>4 DEF Arrival
  <2> QED
    BY <2>5 DEF Same
<1>3. CASE HourTaken(w)
  BY <1>3, RouteMoves DEF HourTaken, Idle, shared, history
<1>4. CASE HourFree(w)
  BY <1>4, RouteMoves DEF HourFree, shared
<1>5. CASE ReserveTestFree(w)
  BY <1>5, RouteMoves DEF ReserveTestFree, shared, history
<1>6. CASE ReserveTestTaken(w)
  BY <1>6, RouteMoves DEF ReserveTestTaken, Idle, shared, history
<1>7. CASE UpdateReadCap(w)
  BY <1>7, UpdateMoves DEF UpdateReadCap, shared, history
<1>8. CASE UpdateSave(w)
  BY <1>8, UpdateMoves DEF UpdateSave, Idle, history
<1> QED
  BY <1>2, <1>3, <1>4, <1>5, <1>6, <1>7, <1>8

LEMMA StepKeepsPeakInv ==
  ASSUME PeakInv, NEW w \in Workers, Arrival(w) \/ Run(w)
  PROVE  PeakInv'
<1> DEFINE t == thread[w]
<1>1. TypeInv /\ TypeInv'
  BY ArrivalKeepsTypes, RunKeepsTypes DEF PeakInv
<1>2. /\ DOMAIN slots \subseteq Lots /\ DOMAIN slots' \subseteq Lots
      /\ slots \in [DOMAIN slots -> [Hours -> Int]]
      /\ peak \in [Nodes -> Nat] /\ peak' \in [Nodes -> Nat]
      /\ Lots \subseteq Nodes
      /\ thread \in [Workers -> {Idle} \cup RouteThreads \cup UpdateThreads]
  BY <1>1, LotsAreNodes DEF TypeInv, TypeOK
<1>3. \A u : thread' = [thread EXCEPT ![w] = u] => thread'[w] = u
  BY <1>2
<1>4. \A n \in DOMAIN slots, h \in Hours : slots[n][h] <= peak[n]
  BY DEF PeakInv, NoInventedPlaces
\* It is enough to look at the table and at the handler that moves.
<1>5. ASSUME \A n \in Nodes : peak[n] <= peak'[n],
             WithinPeak(thread'[w], peak'),
             \A n \in DOMAIN slots', h \in Hours : slots'[n][h] <= peak'[n]
      PROVE  PeakInv'
  <2>1. ASSUME NEW v \in Workers PROVE WithinPeak(thread'[v], peak')
    <3>1. CASE v = w
      BY <1>5, <3>1
    <3>2. CASE v # w
      <4>1. thread'[v] = thread[v] /\ WithinPeak(thread[v], peak)
        BY <1>1, <3>2, OnlyOneMoves DEF PeakInv
      <4>2. thread[v].pc = "store" =>
              Candidate(thread[v]) \in Nodes /\ thread[v].value \in Int
        BY <1>1, <1>2, HandlerKinds, CandidateIsLot
      <4>3. thread[v].pc \in {"readSlot", "writeSlot"} =>
              thread[v].id \in Nodes /\ thread[v].newCap \in Nat
        BY <1>1, <1>2, HandlerKinds DEF UpdateThreads
      <4> QED
        BY <1>2, <1>5, <4>1, <4>2, <4>3 DEF WithinPeak
    <3> QED
      BY <3>1, <3>2
  <2> QED
    BY <1>1, <1>5, <2>1 DEF PeakInv, NoInventedPlaces
<1>6. CASE \/ Arrival(w)         \/ HourTaken(w)     \/ HourFree(w)
           \/ ReserveTestFree(w) \/ ReserveTestTaken(w)
           \/ UpdateReadCap(w)   \/ UpdateSave(w)
  <2>1. /\ UNCHANGED <<slots, peak>>
        /\ thread'[w].pc \notin {"store", "readSlot", "writeSlot"}
    BY <1>1, <1>6, OtherSteps
  <2> QED
    BY <1>2, <1>4, <1>5, <2>1 DEF WithinPeak
<1>7. CASE ReserveLoad(w)
  <2>1. /\ t \in RouteThreads /\ t.h \in Hours /\ WellFormed(t, slots) /\ t.pc = "load"
    BY <1>1, <1>7, HandlerKinds DEF ReserveLoad
  <2>2. Candidate(t) \in DOMAIN slots
    BY <2>1 DEF WellFormed, UpdateThreads, Idle
  <2>3. thread'[w] = [t EXCEPT !.pc = "store", !.value = slots[Candidate(t)][t.h]]
    BY <1>3, <1>7 DEF ReserveLoad, Goto
  <2>4. /\ thread'[w].pc = "store" /\ thread'[w].value = slots[Candidate(t)][t.h]
        /\ Candidate(thread'[w]) = Candidate(t)
    BY <2>1, <2>3 DEF RouteThreads, Candidate, IsFallback, Path
  <2>5. UNCHANGED <<slots, peak>>
    BY <1>7 DEF ReserveLoad, shared, history
  <2> QED
    BY <1>2, <1>4, <1>5, <2>1, <2>2, <2>4, <2>5 DEF WithinPeak
<1>8. CASE ReserveStore(w)
  <2>1. t \in RouteThreads /\ t.h \in Hours /\ t.pc = "store" /\ t.value \in Int
        /\ Candidate(t) \in Lots /\ t.value <= peak[Candidate(t)]
    BY <1>1, <1>8, HandlerKinds, CandidateIsLot DEF ReserveStore, PeakInv, WithinPeak
  <2>2. slots' = [slots EXCEPT ![Candidate(t)][t.h] = t.value - 1] /\ peak' = peak
    BY <1>8 DEF ReserveStore, Stored, history
  <2>3. \A n \in DOMAIN slots', h \in Hours : slots'[n][h] <= peak'[n]
    <3> SUFFICES ASSUME NEW n \in DOMAIN slots, NEW h \in Hours
                 PROVE  slots'[n][h] <= peak[n]
      BY <2>2
    <3>1. CASE n = Candidate(t) /\ h = t.h
      <4>1. slots'[n][h] = t.value - 1
        BY <1>2, <2>2, <3>1
      <4> QED
        BY <1>2, <2>1, <3>1, <4>1
    <3>2. CASE ~ (n = Candidate(t) /\ h = t.h)
      BY <1>2, <1>4, <2>2, <3>2
    <3> QED
      BY <3>1, <3>2
  <2>4. thread'[w].pc \in {"test", "idle"}
    BY <1>1, <1>8, RouteMoves DEF Idle
  <2> QED
    BY <1>2, <1>5, <2>2, <2>3, <2>4 DEF WithinPeak
<1>9. CASE UpdateWriteCap(w)
  <2>1. t \in UpdateThreads /\ t.id \in Nodes /\ t.newCap \in Nat
    BY <1>1, <1>2, <1>9, HandlerKinds DEF UpdateWriteCap, UpdateThreads
  <2>2. /\ slots' = slots
        /\ peak' = [peak EXCEPT ![t.id] = IF t.newCap > @ THEN t.newCap ELSE @]
    BY <1>9 DEF UpdateWriteCap
  <2>3. (\A n \in Nodes : peak[n] <= peak'[n]) /\ t.newCap <= peak'[t.id]
    BY <1>2, <2>1, <2>2
  <2>4. /\ thread'[w].pc = "readSlot" /\ thread'[w].id = t.id
        /\ thread'[w].newCap = t.newCap
    BY <1>1, <1>9, UpdateMoves
  <2>5. \A n \in DOMAIN slots', h \in Hours : slots'[n][h] <= peak'[n]
    BY <1>2, <1>4, <2>2, <2>3
  <2> QED
    BY <1>5, <2>3, <2>4, <2>5 DEF WithinPeak
<1>10. CASE UpdateReadSlot(w)
  <2>1. t \in UpdateThreads /\ t.newCap <= peak[t.id]
    BY <1>1, <1>10, HandlerKinds DEF UpdateReadSlot, PeakInv, WithinPeak
  <2>2. /\ peak' = peak
        /\ slots' = [n \in DOMAIN slots \cup {t.id} |->
                       IF n \in DOMAIN slots THEN slots[n] ELSE [h \in Hours |-> 0]]
    BY <1>10 DEF UpdateReadSlot, history
  <2>3. /\ thread'[w].pc = "writeSlot" /\ thread'[w].id = t.id
        /\ thread'[w].newCap = t.newCap
    BY <1>1, <1>10, UpdateMoves
  <2>4. \A n \in DOMAIN slots', h \in Hours : slots'[n][h] <= peak'[n]
    BY <1>2, <1>4, <2>2
  <2>5. \A n \in Nodes : peak[n] <= peak'[n]
    BY <1>2, <2>2
  <2>6. WithinPeak(thread'[w], peak')
    BY <2>1, <2>2, <2>3 DEF WithinPeak
  <2> QED
    BY <1>5, <2>4, <2>5, <2>6
<1>11. CASE UpdateWriteSlot(w)
  <2>1. t \in UpdateThreads /\ t.newCap <= peak[t.id] /\ t.newCap \in Nat
        /\ t.id \in Nodes /\ t.h \in Hours /\ t.oldCap \in Nat /\ t.value \in Int
    BY <1>1, <1>2, <1>11, HandlerKinds
       DEF UpdateWriteSlot, PeakInv, WithinPeak, UpdateThreads
  <2>2. /\ peak' = peak
        /\ slots' = [slots EXCEPT ![t.id][t.h] = Recount(t.oldCap, t.newCap, t.value)]
    BY <1>11 DEF UpdateWriteSlot, history
  <2>3. Recount(t.oldCap, t.newCap, t.value) <= peak[t.id]
    BY <1>2, <2>1 DEF Recount, NonNegative
  <2>4. \A n \in DOMAIN slots', h \in Hours : slots'[n][h] <= peak'[n]
    <3> SUFFICES ASSUME NEW n \in DOMAIN slots, NEW h \in Hours
                 PROVE  slots'[n][h] <= peak[n]
      BY <2>2
    <3>1. CASE n = t.id /\ h = t.h
      BY <1>2, <2>2, <2>3, <3>1
    <3>2. CASE ~ (n = t.id /\ h = t.h)
      BY <1>2, <1>4, <2>2, <3>2
    <3> QED
      BY <3>1, <3>2
  <2>5. /\ thread'[w].pc \in {"readSlot", "save"} /\ thread'[w].id = t.id
        /\ thread'[w].newCap = t.newCap
    BY <1>1, <1>11, UpdateMoves
  <2> QED
    BY <1>2, <1>5, <2>1, <2>2, <2>4, <2>5 DEF WithinPeak
<1> QED
  BY <1>6, <1>7, <1>8, <1>9, <1>10, <1>11 DEF Run

LEMMA InitPeakInv == Init => PeakInv
<1> SUFFICES ASSUME Init PROVE PeakInv
  OBVIOUS
<1>1. NoInventedPlaces
  <2> SUFFICES ASSUME NEW n \in DOMAIN slots, NEW h \in Hours
               PROVE  slots[n][h] <= peak[n]
    BY DEF NoInventedPlaces
  <2>1. slots[n][h] = peak[n] /\ n \in Nodes
    BY LotsAreNodes, FreshTable DEF Init, Free
  <2> QED
    BY <2>1, CapacityAssumption DEF Init
<1>2. \A w \in Workers : WithinPeak(thread[w], peak)
  BY DEF Init, Idle, WithinPeak
<1> QED
  BY <1>1, <1>2, InitTypes DEF PeakInv

LEMMA NextPeakInv == PeakInv /\ [Next]_vars => PeakInv'
<1> SUFFICES ASSUME PeakInv, [Next]_vars PROVE PeakInv'
  OBVIOUS
<1>1. CASE Next
  BY <1>1, StepKeepsPeakInv DEF Next
<1>2. CASE UNCHANGED vars
  <2>1. TypeInv'
    BY <1>2, NextTypes DEF PeakInv
  <2> QED
    BY <1>2, <2>1 DEF PeakInv, NoInventedPlaces, WithinPeak, vars, shared, history
<1> QED
  BY <1>1, <1>2

\* Stale stores of reserveSlot and racing recounts of updateCapacity never show
\* more free places at a lot than it ever had places, however many workers run.
THEOREM NoPlaceIsInvented == Spec => []NoInventedPlaces
<1>1. Spec => []PeakInv
  BY InitPeakInv, NextPeakInv, PTL DEF Spec
<1> QED
  BY <1>1, PTL DEF PeakInv

-----------------------------------------------------------------------------
(***************************************************************************)
(* The account of a lot.  While one handler is at work on a lot that no    *)
(* other handler touches, what it has still to do tells exactly how far    *)
(* free places and stays are from adding up; at a lot that nobody touches  *)
(* they add up.                                                            *)
(***************************************************************************)

Exact(n) == \A h \in Hours : Free(slots, n, h) + granted[n][h] = capacity[n]

\* The hours a /route handler has still to take.
ToTake(t) == t.h .. (t.endH - 1)

\* The account of lot n in the middle of handler t, by what t is doing.
During(t, n) ==
  /\ t.pc = "check" =>
       /\ Exact(n)
       /\ \A h \in t.startH .. (t.h - 1) : Free(slots, n, h) > 0
  /\ t.pc \in {"test", "load", "store"} =>
       \A h \in Hours :
         /\ h \in ToTake(t) => /\ Free(slots, n, h) + granted[n][h] = capacity[n] + 1
                              /\ Free(slots, n, h) > 0
         /\ h \notin ToTake(t) => Free(slots, n, h) + granted[n][h] = capacity[n]
  /\ t.pc = "store" => t.value = Free(slots, n, t.h)
  /\ t.pc = "writeCap" => Exact(n) /\ t.oldCap = capacity[n]
  /\ t.pc \in {"readSlot", "writeSlot"} =>
       /\ capacity[n] = t.newCap
       /\ \A h \in Hours :
            /\ granted[n][h] <= t.newCap
            /\ h < t.h => Free(slots, n, h) + granted[n][h] = t.newCap
            /\ h >= t.h => Free(slots, n, h) + granted[n][h] = t.oldCap
  /\ t.pc = "writeSlot" => t.value = Free(slots, n, t.h)

Account(t, n) == IF n \in Touched(t) THEN During(t, n) ELSE Exact(n)

RacesNoted ==
  \A v, w \in Workers :
    v # w => (Touched(thread[v]) \cap Touched(thread[w])) \subseteq raced

LedgerInv ==
  /\ TypeInv
  /\ RacesNoted
  /\ \A n \in Lots \ (forgot \cup raced) :
       /\ \A w \in Workers : n \in Touched(thread[w]) => During(thread[w], n)
       /\ (\A w \in Workers : n \notin Touched(thread[w])) => Exact(n)

\* What the steps that change a table do to it, entry by entry.
LEMMA TableChanges ==
  ASSUME TypeInv, NEW w \in Workers, NEW n \in Lots, NEW h \in Hours
  PROVE  LET t == thread[w] IN
         /\ HourFree(w) =>
              granted'[n][h] = IF LastHour(t) /\ n = Candidate(t) /\ h \in Stay(t.startH, t.endH)
                               THEN granted[n][h] + 1
                               ELSE granted[n][h]
         /\ ReserveStore(w) =>
              Free(slots', n, h) = IF n = Candidate(t) /\ h = t.h
                                   THEN t.value - 1
                                   ELSE Free(slots, n, h)
         /\ UpdateWriteCap(w) =>
              capacity'[n] = IF n = t.id THEN t.newCap ELSE capacity[n]
         /\ UpdateReadSlot(w) => Free(slots', n, h) = Free(slots, n, h)
         /\ UpdateWriteSlot(w) =>
              Free(slots', n, h) = IF n = t.id /\ h = t.h
                                   THEN Recount(t.oldCap, t.newCap, t.value)
                                   ELSE Free(slots, n, h)
<1> DEFINE t == thread[w]
<1>1. /\ slots \in [DOMAIN slots -> [Hours -> Int]]
      /\ granted \in [Lots -> [Hours -> Nat]]
      /\ capacity \in [Nodes -> Nat]
      /\ n \in Nodes
  BY LotsAreNodes DEF TypeInv, TypeOK
<1>2. ASSUME HourFree(w)
      PROVE  granted'[n][h] =
               IF LastHour(t) /\ n = Candidate(t) /\ h \in Stay(t.startH, t.endH)
               THEN granted[n][h] + 1
               ELSE granted[n][h]
  <2>1. CASE LastHour(t)
    <3>1. granted' = [granted EXCEPT ![Candidate(t)] =
                        [i \in Hours |-> IF i \in Stay(t.startH, t.endH)
                                         THEN @[i] + 1 ELSE @[i]]]
      BY <1>2, <2>1 DEF HourFree
    <3>2. granted'[n] = IF n = Candidate(t)
                        THEN [i \in Hours |-> IF i \in Stay(t.startH, t.endH)
                                              THEN granted[n][i] + 1 ELSE granted[n][i]]
                        ELSE granted[n]
      BY <1>1, <3>1
    <3> QED
      BY <2>1, <3>2
  <2>2. CASE ~ LastHour(t)
    BY <1>2, <2>2 DEF HourFree
  <2> QED
    BY <2>1, <2>2
<1>3. ASSUME ReserveStore(w)
      PROVE  Free(slots', n, h) =
               IF n = Candidate(t) /\ h = t.h THEN t.value - 1 ELSE Free(slots, n, h)
  <2>1. /\ WellFormed(t, slots) /\ t.pc = "store" /\ t \in RouteThreads
    BY <1>3, HandlerKinds DEF ReserveStore
  <2>2. Candidate(t) \in DOMAIN slots
    BY <2>1 DEF WellFormed, UpdateThreads, Idle
  <2>3. slots' = [slots EXCEPT ![Candidate(t)][t.h] = t.value - 1]
    BY <1>3 DEF ReserveStore, Stored
  <2> QED
    BY <1>1, <2>2, <2>3 DEF Free
<1>4. ASSUME UpdateWriteCap(w)
      PROVE  capacity'[n] = IF n = t.id THEN t.newCap ELSE capacity[n]
  BY <1>1, <1>4 DEF UpdateWriteCap
<1>5. ASSUME UpdateReadSlot(w) PROVE Free(slots', n, h) = Free(slots, n, h)
  BY <1>1, <1>5 DEF UpdateReadSlot, Free
<1>6. ASSUME UpdateWriteSlot(w)
      PROVE  Free(slots', n, h) = IF n = t.id /\ h = t.h
                                  THEN Recount(t.oldCap, t.newCap, t.value)
                                  ELSE Free(slots, n, h)
  <2>1. WellFormed(t, slots) /\ t.pc = "writeSlot"
    BY <1>6, HandlerKinds DEF UpdateWriteSlot
  <2>2. t.id \in DOMAIN slots
    BY <2>1 DEF WellFormed, RouteThreads, Idle
  <2>3. slots' = [slots EXCEPT ![t.id][t.h] = Recount(t.oldCap, t.newCap, t.value)]
    BY <1>6 DEF UpdateWriteSlot
  <2> QED
    BY <1>1, <2>2, <2>3 DEF Free
<1> HIDE DEF t
<1> QED
  BY <1>2, <1>3, <1>4, <1>5, <1>6 DEF t

LEMMA FreeIsInt ==
  ASSUME TypeInv, NEW n \in Lots, NEW h \in Hours
  PROVE  /\ Free(slots, n, h) \in Int
         /\ granted[n][h] \in Nat
         /\ capacity[n] \in Nat
BY LotsAreNodes DEF TypeInv, TypeOK, Free

\* A step of a handler keeps the account of a lot, whether it is at work there or
\* not, unless it cuts the lot below what is reserved.
LEMMA RouteKeepsAccount ==
  ASSUME TypeInv, NEW w \in Workers, NEW n \in Lots, Account(thread[w], n),
         \/ HourTaken(w)       \/ HourFree(w)     \/ ReserveTestFree(w)
         \/ ReserveTestTaken(w) \/ ReserveLoad(w) \/ ReserveStore(w)
  PROVE  Account(thread[w], n)'
<1> DEFINE t == thread[w]
           u == thread'[w]
<1>1. /\ t \in RouteThreads
      /\ t.pc \in {"check", "test", "load", "store"}
      /\ t.h \in Hours /\ t.startH \in Hours /\ t.endH \in 1 .. HoursPerDay
      /\ t.startH <= t.h /\ t.h < t.endH
  <2>1. t.pc \in {"check", "test", "load", "store"}
    BY DEF HourTaken, HourFree, ReserveTestFree, ReserveTestTaken, ReserveLoad, ReserveStore
  <2>2. t \in RouteThreads /\ t.h \in t.startH .. (t.endH - 1) /\ t.h \in Hours
    BY <2>1, HandlerKinds
  <2> QED
    BY <2>1, <2>2 DEF RouteThreads
<1>2. /\ Hours \subseteq Int
      /\ t.h \in Int /\ t.startH \in Int /\ t.endH \in Int
  BY <1>1, HoursAssumption DEF Hours
<1>3. \A h \in Hours : /\ Free(slots, n, h) \in Int
                       /\ granted[n][h] \in Nat
                       /\ capacity[n] \in Nat
  BY FreeIsInt
<1>4. capacity' = capacity
  BY DEF HourTaken, HourFree, ReserveTestFree, ReserveTestTaken, ReserveLoad,
         ReserveStore, shared
<1>5. Touched(Idle) = {}
  BY DEF Idle, Touched
<1>6. CASE HourTaken(w)
  <2>1. t.pc = "check" /\ slots' = slots /\ granted' = granted
    BY <1>6 DEF HourTaken, shared, history
  <2>2. u = Idle \/ (u.pc = "check" /\ u.h = u.startH)
    BY <1>6, RouteMoves
  <2>3. u.pc = "check" /\ u.h = u.startH => ~ (u.h > u.startH)
    <3>1. u = Idle \/ u = NextCandidate(t)
      BY <1>6, RouteMoves
    <3>2. NextCandidate(t).h = t.startH
      BY <1>1 DEF NextCandidate, RouteThreads
    <3> QED
      BY <1>2, <3>1, <3>2 DEF Idle
  <2>4. Touched(u) = {}
    BY <1>5, <2>2, <2>3 DEF Touched
  <2>5. Exact(n)
    BY <2>1 DEF Account, During
  <2> QED
    BY <1>4, <2>1, <2>4, <2>5 DEF Account, Exact
<1>7. CASE HourFree(w) /\ ~ LastHour(t)
  <2>1. t.pc = "check" /\ slots' = slots /\ granted' = granted
        /\ Free(slots, Candidate(t), t.h) > 0
    BY <1>7 DEF HourFree, shared
  <2>2. SameStay(t, u) /\ u.pc = "check" /\ u.h = t.h + 1
    BY <1>7, RouteMoves
  <2>3. Exact(n) /\ Exact(n)'
    BY <1>4, <2>1 DEF Account, During, Exact
  <2>4. n \in Touched(u) => n = Candidate(t)
    BY <2>2 DEF Touched, SameStay
  <2>5. ASSUME n = Candidate(t), NEW h \in u.startH .. (u.h - 1)
        PROVE  Free(slots', n, h) > 0
    <3>1. h = t.h \/ (h \in t.startH .. (t.h - 1) /\ t.h > t.startH)
      BY <1>1, <1>2, <2>2, <2>5 DEF SameStay
    <3>2. t.h > t.startH => n \in Touched(t)
      BY <2>1, <2>5 DEF Touched
    <3> QED
      BY <2>1, <2>5, <3>1, <3>2 DEF Account, During
  <2> QED
    BY <2>2, <2>3, <2>4, <2>5 DEF Account, During
<1>8. CASE HourFree(w) /\ LastHour(t)
  <2>1. t.pc = "check" /\ slots' = slots /\ Free(slots, Candidate(t), t.h) > 0
    BY <1>8 DEF HourFree, shared
  <2>2. SameStay(t, u) /\ u.pc = "test" /\ u.h = t.startH
    BY <1>8, RouteMoves
  <2>3. Exact(n)
    BY <2>1 DEF Account, During
  <2>4. n \in Touched(u) <=> n = Candidate(t)
    BY <2>2 DEF Touched, SameStay
  <2>5. \A h \in Hours :
          granted'[n][h] = IF n = Candidate(t) /\ h \in ToTake(u)
                           THEN granted[n][h] + 1 ELSE granted[n][h]
    BY <1>8, <2>2, TableChanges DEF ToTake, Stay, SameStay
  <2>6. CASE n = Candidate(t)
    <3>1. ASSUME NEW h \in Hours, h \in ToTake(u) PROVE Free(slots, n, h) > 0
      <4>1. h = t.h \/ (h \in t.startH .. (t.h - 1) /\ t.h > t.startH)
        BY <1>1, <1>2, <1>8, <2>2, <3>1 DEF ToTake, LastHour, SameStay
      <4>2. t.h > t.startH => n \in Touched(t)
        BY <2>1, <2>6 DEF Touched
      <4> QED
        BY <2>1, <2>6, <4>1, <4>2 DEF Account, During
    <3>2. ASSUME NEW h \in Hours
          PROVE  Free(slots', n, h) + granted'[n][h] =
                   IF h \in ToTake(u) THEN capacity[n] + 1 ELSE capacity[n]
      <4>1. Free(slots, n, h) + granted[n][h] = capacity[n]
        BY <2>3 DEF Exact
      <4> QED
        BY <1>3, <2>1, <2>5, <2>6, <4>1
    <3>3. During(thread[w], n)'
      BY <1>4, <2>1, <2>2, <3>1, <3>2 DEF During, ToTake
    <3> QED
      BY <2>4, <2>6, <3>3 DEF Account
  <2>7. CASE n # Candidate(t)
    <3>1. Exact(n)'
      BY <1>4, <2>1, <2>3, <2>5, <2>7 DEF Exact
    <3> QED
      BY <2>4, <2>7, <3>1 DEF Account
  <2> QED
    BY <2>6, <2>7
<1>9. CASE ReserveTestFree(w)
  <2>1. t.pc = "test" /\ slots' = slots /\ granted' = granted
    BY <1>9 DEF ReserveTestFree, shared, history
  <2>2. SameStay(t, u) /\ u.pc = "load" /\ u.h = t.h
    BY <1>9, RouteMoves
  <2>3. Touched(u) = Touched(t)
    BY <2>1, <2>2 DEF Touched, SameStay
  <2>4. ToTake(u) = ToTake(t)
    BY <2>2 DEF ToTake, SameStay
  <2>5. During(t, n) => During(thread[w], n)'
    BY <1>4, <2>1, <2>2, <2>4 DEF During, ToTake, SameStay
  <2> QED
    BY <1>4, <2>1, <2>3, <2>5 DEF Account, Exact
<1>10. CASE ReserveTestTaken(w)
  <2>1. t.pc = "test" /\ slots' = slots /\ granted' = granted
        /\ ~ (Free(slots, Candidate(t), t.h) > 0)
    <3>1. Candidate(t) \in Lots
      BY <1>1, HandlerKinds, CandidateIsLot
    <3>2. Free(slots, Candidate(t), t.h) \in Int
      BY <1>1, <3>1, FreeIsInt
    <3> QED
      BY <1>10, <3>2 DEF ReserveTestTaken, shared, history
  <2>2. n # Candidate(t)
    <3>1. t.h \in ToTake(t) /\ Touched(t) = {Candidate(t)}
      BY <1>1, <1>2, <2>1 DEF ToTake, Touched
    <3> QED
      BY <1>1, <2>1, <3>1 DEF Account, During
  <2>3. n \notin Touched(t)
    BY <2>1, <2>2 DEF Touched
  <2>4. n \notin Touched(u)
    <3>1. u = Idle \/ (u.pc = "test" /\ Candidate(u) = Candidate(t))
      BY <1>10, RouteMoves DEF SameStay
    <3> QED
      BY <1>5, <2>2, <3>1 DEF Touched
  <2> QED
    BY <1>4, <2>1, <2>3, <2>4 DEF Account, Exact
<1>11. CASE ReserveLoad(w)
  <2>1. t.pc = "load" /\ slots' = slots /\ granted' = granted
    BY <1>11 DEF ReserveLoad, shared, history
  <2>2. SameStay(t, u) /\ u.pc = "store" /\ u.h = t.h /\ u.value = slots[Candidate(t)][t.h]
    BY <1>11, RouteMoves
  <2>3. Touched(t) = {Candidate(t)} /\ Touched(u) = {Candidate(t)}
    BY <2>1, <2>2 DEF Touched, SameStay
  <2>4. ToTake(u) = ToTake(t)
    BY <2>2 DEF ToTake, SameStay
  <2>5. Candidate(t) \in DOMAIN slots
    BY <1>1, <2>1, HandlerKinds DEF WellFormed, UpdateThreads, Idle
  <2>6. ASSUME n = Candidate(t), During(t, n) PROVE During(thread[w], n)'
    <3>1. u.value = Free(slots', n, u.h)
      BY <2>1, <2>2, <2>5, <2>6 DEF Free
    <3> QED
      BY <1>4, <2>1, <2>2, <2>4, <2>6, <3>1 DEF During, ToTake, SameStay
  <2> QED
    BY <1>4, <2>1, <2>3, <2>6 DEF Account, Exact
<1>12. CASE ReserveStore(w)
  <2>1. t.pc = "store" /\ granted' = granted
    BY <1>12 DEF ReserveStore, history
  <2>2. /\ LastHour(t) => u = Idle
        /\ ~ LastHour(t) => SameStay(t, u) /\ u.pc = "test" /\ u.h = t.h + 1
    BY <1>12, RouteMoves
  <2>3. Touched(t) = {Candidate(t)}
    BY <2>1 DEF Touched
  <2>4. \A h \in Hours :
          Free(slots', n, h) = IF n = Candidate(t) /\ h = t.h
                               THEN t.value - 1 ELSE Free(slots, n, h)
    BY <1>12, TableChanges
  <2>5. CASE n # Candidate(t)
    <3>1. n \notin Touched(u)
      BY <1>5, <2>2, <2>5 DEF Touched, SameStay
    <3>2. Exact(n)'
      BY <1>4, <2>1, <2>3, <2>4, <2>5 DEF Account, Exact
    <3> QED
      BY <3>1, <3>2 DEF Account
  <2>6. CASE n = Candidate(t)
    <3>1. During(t, n)
      BY <2>3, <2>6 DEF Account
    <3>2. ASSUME NEW h \in Hours
          PROVE  /\ Free(slots', n, h) + granted'[n][h] =
                      IF h \in (t.h + 1) .. (t.endH - 1) THEN capacity[n] + 1 ELSE capacity[n]
                 /\ h \in (t.h + 1) .. (t.endH - 1) => Free(slots', n, h) > 0
      <4>1. CASE h = t.h
        <5>1. h \in ToTake(t) /\ h \notin (t.h + 1) .. (t.endH - 1)
          BY <1>1, <1>2, <4>1 DEF ToTake
        <5>2. t.value = Free(slots, n, h)
              /\ Free(slots, n, h) + granted[n][h] = capacity[n] + 1
          BY <2>1, <3>1, <4>1, <5>1 DEF During
        <5>3. Free(slots', n, h) = Free(slots, n, h) - 1
          BY <2>4, <2>6, <4>1, <5>2
        <5> QED
          BY <1>3, <2>1, <5>1, <5>2, <5>3
      <4>2. CASE h # t.h
        <5>1. h \in ToTake(t) <=> h \in (t.h + 1) .. (t.endH - 1)
          BY <1>1, <1>2, <4>2 DEF ToTake
        <5>2. Free(slots', n, h) = Free(slots, n, h)
          BY <2>4, <4>2
        <5> QED
          BY <2>1, <3>1, <5>1, <5>2 DEF During
      <4> QED
        BY <4>1, <4>2
    <3>3. CASE LastHour(t)
      <4>1. \A h \in Hours : h \notin (t.h + 1) .. (t.endH - 1)
        BY <1>2, <3>3 DEF LastHour
      <4>2. Exact(n)'
        BY <1>4, <3>2, <4>1 DEF Exact
      <4> QED
        BY <1>5, <2>2, <3>3, <4>2 DEF Account
    <3>4. CASE ~ LastHour(t)
      <4>1. ToTake(u) = (t.h + 1) .. (t.endH - 1) /\ u.pc = "test" /\ n \in Touched(u)
        BY <2>2, <2>6, <3>4 DEF ToTake, SameStay, Touched
      <4>2. During(thread[w], n)'
        BY <1>4, <3>2, <4>1 DEF During, ToTake
      <4> QED
        BY <4>1, <4>2 DEF Account
    <3> QED
      BY <3>3, <3>4
  <2> QED
    BY <2>5, <2>6
<1> QED
  BY <1>6, <1>7, <1>8, <1>9, <1>10, <1>11, <1>12

LEMMA UpdateKeepsAccount ==
  ASSUME TypeInv, NEW w \in Workers, NEW n \in Lots, Account(thread[w], n),
         n \notin forgot',
         \/ UpdateReadCap(w)  \/ UpdateWriteCap(w) \/ UpdateReadSlot(w)
         \/ UpdateWriteSlot(w) \/ UpdateSave(w)
  PROVE  Account(thread[w], n)'
<1> DEFINE t == thread[w]
           u == thread'[w]
<1>1. /\ t \in UpdateThreads
      /\ t.pc \in {"readCap", "writeCap", "readSlot", "writeSlot", "save"}
      /\ t.h \in Hours /\ t.newCap \in Nat /\ t.oldCap \in Nat
  <2>1. t.pc \in {"readCap", "writeCap", "readSlot", "writeSlot", "save"}
    BY DEF UpdateReadCap, UpdateWriteCap, UpdateReadSlot, UpdateWriteSlot, UpdateSave
  <2>2. t \in UpdateThreads
    BY <2>1, HandlerKinds
  <2> QED
    BY <2>1, <2>2 DEF UpdateThreads
<1>2. Hours \subseteq Int /\ \A h \in Hours : 0 <= h /\ h < HoursPerDay
  BY HoursAssumption DEF Hours
<1>3. \A h \in Hours : /\ Free(slots, n, h) \in Int
                       /\ granted[n][h] \in Nat
                       /\ capacity[n] \in Nat
  BY FreeIsInt
<1>4. granted' = granted
  BY DEF UpdateReadCap, UpdateWriteCap, UpdateReadSlot, UpdateWriteSlot, UpdateSave, history
<1>5. CASE UpdateReadCap(w)
  <2>1. t.pc = "readCap" /\ slots' = slots /\ capacity' = capacity
    BY <1>5 DEF UpdateReadCap, shared
  <2>2. u.pc = "writeCap" /\ u.id = t.id /\ u.oldCap = capacity[t.id]
    BY <1>5, UpdateMoves
  <2>3. Exact(n) /\ Exact(n)'
    BY <1>4, <2>1 DEF Account, Touched, Exact
  <2>4. n \in Touched(u) => n = t.id
    BY <2>2 DEF Touched
  <2> QED
    BY <2>1, <2>2, <2>3, <2>4 DEF Account, During
<1>6. CASE UpdateWriteCap(w)
  <2>1. /\ t.pc = "writeCap" /\ slots' = slots
        /\ n = t.id => \A h \in Hours : ~ (t.oldCap - Free(slots, n, h) > t.newCap)
    BY <1>6 DEF UpdateWriteCap
  <2>2. u.pc = "readSlot" /\ u.id = t.id /\ u.newCap = t.newCap /\ u.oldCap = t.oldCap
        /\ u.h = t.h
    BY <1>6, UpdateMoves
  <2>3. Touched(t) = {t.id} /\ Touched(u) = {t.id}
    BY <2>1, <2>2 DEF Touched
  <2>4. capacity'[n] = IF n = t.id THEN t.newCap ELSE capacity[n]
    <3>1. n \in Nodes /\ capacity \in [Nodes -> Nat]
      BY LotsAreNodes DEF TypeInv, TypeOK
    <3> QED
      BY <1>6, <3>1 DEF UpdateWriteCap
  <2>5. CASE n = t.id
    <3>1. Exact(n) /\ t.oldCap = capacity[n]
      BY <2>1, <2>3, <2>5 DEF Account, During
    <3>2. \A h \in Hours : /\ granted'[n][h] <= t.newCap
                           /\ Free(slots', n, h) + granted'[n][h] = t.oldCap
      BY <1>1, <1>3, <1>4, <2>1, <2>5, <3>1 DEF Exact
    <3>3. \A h \in Hours : ~ (h < t.h)
      <4>1. t.h = 0
        BY <1>1, <2>1, HandlerKinds DEF WellFormed, RouteThreads, Idle
      <4> QED
        BY <1>2, <4>1
    <3> QED
      BY <2>2, <2>3, <2>4, <2>5, <3>2, <3>3 DEF Account, During
  <2>6. CASE n # t.id
    BY <1>4, <2>1, <2>3, <2>4, <2>6 DEF Account, Exact
  <2> QED
    BY <2>5, <2>6
<1>7. CASE UpdateReadSlot(w)
  <2>1. t.pc = "readSlot" /\ capacity' = capacity
    BY <1>7 DEF UpdateReadSlot
  <2>2. u.pc = "writeSlot" /\ u.id = t.id /\ u.newCap = t.newCap /\ u.oldCap = t.oldCap
        /\ u.h = t.h /\ u.value = Free(slots, t.id, t.h)
    BY <1>7, UpdateMoves
  <2>3. Touched(t) = {t.id} /\ Touched(u) = {t.id}
    BY <2>1, <2>2 DEF Touched
  <2>4. \A h \in Hours : Free(slots', n, h) = Free(slots, n, h)
    BY <1>7, TableChanges
  <2>5. ASSUME n = t.id, During(t, n) PROVE During(thread[w], n)'
    BY <1>1, <1>4, <2>1, <2>2, <2>4, <2>5 DEF During
  <2> QED
    BY <1>4, <2>1, <2>3, <2>4, <2>5 DEF Account, Exact
<1>8. CASE UpdateWriteSlot(w)
  <2>1. t.pc = "writeSlot" /\ capacity' = capacity
    BY <1>8 DEF UpdateWriteSlot
  <2>2. /\ u.id = t.id /\ u.newCap = t.newCap /\ u.oldCap = t.oldCap
        /\ t.h + 1 < HoursPerDay => u.pc = "readSlot" /\ u.h = t.h + 1
        /\ ~ (t.h + 1 < HoursPerDay) => u.pc = "save"
    BY <1>8, UpdateMoves
  <2>3. Touched(t) = {t.id}
    BY <2>1 DEF Touched
  <2>4. \A h \in Hours :
          Free(slots', n, h) = IF n = t.id /\ h = t.h
                               THEN Recount(t.oldCap, t.newCap, t.value)
                               ELSE Free(slots, n, h)
    BY <1>8, TableChanges
  <2>5. CASE n # t.id
    <3>1. n \notin Touched(u)
      BY <2>2, <2>5 DEF Touched
    <3> QED
      BY <1>4, <2>1, <2>3, <2>4, <2>5, <3>1 DEF Account, Exact
  <2>6. CASE n = t.id
    <3>1. During(t, n)
      BY <2>3, <2>6 DEF Account
    <3>2. ASSUME NEW h \in Hours
          PROVE  /\ granted'[n][h] <= t.newCap
                 /\ h <= t.h => Free(slots', n, h) + granted'[n][h] = t.newCap
                 /\ h > t.h => Free(slots', n, h) + granted'[n][h] = t.oldCap
      <4>1. CASE h = t.h
        <5>1. /\ t.value = Free(slots, n, h) /\ granted[n][h] <= t.newCap
              /\ Free(slots, n, h) + granted[n][h] = t.oldCap
          BY <1>1, <1>2, <2>1, <3>1, <4>1 DEF During
        <5>2. Recount(t.oldCap, t.newCap, t.value) = t.newCap - granted[n][h]
          BY <1>1, <1>3, <5>1 DEF Recount, NonNegative
        <5>3. Free(slots', n, h) = t.newCap - granted[n][h]
          BY <2>4, <2>6, <4>1, <5>2
        <5> QED
          BY <1>1, <1>2, <1>3, <1>4, <4>1, <5>1, <5>3
      <4>2. CASE h # t.h
        <5>1. Free(slots', n, h) = Free(slots, n, h)
          BY <2>4, <4>2
        <5> QED
          BY <1>1, <1>2, <1>4, <2>1, <3>1, <4>2, <5>1 DEF During
      <4> QED
        BY <4>1, <4>2
    <3>3. capacity[n] = t.newCap
      BY <2>1, <3>1 DEF During
    <3>4. CASE t.h + 1 < HoursPerDay
      <4>1. \A h \in Hours : (h < u.h <=> h <= t.h) /\ (h >= u.h <=> h > t.h)
        <5>1. t.h \in Int /\ u.h = t.h + 1
          BY <1>1, <1>2, <2>2, <3>4
        <5>2. \A h, i \in Int : (h < i + 1 <=> h <= i) /\ (h >= i + 1 <=> h > i)
          OBVIOUS
        <5> HIDE DEF t, u
        <5> QED
          BY <1>2, <5>1, <5>2
      <4>2. During(thread[w], n)'
        BY <2>1, <2>2, <3>2, <3>3, <3>4, <4>1 DEF During
      <4>3. n \in Touched(u)
        BY <2>2, <2>6, <3>4 DEF Touched
      <4> QED
        BY <4>2, <4>3 DEF Account
    <3>5. CASE ~ (t.h + 1 < HoursPerDay)
      <4>1. \A h \in Hours : h <= t.h
        BY <1>1, <3>5, HoursAssumption DEF Hours
      <4>2. Exact(n)'
        BY <2>1, <3>2, <3>3, <4>1 DEF Exact
      <4>3. n \notin Touched(u)
        BY <2>2, <3>5 DEF Touched
      <4> QED
        BY <4>2, <4>3 DEF Account
    <3> QED
      BY <3>4, <3>5
  <2> QED
    BY <2>5, <2>6
<1>9. CASE UpdateSave(w)
  <2>1. t.pc = "save" /\ slots' = slots /\ capacity' = capacity
    BY <1>9 DEF UpdateSave
  <2>2. Touched(t) = {} /\ Touched(u) = {}
    BY <1>9, <2>1, UpdateMoves DEF Touched, Idle
  <2> QED
    BY <1>4, <2>1, <2>2 DEF Account, Exact
<1> QED
  BY <1>5, <1>6, <1>7, <1>8, <1>9

\* A step leaves every lot alone that its handler touches neither before nor after.
LEMMA StepElsewhere ==
  ASSUME TypeInv, NEW w \in Workers, Run(w), NEW n \in Lots,
         n \notin Touched(thread[w]), n \notin Touched(thread'[w])
  PROVE  /\ capacity'[n] = capacity[n]
         /\ \A h \in Hours : /\ Free(slots', n, h) = Free(slots, n, h)
                             /\ granted'[n][h] = granted[n][h]
<1> DEFINE t == thread[w]
<1>1. CASE \/ HourTaken(w)   \/ ReserveTestFree(w) \/ ReserveTestTaken(w)
           \/ ReserveLoad(w) \/ UpdateReadCap(w)   \/ UpdateSave(w)
  BY <1>1 DEF HourTaken, ReserveTestFree, ReserveTestTaken, ReserveLoad,
              UpdateReadCap, UpdateSave, shared, history
<1>2. CASE HourFree(w)
  <2>1. slots' = slots /\ capacity' = capacity
    BY <1>2 DEF HourFree, shared
  <2>2. ~ (LastHour(t) /\ n = Candidate(t))
    BY <1>2, RouteMoves DEF Touched, SameStay
  <2>3. \A h \in Hours : granted'[n][h] = granted[n][h]
    BY <1>2, <2>2, TableChanges
  <2> QED
    BY <2>1, <2>3
<1>3. CASE ReserveStore(w)
  <2>1. n # Candidate(t)
    BY <1>3 DEF ReserveStore, Touched
  <2>2. \A h \in Hours : Free(slots', n, h) = Free(slots, n, h)
    BY <1>3, <2>1, TableChanges
  <2> QED
    BY <1>3, <2>2 DEF ReserveStore, history
<1>4. CASE UpdateWriteCap(w)
  <2>1. n # t.id
    BY <1>4 DEF UpdateWriteCap, Touched
  <2>2. capacity'[n] = capacity[n]
    BY <1>4, <2>1 DEF UpdateWriteCap
  <2> QED
    BY <1>4, <2>2 DEF UpdateWriteCap
<1>5. CASE UpdateReadSlot(w)
  <2>1. \A h \in Hours : Free(slots', n, h) = Free(slots, n, h)
    BY <1>5, TableChanges
  <2> QED
    BY <1>5, <2>1 DEF UpdateReadSlot, history
<1>6. CASE UpdateWriteSlot(w)
  <2>1. n # t.id
    BY <1>6 DEF UpdateWriteSlot, Touched
  <2>2. \A h \in Hours : Free(slots', n, h) = Free(slots, n, h)
    BY <1>6, <2>1, TableChanges
  <2> QED
    BY <1>6, <2>2 DEF UpdateWriteSlot, history
<1> QED
  BY <1>1, <1>2, <1>3, <1>4, <1>5, <1>6 DEF Run

LEMMA ArrivalTouchesNothing ==
  ASSUME TypeInv, NEW w \in Workers, Arrival(w)
  PROVE  /\ Touched(thread[w]) = {} /\ Touched(thread'[w]) = {}
         /\ UNCHANGED <<slots, capacity, granted, forgot, raced>>
<1>1. \A u : thread' = [thread EXCEPT ![w] = u] => thread'[w] = u
  BY DEF TypeInv, TypeOK
<1>2. Touched(Idle) = {}
  BY DEF Idle, Touched
<1>3. Touched(thread[w]) = {}
  <2>1. thread[w].pc = "idle"
    BY DEF Arrival, Accept, RouteArrives, RouteRefused, UpdateArrives, UpdateRefused
  <2> QED
    BY <2>1 DEF Touched
<1> DEFINE Same == UNCHANGED <<slots, capacity, granted, forgot>>
<1>4. ASSUME NEW src, NEW dest, NEW startH \in HourInputs, NEW endH,
             RouteArrives(w, src, dest, startH, endH)
      PROVE  Same /\ Touched(thread'[w]) = {}
  <2>1. thread'[w] = RouteThread(src, dest, startH, endH)
    BY <1>1, <1>4 DEF RouteArrives, Goto
  <2>2. thread'[w].pc = "check" /\ thread'[w].h = startH /\ thread'[w].startH = startH
    BY <2>1 DEF RouteThread
  <2>3. ~ (startH > startH)
    BY InputAssumption
  <2> QED
    BY <1>4, <2>2, <2>3 DEF RouteArrives, Touched, shared, history
<1>5. ASSUME NEW src, NEW dest, NEW startH, NEW endH,
             RouteRefused(w, src, dest, startH, endH)
      PROVE  Same /\ Touched(thread'[w]) = {}
  BY <1>1, <1>2, <1>5 DEF RouteRefused, Answer, Goto, shared, history
<1>6. ASSUME NEW id, NEW newCap, UpdateArrives(w, id, newCap)
      PROVE  Same /\ Touched(thread'[w]) = {}
  <2>1. thread'[w].pc = "readCap"
    BY <1>1, <1>6 DEF UpdateArrives, Goto, UpdateThread
  <2> QED
    BY <1>6, <2>1 DEF UpdateArrives, Touched, shared, history
<1>7. ASSUME NEW id, NEW newCap, UpdateRefused(w, id, newCap)
      PROVE  Same /\ Touched(thread'[w]) = {}
  BY <1>1, <1>2, <1>7 DEF UpdateRefused, Answer, Goto, shared, history
<1> HIDE DEF Same
<1>8. Same /\ Touched(thread'[w]) = {}
  BY <1>4, <1>5, <1>6, <1>7 DEF Arrival
<1>9. raced' = raced
  BY DEF Arrival
<1> QED
  BY <1>3, <1>8, <1>9 DEF Same

LEMMA ArrivalKeepsLedgerInv ==
  ASSUME LedgerInv, NEW w \in Workers, Arrival(w)
  PROVE  LedgerInv'
<1>1. TypeInv /\ TypeInv'
  BY ArrivalKeepsTypes DEF LedgerInv
<1>2. \A v \in Workers : Touched(thread'[v]) = Touched(thread[v])
                         /\ (Touched(thread[v]) # {} => thread'[v] = thread[v])
  BY <1>1, ArrivalTouchesNothing, OnlyOneMoves
<1>3. UNCHANGED <<slots, capacity, granted, forgot, raced>>
  BY <1>1, ArrivalTouchesNothing
<1>4. RacesNoted'
  BY <1>2, <1>3 DEF LedgerInv, RacesNoted
<1>5. ASSUME NEW n \in Lots \ (forgot \cup raced), NEW v \in Workers,
             n \in Touched(thread'[v])
      PROVE  During(thread[v], n)'
  <2>1. thread'[v] = thread[v] /\ During(thread[v], n)
    BY <1>2, <1>5 DEF LedgerInv
  <2> QED
    BY <1>3, <2>1 DEF During, Exact
<1>6. ASSUME NEW n \in Lots \ (forgot \cup raced),
             \A v \in Workers : n \notin Touched(thread'[v])
      PROVE  Exact(n)'
  <2>1. Exact(n)
    BY <1>2, <1>6 DEF LedgerInv
  <2> QED
    BY <1>3, <2>1 DEF Exact
<1> QED
  BY <1>1, <1>3, <1>4, <1>5, <1>6 DEF LedgerInv

\* Whoever is at work on a lot after a step, at most one handler was, and is.
LEMMA RunKeepsLedgerInv ==
  ASSUME LedgerInv, NEW w \in Workers, Run(w)
  PROVE  LedgerInv'
<1>1. TypeInv /\ TypeInv'
  BY RunKeepsTypes DEF LedgerInv
<1>2. \A v \in Workers : v # w => thread'[v] = thread[v]
  BY <1>1, OnlyOneMoves
<1>3. /\ raced \subseteq raced'
      /\ forgot \subseteq forgot'
  BY DEF Run, NoteRaces, HourTaken, HourFree, ReserveTestFree, ReserveTestTaken,
         ReserveLoad, ReserveStore, UpdateReadCap, UpdateWriteCap, UpdateReadSlot,
         UpdateWriteSlot, UpdateSave, history
<1>4. RacesNoted'
  <2>1. ASSUME NEW v \in Workers, NEW x \in Workers, v # x,
               NEW n \in Touched(thread'[v]) \cap Touched(thread'[x])
        PROVE  n \in raced'
    <3>1. n \in Lots
      <4>1. WellFormed(thread'[v], slots')
        BY <1>1 DEF TypeInv, HandlersWellFormed
      <4>2. thread'[v] \in RouteThreads => Candidate(thread'[v]) \in Lots
        BY <4>1, CandidateIsLot
      <4>3. thread'[v] \in UpdateThreads => thread'[v].id \in Lots
        BY DEF UpdateThreads
      <4>4. \/ thread'[v] = Idle \/ thread'[v] \in RouteThreads
            \/ thread'[v] \in UpdateThreads
        BY <4>1 DEF WellFormed
      <4>5. CASE thread'[v] = Idle
        BY <4>5 DEF Idle, Touched
      <4>6. CASE thread'[v] \in RouteThreads
        <5>1. thread'[v].pc \in {"check", "test", "load", "store"}
          BY <4>6 DEF RouteThreads
        <5> QED
          BY <4>2, <4>6, <5>1 DEF Touched
      <4>7. CASE thread'[v] \in UpdateThreads
        <5>1. thread'[v].pc \in {"readCap", "writeCap", "readSlot", "writeSlot", "save"}
          BY <4>7 DEF UpdateThreads
        <5> QED
          BY <4>3, <4>7, <5>1 DEF Touched
      <4> QED
        BY <4>4, <4>5, <4>6, <4>7
    <3> QED
      BY <2>1, <3>1 DEF Run, NoteRaces
  <2> QED
    BY <2>1 DEF RacesNoted
<1>5. ASSUME NEW n \in Lots, n \notin forgot', n \notin raced'
      PROVE  /\ \A v \in Workers : n \in Touched(thread'[v]) => During(thread[v], n)'
             /\ (\A v \in Workers : n \notin Touched(thread'[v])) => Exact(n)'
  <2>1. n \in Lots \ (forgot \cup raced)
    BY <1>3, <1>5
  \* The steps of w while another handler is at work on n are elsewhere.
  <2>2. CASE n \in Touched(thread[w]) \cup Touched(thread'[w])
    <3>1. \A v \in Workers : v # w => n \notin Touched(thread'[v])
      BY <1>2, <1>4, <1>5, <2>1, <2>2 DEF RacesNoted, LedgerInv
    <3>2. Account(thread[w], n)
      BY <1>2, <2>1, <2>2, <3>1 DEF LedgerInv, Account
    <3>3. Account(thread[w], n)'
      BY <1>1, <1>5, <3>2, RouteKeepsAccount, UpdateKeepsAccount DEF Run
    <3> QED
      BY <3>1, <3>3 DEF Account
  <2>3. CASE n \notin Touched(thread[w]) \cup Touched(thread'[w])
    <3>1. /\ capacity'[n] = capacity[n]
          /\ \A h \in Hours : /\ Free(slots', n, h) = Free(slots, n, h)
                              /\ granted'[n][h] = granted[n][h]
      BY <1>1, <2>3, StepElsewhere
    <3>2. Exact(n) => Exact(n)'
      BY <3>1 DEF Exact
    <3>3. ASSUME NEW v \in Workers, n \in Touched(thread'[v])
          PROVE  During(thread[v], n)'
      <4>1. thread'[v] = thread[v] /\ During(thread[v], n)
        BY <1>2, <2>1, <2>3, <3>3 DEF LedgerInv
      <4>2. thread[v].pc \in {"store", "writeSlot"} => thread[v].h \in Hours
        BY <1>1, HandlerKinds DEF UpdateThreads
      <4>3. \A h \in thread[v].startH .. (thread[v].h - 1) :
              thread[v].pc = "check" => h \in Hours
        <5>1. thread[v].pc = "check" => thread[v].h \in Hours /\ thread[v].startH \in Hours
          BY <1>1, HandlerKinds DEF RouteThreads
        <5> QED
          BY <5>1, HoursAssumption DEF Hours
      <4> QED
        BY <3>1, <3>2, <4>1, <4>2, <4>3 DEF During, ToTake
    <3>4. (\A v \in Workers : n \notin Touched(thread'[v])) => Exact(n)'
      BY <1>2, <2>1, <2>3, <3>2 DEF LedgerInv
    <3> QED
      BY <3>3, <3>4
  <2> QED
    BY <2>2, <2>3
<1> QED
  BY <1>1, <1>4, <1>5 DEF LedgerInv

LEMMA InitLedgerInv == Init => LedgerInv
<1> SUFFICES ASSUME Init PROVE LedgerInv
  OBVIOUS
<1>1. \A w \in Workers : Touched(thread[w]) = {}
  BY DEF Init, Idle, Touched
<1>2. \A n \in Lots : Exact(n)
  <2> SUFFICES ASSUME NEW n \in Lots, NEW h \in Hours
               PROVE  Free(slots, n, h) + granted[n][h] = capacity[n]
    BY DEF Exact
  <2>1. Free(slots, n, h) = InitialCapacity[n] /\ granted[n][h] = 0
    BY FreshTable DEF Init
  <2>2. capacity[n] = InitialCapacity[n] /\ InitialCapacity[n] \in Nat
    BY CapacityAssumption, LotsAreNodes DEF Init
  <2> QED
    BY <2>1, <2>2
<1> QED
  BY <1>1, <1>2, InitTypes DEF LedgerInv, RacesNoted

LEMMA NextLedgerInv == LedgerInv /\ [Next]_vars => LedgerInv'
<1> SUFFICES ASSUME LedgerInv, [Next]_vars PROVE LedgerInv'
  OBVIOUS
<1>1. CASE Next
  BY <1>1, ArrivalKeepsLedgerInv, RunKeepsLedgerInv DEF Next
<1>2. CASE UNCHANGED vars
  <2>1. TypeInv'
    BY <1>2, NextTypes DEF LedgerInv
  <2> QED
    BY <1>2, <2>1 DEF LedgerInv, RacesNoted, During, Exact, vars, shared, history
<1> QED
  BY <1>1, <1>2

\* Only two handlers at work on the same lot at the same time, or a cut below what
\* is reserved there, can spoil the account of a lot, however many workers run
\* and whatever happens at the other lots.
THEOREM LedgerExact == Spec => []LedgerExactUnlessRaced
<1>1. Spec => []LedgerInv
  BY InitLedgerInv, NextLedgerInv, PTL DEF Spec
<1>2. LedgerInv => LedgerExactUnlessRaced
  BY DEF LedgerInv, LedgerExactUnlessRaced, Exact
<1> QED
  BY <1>1, <1>2, PTL

-----------------------------------------------------------------------------
(***************************************************************************)
(* The promise to the drivers.  A stay is decided on where the account of  *)
(* the lot is exact and every hour of the stay has shown a place, so it is *)
(* one of the places the lot has.                                          *)
(***************************************************************************)

LimitInv == LedgerInv /\ BookedWithinPlacesUnlessRaced

\* What is still unspoiled after a step was unspoiled before it, and has no more
\* than one handler at work on it after the step.
LEMMA UnspoiledBefore ==
  ASSUME LedgerInv, NEW w \in Workers, Run(w),
         NEW n \in Lots, n \notin forgot', n \notin raced'
  PROVE  /\ n \notin forgot /\ n \notin raced
         /\ n \in Touched(thread[w]) \cup Touched(thread'[w]) => Account(thread[w], n)
<1>1. n \notin forgot /\ n \notin raced
  BY DEF Run, NoteRaces, HourTaken, HourFree, ReserveTestFree, ReserveTestTaken,
         ReserveLoad, ReserveStore, UpdateReadCap, UpdateWriteCap, UpdateReadSlot,
         UpdateWriteSlot, UpdateSave, history
<1>2. \A v \in Workers : v # w => thread'[v] = thread[v]
  BY OnlyOneMoves, RunKeepsTypes DEF LedgerInv
<1>3. ASSUME n \in Touched(thread[w]) \cup Touched(thread'[w]) PROVE Account(thread[w], n)
  <2>1. \A v \in Workers : v # w => n \notin Touched(thread'[v])
    BY <1>1, <1>2, <1>3, RunKeepsLedgerInv DEF RacesNoted, LedgerInv
  <2> QED
    BY <1>1, <1>2, <1>3, <2>1 DEF LedgerInv, Account
<1> QED
  BY <1>1, <1>3

LEMMA RunKeepsLimit ==
  ASSUME LimitInv, NEW w \in Workers, Run(w)
  PROVE  BookedWithinPlacesUnlessRaced'
<1> DEFINE t == thread[w]
           u == thread'[w]
<1>1. TypeInv /\ LedgerInv
  BY DEF LimitInv, LedgerInv
<1> SUFFICES ASSUME NEW n \in Lots, n \notin forgot', n \notin raced', NEW h \in Hours
             PROVE  granted'[n][h] <= capacity'[n]
  BY DEF BookedWithinPlacesUnlessRaced
<1>2. /\ n \notin forgot /\ n \notin raced
      /\ n \in Touched(t) \cup Touched(u) => Account(t, n)
  BY <1>1, UnspoiledBefore
<1>3. granted[n][h] <= capacity[n]
  BY <1>2 DEF LimitInv, BookedWithinPlacesUnlessRaced
<1>4. /\ Free(slots, n, h) \in Int
      /\ granted[n][h] \in Nat
      /\ capacity[n] \in Nat
  BY <1>1, FreeIsInt
\* The candidate has shown a place at every hour of the stay.
<1>5. CASE HourFree(w) /\ LastHour(t)
  <2>1. t.pc = "check" /\ Free(slots, Candidate(t), t.h) > 0 /\ capacity' = capacity
    BY <1>5 DEF HourFree, shared
  <2>2. /\ t \in RouteThreads
        /\ t.h \in Int /\ t.startH \in Int /\ t.endH \in Int /\ h \in Int
        /\ t.startH <= t.h
    <3>1. t \in RouteThreads /\ t.h \in t.startH .. (t.endH - 1)
      BY <1>1, <2>1, HandlerKinds
    <3> QED
      BY <3>1, HoursAssumption DEF RouteThreads, Hours
  <2>3. granted'[n][h] = IF n = Candidate(t) /\ h \in Stay(t.startH, t.endH)
                         THEN granted[n][h] + 1 ELSE granted[n][h]
    BY <1>1, <1>5, TableChanges
  <2>4. ASSUME n = Candidate(t), h \in Stay(t.startH, t.endH)
        PROVE  granted[n][h] < capacity[n]
    <3>1. n \in Touched(u)
      <4>1. SameStay(t, u) /\ u.pc = "test"
        BY <1>1, <1>5, RouteMoves
      <4> QED
        BY <2>4, <4>1 DEF Touched, SameStay
    <3>2. Account(t, n)
      BY <1>2, <3>1
    <3>3. Exact(n)
      BY <2>1, <3>2 DEF Account, During
    <3>4. Free(slots, n, h) > 0
      <4>1. CASE h = t.h
        BY <2>1, <2>4, <4>1
      <4>2. CASE h # t.h
        <5>1. h \in t.startH .. (t.h - 1) /\ t.h > t.startH
          BY <1>5, <2>2, <2>4, <4>2 DEF Stay, LastHour
        <5>2. n \in Touched(t)
          BY <2>1, <2>4, <5>1 DEF Touched
        <5> QED
          BY <2>1, <3>2, <5>1, <5>2 DEF Account, During
      <4> QED
        BY <4>1, <4>2
    <3>5. Free(slots, n, h) + granted[n][h] = capacity[n]
      BY <3>3 DEF Exact
    <3> QED
      BY <1>4, <3>4, <3>5
  <2> QED
    BY <1>3, <1>4, <2>1, <2>3, <2>4
\* A cut below what is reserved puts the lot into forgot.
<1>6. CASE UpdateWriteCap(w)
  <2>1. /\ t.pc = "writeCap" /\ granted' = granted
        /\ forgot' = forgot \cup {m \in {t.id} : \E i \in Hours :
                                    t.oldCap - Free(slots, m, i) > t.newCap}
    BY <1>6 DEF UpdateWriteCap
  <2>2. capacity'[n] = IF n = t.id THEN t.newCap ELSE capacity[n]
    BY <1>1, <1>6, TableChanges
  <2>3. CASE n = t.id
    <3>1. n \in Touched(t)
      BY <2>1, <2>3 DEF Touched
    <3>2. Exact(n) /\ t.oldCap = capacity[n]
      BY <1>2, <2>1, <3>1 DEF Account, During
    <3>3. Free(slots, n, h) + granted[n][h] = capacity[n]
      BY <3>2 DEF Exact
    <3>4. ~ (t.oldCap - Free(slots, n, h) > t.newCap)
      BY <2>1, <2>3
    <3>5. t.newCap \in Nat
      <4>1. t \in UpdateThreads
        BY <1>1, <2>1, HandlerKinds
      <4> QED
        BY <4>1 DEF UpdateThreads
    <3> QED
      BY <1>4, <2>1, <2>2, <2>3, <3>2, <3>3, <3>4, <3>5
  <2>4. CASE n # t.id
    BY <1>3, <2>1, <2>2, <2>4
  <2> QED
    BY <2>3, <2>4
<1>7. CASE ~ (HourFree(w) /\ LastHour(t)) /\ ~ UpdateWriteCap(w)
  <2>1. capacity' = capacity /\ granted' = granted
    BY <1>7 DEF Run, HourTaken, HourFree, ReserveTestFree, ReserveTestTaken,
       ReserveLoad, ReserveStore, UpdateReadCap, UpdateReadSlot, UpdateWriteSlot,
       UpdateSave, shared, history
  <2> QED
    BY <1>3, <2>1
<1> QED
  BY <1>5, <1>6, <1>7

LEMMA InitLimitInv == Init => LimitInv
<1> SUFFICES ASSUME Init PROVE BookedWithinPlacesUnlessRaced
  BY InitLedgerInv DEF LimitInv
<1>1. \A n \in Lots : capacity[n] = InitialCapacity[n] /\ InitialCapacity[n] \in Nat
  BY CapacityAssumption, LotsAreNodes DEF Init
<1>2. \A n \in Lots, h \in Hours : granted[n][h] = 0
  BY DEF Init
<1> QED
  BY <1>1, <1>2 DEF BookedWithinPlacesUnlessRaced

LEMMA NextLimitInv == LimitInv /\ [Next]_vars => LimitInv'
<1> SUFFICES ASSUME LimitInv, [Next]_vars PROVE LimitInv'
  OBVIOUS
<1>1. LedgerInv'
  BY NextLedgerInv DEF LimitInv
<1>2. ASSUME NEW w \in Workers, Arrival(w) PROVE BookedWithinPlacesUnlessRaced'
  <2>1. UNCHANGED <<slots, capacity, granted, forgot, raced>>
    BY <1>2, ArrivalTouchesNothing DEF LimitInv, LedgerInv
  <2> QED
    BY <2>1 DEF LimitInv, BookedWithinPlacesUnlessRaced
<1>3. ASSUME UNCHANGED vars PROVE BookedWithinPlacesUnlessRaced'
  BY <1>3 DEF LimitInv, BookedWithinPlacesUnlessRaced, vars, shared, history
<1>4. BookedWithinPlacesUnlessRaced'
  BY <1>2, <1>3, RunKeepsLimit DEF Next
<1> QED
  BY <1>1, <1>4 DEF LimitInv

\* However many workers run, a lot is booked beyond its places only if two handlers
\* were at work on it at once or an /update cut it below what was reserved.
THEOREM BookingsStayWithinPlaces == Spec => []BookedWithinPlacesUnlessRaced
<1>1. Spec => []LimitInv
  BY InitLimitInv, NextLimitInv, PTL DEF Spec
<1> QED
  BY <1>1, PTL DEF LimitInv

-----------------------------------------------------------------------------
(***************************************************************************)
(* Racing reserveSlot calls, while no capacity is changed.  A handler that *)
(* has chosen a lot owes it one place at each hour it has still to take.   *)
(* The places that are not free and the places owed are together no more   *)
(* than the stays decided on; a stale number that is about to be stored    *)
(* is no exception, since whoever took a place after it was loaded was     *)
(* counted before and is no longer owed.                                   *)
(***************************************************************************)

\* The handlers that have still to take a place at lot n at hour h.
Pending(n, h) ==
  {w \in Workers : /\ thread[w].pc \in {"test", "load", "store"}
                   /\ Candidate(thread[w]) = n
                   /\ h \in ToTake(thread[w])}

Owed(n, h) == Cardinality(Pending(n, h))

BookedInv ==
  /\ TypeInv
  /\ \A w \in Workers : thread[w] = Idle \/ thread[w] \in RouteThreads
  /\ \A n \in Lots, h \in Hours :
       capacity[n] - Free(slots, n, h) + Owed(n, h) <= granted[n][h]
  /\ \A w \in Workers, n \in Lots, h \in Hours :
       thread[w].pc = "store" /\ n = Candidate(thread[w]) /\ h = thread[w].h =>
         capacity[n] - thread[w].value + Owed(n, h) <= granted[n][h]

LEMMA OwedIsNat ==
  ASSUME NEW n, NEW h
  PROVE  IsFiniteSet(Pending(n, h)) /\ Owed(n, h) \in Nat
<1>1. Pending(n, h) \subseteq Workers
  BY DEF Pending
<1>2. IsFiniteSet(Pending(n, h))
  BY <1>1, WorkersAssumption, FS_Subset
<1> QED
  BY <1>2, FS_CardinalityType DEF Owed

\* What the step of one worker does to the number of places owed.
LEMMA OwedChanges ==
  ASSUME TypeInv, NEW w \in Workers, Arrival(w) \/ Run(w), NEW n, NEW h
  PROVE  /\ Owed(n, h)' \in Nat
         /\ w \in Pending(n, h)' /\ w \notin Pending(n, h) => Owed(n, h)' = Owed(n, h) + 1
         /\ w \notin Pending(n, h)' /\ w \in Pending(n, h) => Owed(n, h)' = Owed(n, h) - 1
         /\ (w \in Pending(n, h)' <=> w \in Pending(n, h)) => Owed(n, h)' = Owed(n, h)
<1> DEFINE P == Pending(n, h)
           Q == Pending(n, h)'
<1>1. IsFiniteSet(P) /\ Cardinality(P) \in Nat
  BY OwedIsNat DEF Owed
<1>2. Q \ {w} = P \ {w} /\ P \subseteq Workers /\ Q \subseteq Workers
  BY OnlyOneMoves DEF Pending
<1>3. Owed(n, h)' = Cardinality(Q) /\ Owed(n, h) = Cardinality(P)
  BY DEF Owed
<1> HIDE DEF P, Q
<1>4. CASE w \in Q /\ w \notin P
  <2>1. Q = P \cup {w}
    BY <1>2, <1>4
  <2>2. Cardinality(Q) = Cardinality(P) + 1
    BY <1>1, <1>4, <2>1, FS_AddElement
  <2> QED
    BY <1>1, <1>3, <1>4, <2>2 DEF P, Q
<1>5. CASE w \notin Q /\ w \in P
  <2>1. Q = P \ {w}
    BY <1>2, <1>5
  <2>2. Cardinality(Q) = Cardinality(P) - 1 /\ Cardinality(Q) \in Nat
    BY <1>1, <1>5, <2>1, FS_RemoveElement, FS_CardinalityType
  <2> QED
    BY <1>1, <1>3, <1>5, <2>2 DEF P, Q
<1>6. CASE w \in Q <=> w \in P
  <2>1. Q = P
    BY <1>2, <1>6
  <2> QED
    BY <1>1, <1>3, <1>6, <2>1 DEF P, Q
<1> QED
  BY <1>4, <1>5, <1>6

\* Only the handler that moves has to be looked at, and only at what it owes.
LEMMA BookedSteps ==
  ASSUME BookedInv, NEW w \in Workers, Arrival(w) \/ Run(w),
         capacity' = capacity,
         thread'[w] = Idle \/ thread'[w] \in RouteThreads,
         \A n \in Lots, h \in Hours :
           /\ granted'[n][h] >= granted[n][h]
           /\ capacity[n] - Free(slots', n, h) + Owed(n, h)' <= granted'[n][h]
           /\ granted'[n][h] - Owed(n, h)' >= granted[n][h] - Owed(n, h),
         \A n \in Lots, h \in Hours :
           thread'[w].pc = "store" /\ n = Candidate(thread'[w]) /\ h = thread'[w].h =>
             capacity[n] - thread'[w].value + Owed(n, h)' <= granted'[n][h]
  PROVE  BookedInv'
<1>1. TypeInv /\ TypeInv'
  BY ArrivalKeepsTypes, RunKeepsTypes DEF BookedInv
<1>2. \A v \in Workers : v # w => thread'[v] = thread[v]
  BY <1>1, OnlyOneMoves
<1>3. \A v \in Workers : thread'[v] = Idle \/ thread'[v] \in RouteThreads
  BY <1>2 DEF BookedInv
<1>4. ASSUME NEW v \in Workers, NEW n \in Lots, NEW h \in Hours,
             thread'[v].pc = "store", n = Candidate(thread'[v]), h = thread'[v].h
      PROVE  capacity[n] - thread'[v].value + Owed(n, h)' <= granted'[n][h]
  <2>1. CASE v = w
    BY <1>4, <2>1
  <2>2. CASE v # w
    <3>1. thread'[v] = thread[v] /\ thread[v].value \in Int
      BY <1>1, <1>2, <1>4, <2>2, HandlerKinds
    <3>2. capacity[n] - thread[v].value + Owed(n, h) <= granted[n][h]
      BY <1>4, <3>1 DEF BookedInv
    <3>3. capacity[n] \in Nat /\ granted[n][h] \in Nat /\ granted'[n][h] \in Nat
      BY <1>1, LotsAreNodes DEF TypeInv, TypeOK
    <3>4. Owed(n, h) \in Nat /\ Owed(n, h)' \in Nat
      BY <1>1, OwedIsNat, OwedChanges
    <3>5. granted'[n][h] - Owed(n, h)' >= granted[n][h] - Owed(n, h)
      BY <1>4
    <3> QED
      BY <3>1, <3>2, <3>3, <3>4, <3>5
  <2> QED
    BY <2>1, <2>2
<1> QED
  BY <1>1, <1>3, <1>4 DEF BookedInv
LEMMA NoUpdateArrives ==
  ASSUME CapInputs \cap Nat = {}, TypeInv, NEW w \in Workers, Arrival(w)
  PROVE  thread'[w].pc \in {"idle", "check"}
<1>1. \A u : thread' = [thread EXCEPT ![w] = u] => thread'[w] = u
  BY DEF TypeInv, TypeOK
<1>2. ASSUME NEW src, NEW dest, NEW startH, NEW endH,
             RouteArrives(w, src, dest, startH, endH)
      PROVE  thread'[w].pc = "check"
  BY <1>1, <1>2 DEF RouteArrives, Goto, RouteThread
<1>3. ASSUME NEW src, NEW dest, NEW startH, NEW endH,
             RouteRefused(w, src, dest, startH, endH)
      PROVE  thread'[w].pc = "idle"
  <2>1. Answer(w, Refused)
    BY <1>3 DEF RouteRefused
  <2> QED
    BY <1>1, <2>1 DEF Goto, Answer, Idle
<1>4. ASSUME NEW id, NEW newCap \in CapInputs
      PROVE  ~ UpdateArrives(w, id, newCap)
  <2>1. newCap \in Int /\ newCap \notin Nat
    BY InputAssumption
  <2> QED
    BY <2>1 DEF UpdateArrives, UpdateAccepted
<1>5. ASSUME NEW id, NEW newCap, UpdateRefused(w, id, newCap)
      PROVE  thread'[w].pc = "idle"
  BY <1>1, <1>5 DEF UpdateRefused, Goto, Answer, Idle
<1> QED
  BY <1>2, <1>3, <1>4, <1>5 DEF Arrival

LEMMA StepKeepsBookedInv ==
  ASSUME CapInputs \cap Nat = {}, BookedInv, NEW w \in Workers, Arrival(w) \/ Run(w)
  PROVE  BookedInv'
<1> DEFINE t == thread[w]
           u == thread'[w]
<1>1. TypeInv /\ TypeInv'
  BY ArrivalKeepsTypes, RunKeepsTypes DEF BookedInv
<1>2. /\ u \in {Idle} \cup RouteThreads \cup UpdateThreads
      /\ t = Idle \/ t \in RouteThreads
  BY <1>1 DEF TypeInv, TypeOK, BookedInv
<1>3. ASSUME NEW n \in Lots, NEW h \in Hours
      PROVE  /\ capacity[n] \in Nat /\ granted[n][h] \in Nat
             /\ Free(slots, n, h) \in Int /\ Owed(n, h) \in Nat
             /\ Owed(n, h)' \in Nat
             /\ capacity[n] - Free(slots, n, h) + Owed(n, h) <= granted[n][h]
  BY <1>1, FreeIsInt, OwedIsNat, OwedChanges DEF BookedInv
<1>4. \A n, h : /\ w \in Pending(n, h) <=> /\ t.pc \in {"test", "load", "store"}
                                           /\ Candidate(t) = n /\ h \in ToTake(t)
                /\ w \in Pending(n, h)' <=> /\ u.pc \in {"test", "load", "store"}
                                            /\ Candidate(u) = n /\ h \in ToTake(u)
  BY DEF Pending
<1>5. t.pc \in {"check", "test", "load", "store"} =>
        /\ t \in RouteThreads /\ t.h \in ToTake(t) /\ t.h \in Hours
        /\ Candidate(t) \in Lots
        /\ \A h : h \in (t.h + 1) .. (t.endH - 1) <=> h \in ToTake(t) /\ h # t.h
  <2> SUFFICES ASSUME t.pc \in {"check", "test", "load", "store"}
               PROVE  /\ t \in RouteThreads /\ t.h \in ToTake(t) /\ t.h \in Hours
                      /\ Candidate(t) \in Lots
                      /\ \A h : h \in (t.h + 1) .. (t.endH - 1) <=> h \in ToTake(t) /\ h # t.h
    OBVIOUS
  <2>1. /\ t \in RouteThreads /\ t.h \in t.startH .. (t.endH - 1) /\ t.h \in Hours
        /\ WellFormed(t, slots)
    BY <1>1, HandlerKinds
  <2>2. t.h \in Int /\ t.endH \in Int /\ t.startH \in Int
    BY <2>1, HoursAssumption DEF Hours, RouteThreads
  <2>3. Candidate(t) \in Lots
    BY <2>1, CandidateIsLot
  <2> HIDE DEF t
  <2> QED
    BY <2>1, <2>2, <2>3 DEF ToTake
\* Steps that change no table and after which the handler owes no more.
<1>6. ASSUME capacity' = capacity, slots' = slots, granted' = granted,
             u \in {Idle} \cup RouteThreads,
             \A n, h : w \in Pending(n, h)' => w \in Pending(n, h),
             \A n \in Lots, h \in Hours :
               u.pc = "store" /\ n = Candidate(u) /\ h = u.h => u.value = Free(slots, n, h)
      PROVE  BookedInv'
  <2>1. ASSUME NEW n \in Lots, NEW h \in Hours
        PROVE  /\ Owed(n, h)' <= Owed(n, h)
               /\ granted'[n][h] >= granted[n][h]
               /\ capacity[n] - Free(slots', n, h) + Owed(n, h)' <= granted'[n][h]
               /\ granted'[n][h] - Owed(n, h)' >= granted[n][h] - Owed(n, h)
    <3>1. Owed(n, h)' <= Owed(n, h)
      BY <1>1, <1>3, <1>6, OwedChanges
    <3> QED
      BY <1>3, <1>6, <3>1
  <2>2. ASSUME NEW n \in Lots, NEW h \in Hours,
               u.pc = "store", n = Candidate(u), h = u.h
        PROVE  capacity[n] - u.value + Owed(n, h)' <= granted'[n][h]
    BY <1>6, <2>1, <2>2
  <2> QED
    BY <1>6, <2>1, <2>2, BookedSteps
<1>7. CASE Arrival(w)
  <2>1. /\ UNCHANGED <<slots, capacity, granted>>
        /\ u.pc \in {"idle", "check"}
    BY <1>1, <1>7, ArrivalTouchesNothing, NoUpdateArrives
  <2>2. u \in {Idle} \cup RouteThreads
    BY <1>2, <2>1 DEF UpdateThreads
  <2> QED
    BY <1>4, <1>6, <2>1, <2>2
<1>8. CASE HourTaken(w)
  <2>1. u.pc \in {"idle", "check"}
    BY <1>1, <1>8, RouteMoves DEF Idle
  <2>2. u \in {Idle} \cup RouteThreads
    BY <1>2, <2>1 DEF UpdateThreads
  <2> QED
    BY <1>4, <1>6, <1>8, <2>1, <2>2 DEF HourTaken, shared, history
<1>9. CASE HourFree(w) /\ ~ LastHour(t)
  <2>1. u.pc = "check"
    BY <1>1, <1>9, RouteMoves
  <2>2. u \in {Idle} \cup RouteThreads
    BY <1>2, <2>1 DEF UpdateThreads
  <2> QED
    BY <1>4, <1>6, <1>9, <2>1, <2>2 DEF HourFree, shared
<1>10. CASE HourFree(w) /\ LastHour(t)
  <2>1. t.pc = "check" /\ slots' = slots /\ capacity' = capacity
    BY <1>10 DEF HourFree, shared
  <2>2. u.pc = "test" /\ SameStay(t, u) /\ u.h = t.startH
    BY <1>1, <1>10, RouteMoves
  <2>3. u \in {Idle} \cup RouteThreads
    BY <1>2, <2>2 DEF UpdateThreads
  <2>4. ASSUME NEW n \in Lots, NEW h \in Hours
        PROVE  granted'[n][h] - Owed(n, h)' = granted[n][h] - Owed(n, h)
               /\ granted'[n][h] >= granted[n][h]
    <3>1. w \in Pending(n, h)' <=> n = Candidate(t) /\ h \in Stay(t.startH, t.endH)
      BY <1>4, <2>2 DEF SameStay, ToTake, Stay
    <3>2. w \notin Pending(n, h)
      BY <1>4, <2>1
    <3>3. granted'[n][h] = IF w \in Pending(n, h)' THEN granted[n][h] + 1 ELSE granted[n][h]
      BY <1>1, <1>10, <3>1, TableChanges
    <3> QED
      BY <1>1, <1>3, <3>2, <3>3, OwedChanges
  <2>5. ASSUME NEW n \in Lots, NEW h \in Hours
        PROVE  /\ capacity[n] - Free(slots', n, h) + Owed(n, h)' <= granted'[n][h]
               /\ granted'[n][h] - Owed(n, h)' >= granted[n][h] - Owed(n, h)
    <3>1. granted'[n][h] \in Nat
      BY <1>1 DEF TypeInv, TypeOK
    <3> QED
      BY <1>3, <2>1, <2>4, <3>1
  <2> QED
    BY <2>1, <2>2, <2>3, <2>4, <2>5, BookedSteps
<1>11. CASE ReserveTestFree(w)
  <2>1. t.pc = "test" /\ SameStay(t, u) /\ u.pc = "load" /\ u.h = t.h
    BY <1>1, <1>11, RouteMoves DEF ReserveTestFree
  <2>2. u \in {Idle} \cup RouteThreads
    BY <1>2, <2>1 DEF UpdateThreads
  <2>3. \A n, h : w \in Pending(n, h)' => w \in Pending(n, h)
    BY <1>4, <2>1 DEF SameStay, ToTake
  <2> QED
    BY <1>6, <1>11, <2>1, <2>2, <2>3 DEF ReserveTestFree, shared, history
<1>12. CASE ReserveTestTaken(w)
  <2>1. t.pc = "test" /\ (u = Idle \/ (SameStay(t, u) /\ u.pc = "test" /\ u.h = t.h + 1))
    BY <1>1, <1>12, RouteMoves DEF ReserveTestTaken
  <2>2. u.pc \in {"idle", "test"} /\ u \in {Idle} \cup RouteThreads
    BY <1>2, <2>1 DEF UpdateThreads, Idle
  <2>3. \A n, h : w \in Pending(n, h)' => w \in Pending(n, h)
    BY <1>4, <1>5, <2>1 DEF SameStay, ToTake, Idle
  <2> QED
    BY <1>6, <1>12, <2>2, <2>3 DEF ReserveTestTaken, shared, history
<1>13. CASE ReserveLoad(w)
  <2>1. /\ t.pc = "load" /\ SameStay(t, u) /\ u.pc = "store" /\ u.h = t.h
        /\ u.value = slots[Candidate(t)][t.h]
    BY <1>1, <1>13, RouteMoves DEF ReserveLoad
  <2>2. u \in {Idle} \cup RouteThreads
    BY <1>2, <2>1 DEF UpdateThreads
  <2>3. \A n, h : w \in Pending(n, h)' => w \in Pending(n, h)
    BY <1>4, <2>1 DEF SameStay, ToTake
  <2>4. Candidate(t) \in DOMAIN slots
    BY <1>1, <1>5, <2>1, HandlerKinds DEF WellFormed, UpdateThreads, Idle
  <2>5. \A n \in Lots, h \in Hours :
          n = Candidate(u) /\ h = u.h => u.value = Free(slots, n, h)
    BY <2>1, <2>4 DEF SameStay, Free
  <2> QED
    BY <1>6, <1>13, <2>2, <2>3, <2>5 DEF ReserveLoad, shared, history
<1>14. CASE ReserveStore(w)
  <2>1. /\ t.pc = "store" /\ capacity' = capacity /\ granted' = granted
        /\ u = Idle \/ (SameStay(t, u) /\ u.pc = "test" /\ u.h = t.h + 1)
        /\ LastHour(t) => u = Idle
    BY <1>1, <1>14, RouteMoves DEF ReserveStore, history
  <2>2. u.pc \in {"idle", "test"} /\ u \in {Idle} \cup RouteThreads
    BY <1>2, <2>1 DEF UpdateThreads, Idle
  <2>3. \A n, h : w \in Pending(n, h)' => w \in Pending(n, h) /\ ~ (n = Candidate(t) /\ h = t.h)
    BY <1>4, <1>5, <2>1 DEF SameStay, ToTake, Idle
  <2>4. ASSUME NEW n \in Lots, NEW h \in Hours
        PROVE  /\ Owed(n, h)' <= Owed(n, h)
               /\ capacity[n] - Free(slots', n, h) + Owed(n, h)' <= granted[n][h]
    <3>1. CASE n = Candidate(t) /\ h = t.h
      <4>1. Owed(n, h)' = Owed(n, h) - 1
        BY <1>1, <1>4, <1>5, <2>1, <2>3, <3>1, OwedChanges
      <4>2. Free(slots', n, h) = t.value - 1 /\ t.value \in Int
        BY <1>1, <1>14, <2>1, <3>1, TableChanges, HandlerKinds
      <4>3. capacity[n] - t.value + Owed(n, h) <= granted[n][h]
        BY <2>1, <3>1 DEF BookedInv
      <4> QED
        BY <1>3, <4>1, <4>2, <4>3
    <3>2. CASE ~ (n = Candidate(t) /\ h = t.h)
      <4>1. Owed(n, h)' <= Owed(n, h)
        BY <1>1, <1>3, <2>3, OwedChanges
      <4>2. Free(slots', n, h) = Free(slots, n, h)
        BY <1>1, <1>14, <3>2, TableChanges
      <4> QED
        BY <1>3, <4>1, <4>2
    <3> QED
      BY <3>1, <3>2
  <2>5. ASSUME NEW n \in Lots, NEW h \in Hours
        PROVE  /\ granted'[n][h] >= granted[n][h]
               /\ capacity[n] - Free(slots', n, h) + Owed(n, h)' <= granted'[n][h]
               /\ granted'[n][h] - Owed(n, h)' >= granted[n][h] - Owed(n, h)
    BY <1>3, <2>1, <2>4
  <2> QED
    BY <2>1, <2>2, <2>5, BookedSteps
<1>15. ~ (\/ UpdateReadCap(w)  \/ UpdateWriteCap(w) \/ UpdateReadSlot(w)
          \/ UpdateWriteSlot(w) \/ UpdateSave(w))
  <2>1. t.pc \in {"idle", "check", "test", "load", "store"}
    BY <1>2 DEF Idle, RouteThreads
  <2> QED
    BY <2>1 DEF UpdateReadCap, UpdateWriteCap, UpdateReadSlot, UpdateWriteSlot, UpdateSave
<1> QED
  BY <1>7, <1>8, <1>9, <1>10, <1>11, <1>12, <1>13, <1>14, <1>15 DEF Run

LEMMA InitBookedInv == Init => BookedInv
<1> SUFFICES ASSUME Init PROVE BookedInv
  OBVIOUS
<1>1. \A w \in Workers : thread[w] = Idle /\ thread[w].pc = "idle"
  BY DEF Init, Idle
<1>2. ASSUME NEW n \in Lots, NEW h \in Hours
      PROVE  capacity[n] - Free(slots, n, h) + Owed(n, h) <= granted[n][h]
  <2>1. Free(slots, n, h) = InitialCapacity[n] /\ granted[n][h] = 0
    BY FreshTable DEF Init
  <2>2. capacity[n] = InitialCapacity[n] /\ InitialCapacity[n] \in Nat
    BY CapacityAssumption, LotsAreNodes DEF Init
  <2>3. Pending(n, h) = {}
    BY <1>1 DEF Pending
  <2>4. Owed(n, h) = 0
    BY <2>3, FS_EmptySet DEF Owed
  <2> QED
    BY <2>1, <2>2, <2>4
<1> QED
  BY <1>1, <1>2, InitTypes DEF BookedInv

LEMMA NextBookedInv ==
  ASSUME CapInputs \cap Nat = {}
  PROVE  BookedInv /\ [Next]_vars => BookedInv'
<1> SUFFICES ASSUME BookedInv, [Next]_vars PROVE BookedInv'
  OBVIOUS
<1>1. CASE Next
  BY <1>1, StepKeepsBookedInv DEF Next
<1>2. CASE UNCHANGED vars
  <2>1. TypeInv'
    BY <1>2, NextTypes DEF BookedInv
  <2>2. \A n, h : Owed(n, h)' = Owed(n, h)
    BY <1>2 DEF Owed, Pending, vars
  <2> QED
    BY <1>2, <2>1, <2>2 DEF BookedInv, vars, shared, history
<1> QED
  BY <1>1, <1>2

\* While the administrator enters no capacity, every place that is not free
\* belongs to a stay some thread decided on, however many workers race on a lot:
\* reserveSlot loses decrements and never makes one too many.
THEOREM TakenPlacesAreBooked ==
  ASSUME CapInputs \cap Nat = {}
  PROVE  Spec => []EveryTakenPlaceIsBooked
<1>1. Spec => []BookedInv
  BY InitBookedInv, NextBookedInv, PTL DEF Spec
<1>2. BookedInv => EveryTakenPlaceIsBooked
  <2> SUFFICES ASSUME BookedInv, NEW n \in Lots, NEW h \in Hours
               PROVE  capacity[n] - Free(slots, n, h) <= granted[n][h]
    BY DEF EveryTakenPlaceIsBooked
  <2>1. capacity[n] - Free(slots, n, h) + Owed(n, h) <= granted[n][h]
    BY DEF BookedInv
  <2>2. /\ capacity[n] \in Nat /\ granted[n][h] \in Nat
        /\ Free(slots, n, h) \in Int /\ Owed(n, h) \in Nat
    BY FreeIsInt, OwedIsNat DEF BookedInv
  <2> QED
    BY <2>1, <2>2
<1> QED
  BY <1>1, <1>2, PTL

-----------------------------------------------------------------------------
(***************************************************************************)
(* Responses about a reserved place.                                       *)
(***************************************************************************)

\* The response a handler would give for the candidate it is at.
LEMMA RouteReplyReaches ==
  ASSUME NEW t \in RouteThreads, NEW sl, WellFormed(t, sl), reply' = RouteReply(t)
  PROVE  DriverReachesPlace'
<1> DEFINE p == Path(t)
<1>1. /\ p \in Seq(Lots) /\ Len(p) \in Nat \ {0}
      /\ \A i \in 1 .. Len(p) : p[i] \in Lots
      /\ p[1] = t.src /\ p[Len(p)] = t.dest
      /\ \A i, j \in 1 .. Len(p) : p[i] = p[j] => i = j
      /\ t.dest \in Lots /\ t.at \in 1 .. (Len(p) + 1)
  <2>1. t.src \in Nodes /\ t.dest \in Nodes /\ t.dest \in Lots
    BY LotsAreNodes DEF RouteThreads
  <2>2. p # << >> /\ t.at \in 1 .. (Len(p) + 1)
    BY DEF WellFormed, RouteThreads, UpdateThreads, Idle
  <2> QED
    BY <2>1, <2>2, RouteFacts DEF Path
<1>2. CASE ~ IsFallback(t)
  <2>1. IsFallback(t) = FALSE
    BY <1>2 DEF IsFallback
  <2>2. reply' = Reserved(t.src, t.dest, t.dest, FALSE, p)
    BY <2>1 DEF RouteReply, Candidate
  <2> HIDE DEF p
  <2> QED
    BY <1>1, <2>2 DEF DriverReachesPlace, Reserved
<1>3. CASE IsFallback(t)
  <2>1. t.at \in 1 .. Len(p) /\ Candidate(t) = p[t.at]
    BY <1>1, <1>3 DEF IsFallback, Candidate
  <2> DEFINE q == IF p[t.at] # t.dest THEN TrimPath(p, p[t.at]) ELSE p
  <2>2. reply' = Reserved(t.src, t.dest, p[t.at], TRUE, q)
    BY <1>3, <2>1 DEF RouteReply
  <2>3. q[1] = t.src /\ q[Len(q)] = p[t.at]
    <3> HIDE DEF p
    <3>1. CASE p[t.at] # t.dest
      BY <1>1, <2>1, <3>1, TrimPathEnds
    <3>2. CASE p[t.at] = t.dest
      BY <1>1, <3>2
    <3> QED
      BY <3>1, <3>2
  <2> HIDE DEF p, q
  <2> QED
    BY <1>1, <2>1, <2>2, <2>3 DEF DriverReachesPlace, Reserved
<1> QED
  BY <1>2, <1>3

\* The place a response is about is a lot on the driver's path, and the path shown
\* goes up to it, whatever other threads did to the table meanwhile.
THEOREM DriversReachTheirPlaces == Spec => []DriverReachesPlace
<1> DEFINE Reaches == TypeInv /\ DriverReachesPlace
<1>1. Init => Reaches
  BY InitTypes DEF Init, DriverReachesPlace, NoReply
<1>2. Reaches /\ [Next]_vars => Reaches'
  <2> SUFFICES ASSUME Reaches, [Next]_vars PROVE DriverReachesPlace'
    BY NextTypes
  <2>1. ASSUME reply' \in {Refused, Updated, reply} PROVE DriverReachesPlace'
    BY <2>1 DEF DriverReachesPlace, Refused, Updated
  <2>2. ASSUME NEW w \in Workers, ReserveTestTaken(w) \/ ReserveStore(w)
        PROVE  DriverReachesPlace'
    <3>1. thread[w] \in RouteThreads /\ WellFormed(thread[w], slots)
      BY <2>2, HandlerKinds DEF ReserveTestTaken, ReserveStore
    <3>2. reply' \in {reply, RouteReply(thread[w])}
      BY <2>2 DEF ReserveTestTaken, ReserveStore, NextHourOrAnswer, Answer
    <3> QED
      BY <2>1, <3>1, <3>2, RouteReplyReaches
  <2>3. ASSUME NEW w \in Workers, Arrival(w) PROVE reply' \in {Refused, reply}
    BY <2>3 DEF Arrival, RouteArrives, RouteRefused, UpdateArrives, UpdateRefused, Answer
  <2>4. ASSUME NEW w \in Workers, Run(w) PROVE DriverReachesPlace'
    <3>1. CASE \/ HourTaken(w) \/ HourFree(w) \/ ReserveTestFree(w) \/ ReserveLoad(w)
               \/ UpdateReadCap(w) \/ UpdateWriteCap(w) \/ UpdateReadSlot(w)
               \/ UpdateWriteSlot(w) \/ UpdateSave(w)
      <4>1. reply' \in {Refused, Updated, reply}
        BY <3>1 DEF HourTaken, HourFree, ReserveTestFree, ReserveLoad, UpdateReadCap,
             UpdateWriteCap, UpdateReadSlot, UpdateWriteSlot, UpdateSave, Answer
      <4> QED
        BY <2>1, <4>1
    <3> QED
      BY <2>2, <2>4, <3>1 DEF Run
  <2>5. CASE UNCHANGED vars
    BY <2>1, <2>5 DEF vars
  <2> QED
    BY <2>1, <2>3, <2>4, <2>5 DEF Next
<1> QED
  BY <1>1, <1>2, PTL DEF Spec

=============================================================================
