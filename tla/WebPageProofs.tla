---------------------------- MODULE WebPageProofs ----------------------------
(***************************************************************************)
(* Proofs about WebPage: for any map, any searches and changes that are    *)
(* entered, any number of buttons pressed and of messages lost, and        *)
(* requests and responses that overtake each other at will, the invariants *)
(* that MCWebPage checks.                                                  *)
(***************************************************************************)
EXTENDS WebPage, ParkingDataProofs, FiniteSetTheorems, TLAPS

-----------------------------------------------------------------------------
(* The inductive invariants *)

IsCall(c) ==
  \/ c = LoadNodes
  \/ c.kind \in {"login", "register"}
  \/ c.kind = "route" /\ c.search \in Searches
  \/ c.kind = "update" /\ c.change \in Changes

\* The answers that came back, are on their way, or were lost.
Answers == responses \cup told \cup lost

\* A request and its answer are known by their number, and a marker by the one
\* of the answer that put it on the map.
NumbersInv ==
  /\ sent \in Nat
  /\ listing \in 0 .. sent
  /\ \A m \in requests : IsCall(m.call) /\ m.number \in 1 .. sent
  /\ \A r \in Answers : r.number \in 1 .. sent
  /\ \A l \in markers : l.number \in 1 .. sent
  /\ \A m, k \in requests : m.number = k.number => m = k
  /\ \A r, s \in Answers : r.number = s.number => r = s
  /\ \A m \in requests : \A r \in Answers : r.number # m.number
  /\ \A m \in requests : \A l \in markers : l.number # m.number

\* Answers that fit their requests.
AnswersInv ==
  /\ \A r \in Answers : IsCall(r.call) /\ (r.body.status = "reserved" => r.call.kind = "route")
  /\ \A r \in responses :
       r.call.kind = "login" => r.body.outcome \in {"refused", "user", "admin"}

\* What is shown: the layers on the map are those that the script's variables
\* name.
LayersInv ==
  /\ boxes \in {{"login"}, {"main"}, {"main", "admin"}}
  /\ \A l \in onMap : l.kind \in {"marker", "route", "transport"}
  /\ LayersOf("marker") = markers
  /\ LayersOf("route") \subseteq {routeLine}
  /\ LayersOf("transport") \subseteq {transportLine}
  /\ routeLine.kind \in {"none", "route"}
  /\ transportLine.kind \in {"none", "transport"}

CoreInv == NumbersInv /\ AnswersInv /\ LayersInv

\* No marker, or one for each lot.
MarkersInv ==
  markers # {} =>
    \A n \in Lots : \E l \in markers : \A k \in markers : k.node = n <=> k = l

\* The answers of which a line is on the map.
ShownFallbacks ==
  {a \in told : /\ a.body.status = "reserved"
                /\ a.body.fallback
                /\ a.number \in {l.number : l \in LayersOf("route")}}

LinesInv ==
  {l.number : l \in LayersOf("transport")} = {r.number : r \in ShownFallbacks}

\* The places that are not free are those that some answer names.
AnnouncedInv ==
  /\ capacity \in [Nodes -> Nat]
  /\ IsTable(slots)
  /\ IsFiniteSet(Answers)
  /\ \A n \in Lots, h \in Hours :
       /\ 0 <= Free(slots, n, h) /\ Free(slots, n, h) <= capacity[n]
       /\ capacity[n] - Free(slots, n, h) <= Cardinality(Promised(Answers, n, h))

\* The capacities in an answer of /nodes.
Lists(r) == \A n \in Lots : r.body.rows[n].capacity = capacity[n]

\* After an update the markers will be loaded again, or have been.
FreshInv ==
  \/ \E r \in lost : r.call.kind \in {"nodes", "update"}
  \/ \E m \in requests : m.call = LoadNodes
  \/ \E r \in responses : r.call.kind = "update" /\ r.body.status = "updated"
  \/ /\ \A r \in responses : r.call.kind = "nodes" /\ r.number = listing => Lists(r)
     /\ \A l \in markers : l.number = listing => l.capacity = capacity[l.node]
-----------------------------------------------------------------------------
(* The handlers *)

\* The kinds of call are told apart.
LEMMA CallKinds ==
  ASSUME NEW c, IsCall(c)
  PROVE  /\ c.kind \in {"nodes", "login", "register", "route", "update"}
         /\ c.kind = "nodes" <=> c = LoadNodes
         /\ c.kind = "route" => c.search \in Searches
         /\ c.kind = "update" => c.change \in Changes
  BY DEF IsCall, LoadNodes

\* What the buttons send.
LEMMA ButtonsCall ==
  ASSUME NEW box \in {"login", "main", "admin"}, NEW call \in Buttons(box)
  PROVE  IsCall(call)
  BY DEF Buttons, IsCall

\* The service computes with the same data.
LEMMA SameTables ==
  /\ Service!Lots = Lots /\ Service!Hours = Hours
  /\ \A s, e : Service!ValidHours(s, e) <=> ValidHours(s, e)
  /\ \A s, e : Service!Stay(s, e) = Stay(s, e)
  /\ \A sl, n, h : Service!Free(sl, n, h) = Free(sl, n, h)
  /\ \A cap : Service!FreshSlots(cap) = FreshSlots(cap)
  /\ \A a, b : Service!Route(a, b) = Route(a, b)
  BY DEF Service!Lots, Lots, Service!Hours, Hours, Service!ValidHours, ValidHours,
         Service!Stay, Stay, Service!Free, Free, Service!FreshSlots, FreshSlots,
         Service!Route, Route

LEMMA SameComputations ==
  /\ \A sl, n, s, e : Service!AvailableAtTime(sl, n, s, e) <=> AvailableAtTime(sl, n, s, e)
  /\ \A sl, n, s, e : Service!ReserveSlot(sl, n, s, e) = ReserveSlot(sl, n, s, e)
  /\ \A sl, n, x, y : Service!UpdateSlots(sl, n, x, y) = UpdateSlots(sl, n, x, y)
<1>1. \A sl, n, s, e : Service!AvailableAtTime(sl, n, s, e) <=> AvailableAtTime(sl, n, s, e)
  BY SameTables DEF Service!AvailableAtTime, AvailableAtTime
<1>2. \A sl, n, s, e : Service!ReserveSlot(sl, n, s, e) = ReserveSlot(sl, n, s, e)
  <2> SUFFICES ASSUME NEW sl, NEW n, NEW s, NEW e
               PROVE  Service!ReserveSlot(sl, n, s, e) = ReserveSlot(sl, n, s, e)
    OBVIOUS
  <2>1. Service!ValidHours(s, e) <=> ValidHours(s, e)
    BY SameTables
  <2>2. [h \in Service!Hours |-> IF h \in Service!Stay(s, e) /\ sl[n][h] > 0
                                 THEN sl[n][h] - 1 ELSE sl[n][h]]
        = [h \in Hours |-> IF h \in Stay(s, e) /\ sl[n][h] > 0
                           THEN sl[n][h] - 1 ELSE sl[n][h]]
    BY SameTables
  <2> QED
    BY <2>1, <2>2 DEF Service!ReserveSlot, ReserveSlot
<1>3. \A x, y, z : Service!Recount(x, y, z) = Recount(x, y, z)
  BY DEF Service!Recount, Recount, Service!NonNegative, NonNegative
<1>4. \A sl, n, x, y : Service!UpdateSlots(sl, n, x, y) = UpdateSlots(sl, n, x, y)
  BY <1>3, SameTables DEF Service!UpdateSlots, UpdateSlots
<1> QED
  BY <1>1, <1>2, <1>4

\* How an error and an update read.
LEMMA SameReplies == Service!Refused.status = "error" /\ Service!Updated.status = "updated"
  BY DEF Service!Refused, Service!Updated

\* /nodes lists the capacities.
LEMMA HandleNodes ==
  ASSUME Handle(LoadNodes)
  PROVE  /\ reply'.status = "nodes"
         /\ \A n \in Lots : reply'.rows[n].capacity = capacity[n]
         /\ UNCHANGED <<capacity, slots>>
<1>1. Service!ListNodes
  BY DEF Handle, LoadNodes
<1> QED
  BY <1>1, SameTables DEF Service!ListNodes, Service!Listing

LEMMA HandleAccount ==
  ASSUME NEW c, c.kind \in {"login", "register"}, Handle(c)
  PROVE  /\ reply'.status \in {"login", "register"}
         /\ c.kind = "login" => reply'.outcome \in {"refused", "user", "admin"}
         /\ UNCHANGED <<capacity, slots>>
  BY DEF Handle, Account

\* /route takes a place for the stay that was asked for, at the node that it
\* names, or answers with an error and changes nothing.
LEMMA HandleRoute ==
  ASSUME NEW c, c.kind = "route", c.search \in Searches, Handle(c)
  PROVE  LET startH == c.search[3]
             endH == c.search[4]
         IN  /\ UNCHANGED capacity
             /\ startH \in Int /\ endH \in Int
             /\ \/ reply'.status = "error" /\ UNCHANGED slots
                \/ /\ reply'.status = "reserved"
                   /\ AvailableAtTime(slots, reply'.parkingNode, startH, endH)
                   /\ slots' = ReserveSlot(slots, reply'.parkingNode, startH, endH)
<1> DEFINE a == c.search[1]
           b == c.search[2]
           startH == c.search[3]
           endH == c.search[4]
<1>1. startH \in Int /\ endH \in Int
  BY InputAssumption
<1>2. \/ Service!RouteToDestination(a, b, startH, endH)
      \/ Service!RouteToFallback(a, b, startH, endH)
      \/ Service!RouteRefused(a, b, startH, endH)
  BY DEF Handle
<1> HIDE DEF a, b, startH, endH
<1>3. CASE Service!RouteToDestination(a, b, startH, endH)
  <2>1. /\ AvailableAtTime(slots, b, startH, endH)
        /\ slots' = ReserveSlot(slots, b, startH, endH) /\ UNCHANGED capacity
    BY <1>3, SameComputations DEF Service!RouteToDestination
  <2>2. reply'.status = "reserved" /\ reply'.parkingNode = b
    BY <1>3 DEF Service!RouteToDestination, Service!Reserved
  <2> QED
    BY <1>1, <2>1, <2>2 DEF startH, endH
<1>4. CASE Service!RouteToFallback(a, b, startH, endH)
  <2>1. PICK i :
          /\ Service!FallbackIndex(slots, Service!Route(a, b), startH, endH, i)
          /\ slots' = Service!ReserveSlot(slots, Service!Route(a, b)[i], startH, endH)
          /\ reply' = Service!FallbackReply(a, b, Service!Route(a, b)[i])
    BY <1>4 DEF Service!RouteToFallback
  <2> DEFINE n == Route(a, b)[i]
  <2>2. AvailableAtTime(slots, n, startH, endH)
    BY <2>1, SameTables, SameComputations DEF Service!FallbackIndex
  <2>3. /\ reply'.status = "reserved" /\ reply'.parkingNode = n
        /\ slots' = ReserveSlot(slots, n, startH, endH)
    <3>1. Service!Route(a, b)[i] = n
      BY SameTables
    <3> HIDE DEF n
    <3>2. slots' = ReserveSlot(slots, n, startH, endH)
      BY <2>1, <3>1, SameComputations
    <3>3. reply' = Service!FallbackReply(a, b, n)
      BY <2>1, <3>1
    <3> QED
      BY <3>2, <3>3 DEF Service!FallbackReply, Service!Reserved
  <2>4. UNCHANGED capacity
    BY <1>4 DEF Service!RouteToFallback
  <2> QED
    BY <1>1, <2>2, <2>3, <2>4 DEF startH, endH
<1>5. CASE Service!RouteRefused(a, b, startH, endH)
  BY <1>1, <1>5, SameReplies DEF Service!RouteRefused, startH, endH
<1> QED
  BY <1>1, <1>2, <1>3, <1>4, <1>5 DEF startH, endH

\* /update sets a capacity and says so, or changes nothing.
LEMMA HandleUpdate ==
  ASSUME NEW c, c.kind = "update", c.change \in Changes, Handle(c)
  PROVE  LET id == c.change[1]
             cap == c.change[2]
         IN  \/ reply'.status = "error" /\ UNCHANGED <<capacity, slots>>
             \/ /\ reply'.status = "updated"
                /\ id \in Lots /\ cap \in Nat
                /\ capacity' = [capacity EXCEPT ![id] = cap]
                /\ slots' = UpdateSlots(slots, id, capacity[id], cap)
<1> DEFINE id == c.change[1]
           cap == c.change[2]
<1>1. cap \in Int
  BY InputAssumption
<1>2. Service!Update(id, cap) \/ Service!UpdateRefused(id, cap)
  BY DEF Handle
<1>3. CASE Service!Update(id, cap)
  BY <1>1, <1>3, SameTables, SameComputations, SameReplies
     DEF Service!Update, Service!ChangeCapacity, Service!UpdateAccepted
<1>4. CASE Service!UpdateRefused(id, cap)
  BY <1>4, SameReplies DEF Service!UpdateRefused
<1> QED
  BY <1>2, <1>3, <1>4

\* What every handler answers with.
LEMMA HandlerReplies ==
  ASSUME NEW c, IsCall(c), Handle(c)
  PROVE  /\ reply'.status = "reserved" => c.kind = "route"
         /\ c.kind = "login" => reply'.outcome \in {"refused", "user", "admin"}
         /\ \/ UNCHANGED capacity
            \/ c.kind = "update" /\ reply'.status = "updated"
<1>1. c.kind \in {"nodes", "login", "register", "route", "update"}
  BY CallKinds
<1>2. CASE c.kind = "nodes"
  BY <1>2, CallKinds, HandleNodes
<1>3. CASE c.kind \in {"login", "register"}
  BY <1>3, HandleAccount
<1>4. CASE c.kind = "route"
  BY <1>4, CallKinds, HandleRoute
<1>5. CASE c.kind = "update"
  <2>1. c.change \in Changes
    BY <1>5, CallKinds
  <2>2. reply'.status \in {"error", "updated"} /\ (reply'.status = "error" => UNCHANGED capacity)
    BY <1>5, <2>1, HandleUpdate
  <2> QED
    BY <1>5, <2>2
<1> QED
  BY <1>1, <1>2, <1>3, <1>4, <1>5

-----------------------------------------------------------------------------
(* Numbers *)

\* A request that is sent gets a number of its own.
LEMMA NumbersAfterSend ==
  ASSUME NumbersInv, NEW c, IsCall(c), Send(c), responses' \subseteq responses,
         told' \subseteq told \cup responses, lost' = lost, markers' = markers,
         listing' = listing
  PROVE  NumbersInv'
<1> DEFINE m == Request(sent + 1, c)
<1>1. /\ sent' = sent + 1 /\ requests' = requests \cup {m}
      /\ m.number = sent + 1 /\ m.call = c
  BY DEF Send, Request
<1> HIDE DEF m
<1>2. Answers' \subseteq Answers
  BY DEF Answers
<1>3. 1 .. sent \subseteq 1 .. sent' /\ listing' \in 0 .. sent' /\ sent' \in Nat
      /\ sent + 1 \in 1 .. sent' /\ sent + 1 \notin 1 .. sent
  BY <1>1 DEF NumbersInv
<1>4. \A k \in requests' : k \in requests \/ k = m
  BY <1>1
<1>5. /\ \A k \in requests' : IsCall(k.call) /\ k.number \in 1 .. sent'
      /\ \A r \in Answers' : r.number \in 1 .. sent'
      /\ \A l \in markers' : l.number \in 1 .. sent'
  BY <1>1, <1>2, <1>3, <1>4 DEF NumbersInv
<1>6. \A k, j \in requests' : k.number = j.number => k = j
  BY <1>1, <1>3, <1>4 DEF NumbersInv
<1>7. \A k \in requests' : \A r \in Answers' : r.number # k.number
  BY <1>1, <1>2, <1>3, <1>4 DEF NumbersInv
<1>8. \A k \in requests' : \A l \in markers' : l.number # k.number
  BY <1>1, <1>3, <1>4 DEF NumbersInv
<1>9. \A r, s \in Answers' : r.number = s.number => r = s
  BY <1>2 DEF NumbersInv
<1> QED
  BY <1>3, <1>5, <1>6, <1>7, <1>8, <1>9 DEF NumbersInv

\* Nothing is sent, and no request is answered.
LEMMA NumbersAfterLess ==
  ASSUME NumbersInv, sent' = sent, requests' = requests, Answers' \subseteq Answers,
         listing' = listing,
         \A l \in markers' : l \in markers \/ \E r \in Answers : l.number = r.number
  PROVE  NumbersInv'
<1>1. \A l \in markers' : l.number \in 1 .. sent /\ \A m \in requests : l.number # m.number
  BY DEF NumbersInv
<1> QED
  BY <1>1 DEF NumbersInv

\* A request is answered or lost.
LEMMA NumbersAfterAnswer ==
  ASSUME NumbersInv, NEW m \in requests, NEW r, r.number = m.number,
         requests' = requests \ {m}, Answers' = Answers \cup {r},
         sent' = sent, markers' = markers, listing' \in {listing, m.number}
  PROVE  NumbersInv'
<1>1. \A s \in Answers' : s \in Answers \/ s = r
  OBVIOUS
<1>2. \A k \in requests' : k \in requests /\ k # m /\ k.number # m.number
  BY DEF NumbersInv
<1>3. /\ sent' \in Nat /\ listing' \in 0 .. sent'
      /\ \A k \in requests' : IsCall(k.call) /\ k.number \in 1 .. sent'
      /\ \A s \in Answers' : s.number \in 1 .. sent'
      /\ \A l \in markers' : l.number \in 1 .. sent'
      /\ \A j, k \in requests' : j.number = k.number => j = k
      /\ \A k \in requests' : \A l \in markers' : l.number # k.number
  BY <1>1, <1>2 DEF NumbersInv
<1>4. \A s, t \in Answers' : s.number = t.number => s = t
  BY <1>1 DEF NumbersInv
<1>5. \A k \in requests' : \A s \in Answers' : s.number # k.number
  BY <1>1, <1>2 DEF NumbersInv
<1> QED
  BY <1>3, <1>4, <1>5 DEF NumbersInv
-----------------------------------------------------------------------------
(* What a step does *)

\* An answer of the service is as its request, with the body added.
LEMMA ResponseFacts ==
  ASSUME NEW m, NEW body
  PROVE  LET r == Response(m, body)
         IN  r.number = m.number /\ r.call = m.call /\ r.body = body
  BY DEF Response

LEMMA ServeFacts ==
  ASSUME CoreInv, Serve
  PROVE  \E m, r :
           /\ m \in requests
           /\ Handle(m.call) /\ IsCall(m.call)
           /\ r.number = m.number /\ r.call = m.call /\ r.body = reply'
           /\ r \notin Answers
           /\ requests' = requests \ {m}
           /\ responses' = responses \cup {r} /\ Answers' = Answers \cup {r}
           /\ listing' = (IF m.call = LoadNodes THEN m.number ELSE listing)
           /\ UNCHANGED <<sent, clicks, page, told, lost>>
<1>1. PICK m \in requests :
        /\ Handle(m.call)
        /\ requests' = requests \ {m}
        /\ responses' = responses \cup {Response(m, reply')}
        /\ listing' = IF m.call = LoadNodes THEN m.number ELSE listing
        /\ UNCHANGED <<sent, clicks, page, told, lost>>
  BY DEF Serve
<1> DEFINE r == Response(m, reply')
<1>2. r.number = m.number /\ r.call = m.call /\ r.body = reply'
  BY ResponseFacts
<1> HIDE DEF r
<1>3. IsCall(m.call) /\ r \notin Answers
  BY <1>2 DEF CoreInv, NumbersInv
<1>4. Answers' = Answers \cup {r}
  BY <1>1 DEF Answers, r
<1> QED
  BY <1>1, <1>2, <1>3, <1>4 DEF r

LEMMA LoseRequestFacts ==
  ASSUME CoreInv, LoseRequest
  PROVE  \E m, r :
           /\ m \in requests
           /\ IsCall(m.call)
           /\ r.number = m.number /\ r.call = m.call /\ r.body.status = "none"
           /\ r \notin Answers
           /\ requests' = requests \ {m}
           /\ lost' = lost \cup {r} /\ Answers' = Answers \cup {r}
           /\ UNCHANGED <<service, responses, sent, clicks, page, listing, told>>
<1>1. PICK m \in requests :
        /\ requests' = requests \ {m}
        /\ lost' = lost \cup {Response(m, NoReply)}
        /\ UNCHANGED <<service, responses, sent, clicks, page, listing, told>>
  BY DEF LoseRequest
<1> DEFINE r == Response(m, NoReply)
<1>2. r.number = m.number /\ r.call = m.call /\ r.body.status = "none"
  BY ResponseFacts DEF NoReply
<1> HIDE DEF r
<1>3. IsCall(m.call) /\ r \notin Answers
  BY <1>2 DEF CoreInv, NumbersInv
<1>4. Answers' = Answers \cup {r}
  BY <1>1 DEF Answers, r
<1> QED
  BY <1>1, <1>2, <1>3, <1>4 DEF r

LEMMA LoseResponseFacts ==
  ASSUME LoseResponse
  PROVE  \E r \in responses :
           /\ responses' = responses \ {r} /\ lost' = lost \cup {r} /\ Answers' = Answers
           /\ UNCHANGED <<service, requests, sent, clicks, page, listing, told>>
<1>1. PICK r \in responses :
        /\ responses' = responses \ {r} /\ lost' = lost \cup {r}
        /\ UNCHANGED <<service, requests, sent, clicks, page, listing, told>>
  BY DEF LoseResponse
<1>2. Answers' = Answers
  BY <1>1 DEF Answers
<1> QED
  BY <1>1, <1>2

LEMMA ClickFacts ==
  ASSUME CoreInv, Click
  PROVE  \E call : /\ IsCall(call) /\ Send(call) /\ Answers' = Answers
                   /\ UNCHANGED <<service, responses, page, history>>
<1>1. PICK box \in boxes : \E call \in Buttons(box) : Send(call)
  BY DEF Click
<1>2. PICK call \in Buttons(box) : Send(call)
  BY <1>1
<1>3. IsCall(call)
  BY <1>1, ButtonsCall DEF CoreInv, LayersInv
<1>4. Answers' = Answers
  BY DEF Click, Answers, history
<1> QED
  BY <1>2, <1>3, <1>4 DEF Click

\* Only an answer of /route is kept, and by Apply no other answer is touched.
LEMMA ApplyFacts ==
  ASSUME Apply
  PROVE  \E r \in responses :
           /\ \/ ApplyNodes(r)      \/ ApplyLogin(r) \/ ApplyRegister(r)
              \/ ApplyRouteError(r) \/ ApplyRoute(r) \/ ApplyUpdate(r)
           /\ responses' = responses \ {r}
           /\ told' \in {told, told \cup {r}}
           /\ r.call.kind = "route" => told' = told \cup {r}
           /\ lost' = lost /\ Answers' \subseteq Answers
           /\ UNCHANGED <<service, clicks, listing, lost>>
<1>1. PICK r \in responses :
        /\ \/ ApplyNodes(r)      \/ ApplyLogin(r) \/ ApplyRegister(r)
           \/ ApplyRouteError(r) \/ ApplyRoute(r) \/ ApplyUpdate(r)
        /\ UNCHANGED <<service, clicks, listing, lost>>
  BY DEF Apply
<1>2. /\ responses' = responses \ {r}
      /\ told' \in {told, told \cup {r}}
      /\ r.call.kind = "route" => told' = told \cup {r}
  BY <1>1 DEF ApplyNodes, ApplyLogin, ApplyRegister, ApplyRouteError, ApplyRoute, ApplyUpdate,
              Arrives, Tell
<1>3. Answers' \subseteq Answers
  BY <1>1, <1>2 DEF Answers
<1> QED
  BY <1>1, <1>2, <1>3

-----------------------------------------------------------------------------
(* Numbers, answers and layers *)

LEMMA InitCore == Init => CoreInv
<1> SUFFICES ASSUME Init PROVE CoreInv
  OBVIOUS
<1>1. Answers = {} /\ markers = {} /\ onMap = {} /\ sent = 1 /\ listing = 0
  BY DEF Init, Answers
<1>2. requests = {Request(1, LoadNodes)}
  BY DEF Init
<1>3. Request(1, LoadNodes).number = 1 /\ Request(1, LoadNodes).call = LoadNodes
  BY DEF Request
<1>4. NumbersInv
  BY <1>1, <1>2, <1>3 DEF NumbersInv, IsCall
<1>5. AnswersInv
  BY <1>1 DEF AnswersInv, Answers
<1>6. LayersInv
  BY <1>1 DEF Init, LayersInv, LayersOf, NoLine
<1> QED
  BY <1>4, <1>5, <1>6 DEF CoreInv

\* The markers of an answer are known by its number.
LEMMA MarkersOfAnswer ==
  ASSUME NEW r, NEW l \in Markers(r)
  PROVE  l.kind = "marker" /\ l.number = r.number /\ l.node \in Lots
  BY DEF Markers

\* Routes and lines on the map are no markers.
LEMMA LayerKinds ==
  ASSUME LayersInv
  PROVE  /\ markers \subseteq onMap
         /\ \A l \in markers : l.kind = "marker"
         /\ \A l \in onMap \ markers : l = routeLine \/ l = transportLine
         /\ routeLine \notin markers /\ transportLine \notin markers
  BY DEF LayersInv, LayersOf

\* New markers take the place of the old ones, and nothing else.
LEMMA NodesLayers ==
  ASSUME LayersInv, NEW r, ApplyNodes(r)
  PROVE  /\ LayersInv' /\ markers' = Markers(r)
         /\ LayersOf("route")' = LayersOf("route")
         /\ LayersOf("transport")' = LayersOf("transport")
<1>1. /\ markers' = Markers(r) /\ onMap' = (onMap \ markers) \cup Markers(r)
      /\ UNCHANGED <<boxes, routeLine, transportLine>>
  BY DEF ApplyNodes, MarkersCleared
<1>2. \A l \in Markers(r) : l.kind = "marker"
  BY MarkersOfAnswer
<1>3. LayersOf("marker")' = markers'
  BY <1>1, <1>2 DEF LayersInv, LayersOf
<1>4. /\ LayersOf("route")' = LayersOf("route")
      /\ LayersOf("transport")' = LayersOf("transport")
  BY <1>1, <1>2, LayerKinds DEF LayersOf
<1>5. \A l \in onMap' : l.kind \in {"marker", "route", "transport"}
  BY <1>1, <1>2 DEF LayersInv
<1> QED
  BY <1>1, <1>3, <1>4, <1>5 DEF LayersInv

\* The lines of an answer take the place of the lines on the map.
LEMMA RouteLayers ==
  ASSUME LayersInv, NEW r, ApplyRoute(r)
  PROVE  /\ LayersInv' /\ markers' = markers
         /\ LayersOf("route")' = {routeLine'} /\ routeLine'.number = r.number
         /\ r.body.fallback => /\ LayersOf("transport")' = {transportLine'}
                               /\ transportLine'.number = r.number
         /\ ~ r.body.fallback => LayersOf("transport")' = {}
<1>1. /\ routeLine' = Line("route", r) /\ UNCHANGED <<boxes, markers>>
      /\ r.body.fallback =>
           /\ transportLine' = Line("transport", r)
           /\ onMap' = (onMap \ {routeLine, transportLine}) \cup {routeLine', transportLine'}
      /\ ~ r.body.fallback =>
           /\ transportLine' = transportLine
           /\ onMap' = (onMap \ {routeLine, transportLine}) \cup {routeLine'}
  BY DEF ApplyRoute, LinesCleared
<1>2. /\ Line("route", r).kind = "route" /\ Line("route", r).number = r.number
      /\ Line("transport", r).kind = "transport" /\ Line("transport", r).number = r.number
  BY DEF Line
<1>3. \A l \in onMap \ {routeLine, transportLine} : l \in markers /\ l.kind = "marker"
  BY LayerKinds
<1>4. \A l \in markers : l \in onMap \ {routeLine, transportLine}
  BY LayerKinds
<1>5. CASE r.body.fallback
  BY <1>1, <1>2, <1>3, <1>4, <1>5 DEF LayersInv, LayersOf
<1>6. CASE ~ r.body.fallback
  BY <1>1, <1>2, <1>3, <1>4, <1>6 DEF LayersInv, LayersOf
<1> QED
  BY <1>1, <1>2, <1>5, <1>6

LEMMA NextLayers ==
  ASSUME CoreInv, [Next]_vars
  PROVE  LayersInv'
<1>1. ASSUME UNCHANGED page
      PROVE  LayersInv'
  BY <1>1 DEF CoreInv, LayersInv, LayersOf, page
<1>2. ASSUME NEW r \in responses, ApplyLogin(r)
      PROVE  LayersInv'
  <2>1. /\ r.body.outcome \in {"refused", "user", "admin"}
        /\ boxes' = IF r.body.outcome = "refused" THEN boxes
                                                  ELSE BoxesAfterLogin(r.body.outcome)
        /\ UNCHANGED <<onMap, markers, routeLine, transportLine>>
    BY <1>2 DEF ApplyLogin, Arrives, CoreInv, AnswersInv
  <2>2. boxes' \in {{"login"}, {"main"}, {"main", "admin"}}
    BY <2>1 DEF BoxesAfterLogin, CoreInv, LayersInv
  <2> QED
    BY <2>1, <2>2 DEF CoreInv, LayersInv, LayersOf
<1>3. CASE Apply
  <2>1. PICK r \in responses :
          \/ ApplyNodes(r)      \/ ApplyLogin(r) \/ ApplyRegister(r)
          \/ ApplyRouteError(r) \/ ApplyRoute(r) \/ ApplyUpdate(r)
    BY <1>3 DEF Apply
  <2>2. ApplyRegister(r) \/ ApplyRouteError(r) \/ ApplyUpdate(r) => UNCHANGED page
    BY DEF ApplyRegister, ApplyRouteError, ApplyUpdate
  <2> QED
    BY <1>1, <1>2, <2>1, <2>2, NodesLayers, RouteLayers DEF CoreInv
<1>4. ASSUME Click \/ Serve \/ LoseRequest \/ LoseResponse
      PROVE  UNCHANGED page
  BY <1>4 DEF Click, Serve, LoseRequest, LoseResponse
<1> QED
  BY <1>1, <1>3, <1>4 DEF Next, vars

LEMMA NextAnswers ==
  ASSUME CoreInv, [Next]_vars
  PROVE  AnswersInv'
<1>1. ASSUME Answers' \subseteq Answers, responses' \subseteq responses
      PROVE  AnswersInv'
  BY <1>1 DEF CoreInv, AnswersInv
<1>2. CASE Serve
  <2>1. PICK m, r :
          /\ m \in requests
          /\ Handle(m.call) /\ IsCall(m.call)
          /\ r.call = m.call /\ r.body = reply'
          /\ responses' = responses \cup {r} /\ Answers' = Answers \cup {r}
    BY <1>2, ServeFacts
  <2>2. /\ r.body.status = "reserved" => r.call.kind = "route"
        /\ r.call.kind = "login" => r.body.outcome \in {"refused", "user", "admin"}
    BY <2>1, HandlerReplies
  <2>3. /\ \A s \in Answers' : s \in Answers \/ s = r
        /\ \A s \in responses' : s \in responses \/ s = r
    BY <2>1
  <2> QED
    BY <2>1, <2>2, <2>3 DEF CoreInv, AnswersInv
<1>3. CASE LoseRequest
  <2>1. PICK m, r :
          /\ m \in requests
          /\ IsCall(m.call) /\ r.call = m.call /\ r.body.status = "none"
          /\ responses' = responses /\ Answers' = Answers \cup {r}
    BY <1>3, LoseRequestFacts
  <2>2. \A s \in Answers' : s \in Answers \/ s = r
    BY <2>1
  <2> QED
    BY <2>1, <2>2 DEF CoreInv, AnswersInv
<1>4. CASE LoseResponse
  BY <1>1, <1>4, LoseResponseFacts
<1>5. CASE Click
  BY <1>1, <1>5, ClickFacts
<1>6. CASE Apply
  BY <1>1, <1>6, ApplyFacts
<1>7. CASE UNCHANGED vars
  BY <1>1, <1>7 DEF vars, network, history, Answers
<1> QED
  BY <1>2, <1>3, <1>4, <1>5, <1>6, <1>7 DEF Next

LEMMA NextNumbers ==
  ASSUME CoreInv, [Next]_vars
  PROVE  NumbersInv'
<1>1. NumbersInv
  BY DEF CoreInv
<1>2. CASE Serve
  <2>1. PICK m, r :
          /\ m \in requests
          /\ r.number = m.number
          /\ requests' = requests \ {m} /\ Answers' = Answers \cup {r}
          /\ listing' \in {listing, m.number}
          /\ UNCHANGED <<sent, page>>
    BY <1>2, ServeFacts
  <2> QED
    BY <1>1, <2>1, NumbersAfterAnswer DEF page
<1>3. CASE LoseRequest
  <2>1. PICK m, r :
          /\ m \in requests
          /\ r.number = m.number
          /\ requests' = requests \ {m} /\ Answers' = Answers \cup {r}
          /\ UNCHANGED <<sent, page, listing>>
    BY <1>3, LoseRequestFacts
  <2> QED
    BY <1>1, <2>1, NumbersAfterAnswer DEF page
<1>4. CASE LoseResponse
  <2>1. Answers' = Answers /\ UNCHANGED <<requests, sent, page, listing>>
    BY <1>4, LoseResponseFacts
  <2> QED
    BY <1>1, <2>1, NumbersAfterLess DEF page
<1>5. CASE Click
  <2>1. PICK call : IsCall(call) /\ Send(call) /\ UNCHANGED <<responses, page, history>>
    BY <1>5, ClickFacts
  <2> QED
    BY <1>1, <2>1, NumbersAfterSend DEF page, history
<1>6. CASE Apply
  <2>1. PICK r \in responses :
          /\ \/ ApplyNodes(r)      \/ ApplyLogin(r) \/ ApplyRegister(r)
             \/ ApplyRouteError(r) \/ ApplyRoute(r) \/ ApplyUpdate(r)
          /\ responses' = responses \ {r}
          /\ told' \in {told, told \cup {r}}
          /\ Answers' \subseteq Answers /\ UNCHANGED <<listing, lost>>
    BY <1>6, ApplyFacts
  <2>2. CASE ApplyNodes(r)
    <3>1. UNCHANGED <<requests, sent>> /\ markers' = Markers(r)
      BY <2>2 DEF ApplyNodes
    <3>2. r \in Answers /\ \A l \in markers' : l.number = r.number
      BY <3>1, MarkersOfAnswer DEF Answers
    <3> QED
      BY <1>1, <2>1, <3>1, <3>2, NumbersAfterLess
  <2>3. ASSUME UNCHANGED <<requests, sent, markers>>
        PROVE  NumbersInv'
    BY <1>1, <2>1, <2>3, NumbersAfterLess
  <2>4. ASSUME Send(LoadNodes), UNCHANGED markers
        PROVE  NumbersInv'
    <3>1. IsCall(LoadNodes)
      BY DEF IsCall
    <3> QED
      BY <1>1, <2>1, <2>4, <3>1, NumbersAfterSend
  <2>5. ApplyLogin(r) \/ ApplyRegister(r) \/ ApplyRouteError(r) =>
          UNCHANGED <<requests, sent, markers>>
    BY DEF ApplyLogin, ApplyRegister, ApplyRouteError, page
  <2>6. ApplyRoute(r) => Send(LoadNodes) /\ UNCHANGED markers
    BY DEF ApplyRoute
  <2>7. ApplyUpdate(r) => /\ Send(LoadNodes) \/ UNCHANGED <<requests, sent>>
                          /\ UNCHANGED markers
    BY DEF ApplyUpdate, AfterUpdate, page
  <2> QED
    BY <2>1, <2>2, <2>3, <2>4, <2>5, <2>6, <2>7
<1>7. CASE UNCHANGED vars
  BY <1>1, <1>7, NumbersAfterLess DEF vars, network, page, history, Answers
<1> QED
  BY <1>2, <1>3, <1>4, <1>5, <1>6, <1>7 DEF Next

LEMMA NextCore == CoreInv /\ [Next]_vars => CoreInv'
  BY NextLayers, NextAnswers, NextNumbers DEF CoreInv
-----------------------------------------------------------------------------
(* Markers and lines *)

\* The markers of an answer: one for each lot.
LEMMA MarkersOnePerLot ==
  ASSUME NEW r, NEW n \in Lots
  PROVE  \E l \in Markers(r) : \A k \in Markers(r) : k.node = n <=> k = l
<1> DEFINE Marker(m) == [kind |-> "marker", number |-> r.number, node |-> m,
                         capacity |-> r.body.rows[m].capacity]
<1>1. Markers(r) = {Marker(m) : m \in Lots}
  BY DEF Markers
<1>2. \A m : Marker(m).node = m
  OBVIOUS
<1> HIDE DEF Marker
<1> QED
  BY <1>1, <1>2

LEMMA InitMarkers == Init => MarkersInv
  BY DEF Init, MarkersInv

LEMMA NextMarkers == MarkersInv /\ [Next]_vars => MarkersInv'
<1> SUFFICES ASSUME MarkersInv, [Next]_vars PROVE MarkersInv'
  OBVIOUS
<1>1. UNCHANGED markers \/ \E r : markers' = Markers(r)
  BY DEF Next, vars, page, Click, Serve, LoseRequest, LoseResponse, Apply, ApplyNodes, ApplyLogin,
         ApplyRegister, ApplyRouteError, ApplyRoute, ApplyUpdate
<1>2. CASE UNCHANGED markers
  BY <1>2 DEF MarkersInv
<1>3. ASSUME NEW r, markers' = Markers(r)
      PROVE  MarkersInv'
  BY <1>3, MarkersOnePerLot DEF MarkersInv
<1> QED
  BY <1>1, <1>2, <1>3

LEMMA InitLines == Init => LinesInv
  BY DEF Init, LinesInv, LayersOf, ShownFallbacks

\* Lines are drawn by the answer of a search alone, and a search that failed
\* draws none.
LEMMA NextLines == CoreInv /\ LinesInv /\ [Next]_vars => LinesInv'
<1> SUFFICES ASSUME CoreInv, LinesInv, [Next]_vars PROVE LinesInv'
  OBVIOUS
<1>1. ASSUME LayersOf("route")' = LayersOf("route"),
             LayersOf("transport")' = LayersOf("transport"),
             told \subseteq told', \A a \in told' \ told : a.body.status # "reserved"
      PROVE  LinesInv'
  <2>1. \A a : a \in ShownFallbacks' <=> a \in ShownFallbacks
    BY <1>1 DEF ShownFallbacks
  <2>2. ShownFallbacks' = ShownFallbacks
    BY <2>1
  <2> QED
    BY <1>1, <2>2 DEF LinesInv
<1>2. ASSUME UNCHANGED <<onMap, told>>
      PROVE  LinesInv'
  BY <1>1, <1>2 DEF LayersOf
<1>3. ASSUME NEW r \in responses, ApplyNodes(r)
      PROVE  LinesInv'
  <2>1. told' = told
    BY <1>3 DEF ApplyNodes
  <2>2. LayersOf("route")' = LayersOf("route") /\ LayersOf("transport")' = LayersOf("transport")
    BY <1>3, NodesLayers DEF CoreInv
  <2> QED
    BY <1>1, <2>1, <2>2
<1>4. ASSUME NEW r \in responses, ApplyRouteError(r)
      PROVE  LinesInv'
  <2>1. onMap' = onMap /\ told' = told \cup {r} /\ r.body.status = "error"
    BY <1>4 DEF ApplyRouteError, Tell, page
  <2> QED
    BY <1>1, <2>1 DEF LayersOf
<1>5. ASSUME NEW r \in responses, ApplyRoute(r)
      PROVE  LinesInv'
  <2>1. /\ LayersOf("route")' = {routeLine'} /\ routeLine'.number = r.number
        /\ r.body.fallback => /\ LayersOf("transport")' = {transportLine'}
                              /\ transportLine'.number = r.number
        /\ ~ r.body.fallback => LayersOf("transport")' = {}
    BY <1>5, RouteLayers DEF CoreInv
  <2>2. told' = told \cup {r} /\ r.body.status = "reserved"
    BY <1>5 DEF ApplyRoute, Tell
  <2>3. {l.number : l \in LayersOf("route")'} = {r.number}
    BY <2>1
  <2>4. \A a \in told' : a.number = r.number <=> a = r
    BY <2>2 DEF CoreInv, NumbersInv, Answers
  <2>5. ShownFallbacks' = {a \in told' : /\ a.body.status = "reserved"
                                         /\ a.body.fallback
                                         /\ a.number \in {r.number}}
    BY <2>3 DEF ShownFallbacks
  <2>6. ShownFallbacks' = {a \in {r} : a.body.fallback}
    BY <2>2, <2>4, <2>5
  <2>7. CASE r.body.fallback
    <3>1. {l.number : l \in LayersOf("transport")'} = {r.number}
      BY <2>1, <2>7
    <3>2. {a.number : a \in ShownFallbacks'} = {r.number}
      BY <2>6, <2>7
    <3> QED
      BY <3>1, <3>2 DEF LinesInv
  <2>8. CASE ~ r.body.fallback
    <3>1. {l.number : l \in LayersOf("transport")'} = {} /\ ShownFallbacks' = {}
      BY <2>1, <2>6, <2>8
    <3> QED
      BY <3>1 DEF LinesInv
  <2> QED
    BY <2>7, <2>8
<1>6. ASSUME NEW r, ApplyLogin(r) \/ ApplyRegister(r) \/ ApplyUpdate(r)
      PROVE  UNCHANGED <<onMap, told>>
  BY <1>6 DEF ApplyLogin, ApplyRegister, ApplyUpdate, page
<1>7. CASE Apply
  BY <1>2, <1>3, <1>4, <1>5, <1>6, <1>7, ApplyFacts
<1>8. CASE Click \/ Serve \/ LoseRequest \/ LoseResponse \/ UNCHANGED vars
  BY <1>2, <1>8 DEF Click, Serve, LoseRequest, LoseResponse, vars, page, history
<1> QED
  BY <1>7, <1>8 DEF Next

-----------------------------------------------------------------------------
(* Places *)

\* An answer that promises a place at n for hour h.
Promises(r, n, h) ==
  /\ r.body.status = "reserved"
  /\ r.body.parkingNode = n
  /\ h \in Stay(r.call.search[3], r.call.search[4])

\* More answers promise no fewer places, and a new one that promises a place
\* promises one more.
LEMMA MorePromised ==
  ASSUME IsFiniteSet(Answers), IsFiniteSet(Answers'), NEW n, NEW h,
         \A r \in Answers : Promises(r, n, h) => r \in Answers'
  PROVE  /\ Cardinality(Promised(Answers, n, h)) <= Cardinality(Promised(Answers', n, h))
         /\ Cardinality(Promised(Answers, n, h)) \in Nat
         /\ Cardinality(Promised(Answers', n, h)) \in Nat
         /\ \A r \in Answers' \ Answers : Promises(r, n, h) =>
              Cardinality(Promised(Answers, n, h)) + 1 <= Cardinality(Promised(Answers', n, h))
<1> DEFINE P == Promised(Answers, n, h)
           Q == Promised(Answers', n, h)
<1>1. /\ P = {r \in Answers : Promises(r, n, h)}
      /\ Q = {r \in Answers' : Promises(r, n, h)}
  BY DEF Promised, Promises
<1> HIDE DEF P, Q
<1>2. P \subseteq Answers /\ Q \subseteq Answers' /\ P \subseteq Q
  BY <1>1
<1>3. IsFiniteSet(P) /\ IsFiniteSet(Q)
  BY <1>2, FS_Subset
<1>4. Cardinality(P) <= Cardinality(Q) /\ Cardinality(P) \in Nat /\ Cardinality(Q) \in Nat
  BY <1>2, <1>3, FS_Subset, FS_CardinalityType
<1>5. ASSUME NEW r \in Answers' \ Answers, Promises(r, n, h)
      PROVE  Cardinality(P) + 1 <= Cardinality(Q)
  <2>1. r \notin P /\ P \cup {r} \subseteq Q
    BY <1>1, <1>2, <1>5
  <2>2. Cardinality(P \cup {r}) = Cardinality(P) + 1
    BY <1>3, <2>1, FS_AddElement
  <2>3. Cardinality(P \cup {r}) <= Cardinality(Q)
    BY <1>3, <2>1, FS_Subset
  <2> QED
    BY <2>2, <2>3
<1> QED
  BY <1>4, <1>5 DEF P, Q

LEMMA InitAnnounced == Init => AnnouncedInv
<1> SUFFICES ASSUME Init PROVE AnnouncedInv
  OBVIOUS
<1>1. capacity = InitialCapacity /\ slots = FreshSlots(InitialCapacity)
  BY SameTables DEF Init, Service!Init
<1>2. /\ IsTable(slots) /\ \A n \in Lots, h \in Hours : Free(slots, n, h) = capacity[n]
  BY <1>1, CapacityAssumption, FreshSlotsFree
<1>3. Answers = {}
  BY DEF Init, Answers
<1>4. \A n, h : Promised(Answers, n, h) = {}
  BY <1>3 DEF Promised
<1>5. IsFiniteSet(Answers) /\ \A n, h : Cardinality(Promised(Answers, n, h)) = 0
  BY <1>3, <1>4, FS_EmptySet
<1>6. \A n \in Lots : capacity[n] \in Nat
  BY <1>1, CapacityAssumption, LotsAreNodes
<1> QED
  BY <1>1, <1>2, <1>5, <1>6, CapacityAssumption DEF AnnouncedInv

\* Messages that are lost or applied leave every promise among the answers.
LEMMA SamePlaces ==
  ASSUME AnnouncedInv, UNCHANGED <<capacity, slots>>, IsFiniteSet(Answers'),
         \A r \in Answers : r.body.status = "reserved" => r \in Answers'
  PROVE  AnnouncedInv'
<1>1. ASSUME NEW n \in Lots, NEW h \in Hours
      PROVE  capacity[n] - Free(slots, n, h) <= Cardinality(Promised(Answers', n, h))
  <2>1. /\ capacity[n] - Free(slots, n, h) <= Cardinality(Promised(Answers, n, h))
        /\ capacity[n] \in Nat /\ Free(slots, n, h) \in Int
    BY <1>1, LotsAreNodes DEF AnnouncedInv, IsTable, Free
  <2>2. /\ Cardinality(Promised(Answers, n, h)) <= Cardinality(Promised(Answers', n, h))
        /\ Cardinality(Promised(Answers, n, h)) \in Nat
        /\ Cardinality(Promised(Answers', n, h)) \in Nat
    BY MorePromised DEF AnnouncedInv, Promises
  <2> QED
    BY <2>1, <2>2
<1> QED
  BY <1>1 DEF AnnouncedInv

LEMMA ServeAnnounces ==
  ASSUME CoreInv, AnnouncedInv, Serve
  PROVE  AnnouncedInv'
<1>1. PICK m, r :
        /\ m \in requests
        /\ Handle(m.call) /\ IsCall(m.call)
        /\ r.call = m.call /\ r.body = reply'
        /\ r \notin Answers /\ Answers' = Answers \cup {r}
  BY ServeFacts
<1>2. /\ IsFiniteSet(Answers) /\ IsFiniteSet(Answers')
      /\ \A s \in Answers : s \in Answers'
  BY <1>1, FS_AddElement DEF AnnouncedInv
<1>3. /\ IsTable(slots) /\ capacity \in [Nodes -> Nat] /\ Lots \subseteq Nodes
      /\ \A n \in Lots, h \in Hours :
           /\ Free(slots, n, h) \in Int /\ capacity[n] \in Nat
           /\ 0 <= Free(slots, n, h) /\ Free(slots, n, h) <= capacity[n]
           /\ capacity[n] - Free(slots, n, h) <= Cardinality(Promised(Answers, n, h))
  BY LotsAreNodes DEF AnnouncedInv, IsTable, Free
<1>4. \A n, h : /\ Cardinality(Promised(Answers, n, h)) <= Cardinality(Promised(Answers', n, h))
                /\ Cardinality(Promised(Answers, n, h)) \in Nat
                /\ Cardinality(Promised(Answers', n, h)) \in Nat
                /\ Promises(r, n, h) =>
                     Cardinality(Promised(Answers, n, h)) + 1
                       <= Cardinality(Promised(Answers', n, h))
  BY <1>1, <1>2, MorePromised
<1>5. CASE UNCHANGED <<capacity, slots>>
  BY <1>2, <1>5, SamePlaces
<1>6. CASE m.call.kind = "route" /\ ~ UNCHANGED <<capacity, slots>>
  <2> DEFINE startH == m.call.search[3]
             endH == m.call.search[4]
             n == reply'.parkingNode
  <2>1. /\ UNCHANGED capacity /\ startH \in Int /\ endH \in Int
        /\ reply'.status = "reserved"
        /\ AvailableAtTime(slots, n, startH, endH)
        /\ slots' = ReserveSlot(slots, n, startH, endH)
    BY <1>1, <1>6, CallKinds, HandleRoute
  <2>2. \A h : h \in Stay(startH, endH) => Promises(r, n, h)
    BY <1>1, <2>1 DEF Promises
  <2> HIDE DEF startH, endH, n
  <2>3. /\ IsTable(slots')
        /\ \A k \in Lots, h \in Hours :
             Free(slots', k, h) = IF k = n /\ h \in Stay(startH, endH)
                                  THEN Free(slots, k, h) - 1 ELSE Free(slots, k, h)
    BY <1>3, <2>1, ReserveSlotFree
  <2>4. \A h \in Stay(startH, endH) : Free(slots, n, h) > 0
    BY <2>1 DEF AvailableAtTime, Free
  <2>5. ASSUME NEW k \in Lots, NEW h \in Hours
        PROVE  /\ 0 <= Free(slots', k, h) /\ Free(slots', k, h) <= capacity[k]
               /\ capacity[k] - Free(slots', k, h) <= Cardinality(Promised(Answers', k, h))
    <3>1. CASE k = n /\ h \in Stay(startH, endH)
      BY <1>3, <1>4, <2>2, <2>3, <2>4, <3>1
    <3>2. CASE ~ (k = n /\ h \in Stay(startH, endH))
      BY <1>3, <1>4, <2>3, <3>2
    <3> QED
      BY <3>1, <3>2
  <2> QED
    BY <1>2, <1>3, <2>1, <2>3, <2>5 DEF AnnouncedInv
<1>7. CASE m.call.kind = "update" /\ ~ UNCHANGED <<capacity, slots>>
  <2> DEFINE id == m.call.change[1]
             cap == m.call.change[2]
  <2>1. /\ id \in Lots /\ cap \in Nat
        /\ capacity' = [capacity EXCEPT ![id] = cap]
        /\ slots' = UpdateSlots(slots, id, capacity[id], cap)
    BY <1>1, <1>7, CallKinds, HandleUpdate
  <2> HIDE DEF id, cap
  <2>2. /\ capacity' \in [Nodes -> Nat] /\ capacity[id] \in Nat /\ capacity'[id] = cap
        /\ \A k \in Lots : k # id => capacity'[k] = capacity[k]
    BY <1>3, <2>1
  <2>3. /\ IsTable(slots')
        /\ \A k \in Lots, h \in Hours :
             Free(slots', k, h) = IF k = id THEN Recount(capacity[id], cap, Free(slots, id, h))
                                            ELSE Free(slots, k, h)
    <3>1. ASSUME NEW i \in Lots, NEW o \in Nat, NEW c \in Nat
          PROVE  /\ IsTable(UpdateSlots(slots, i, o, c))
                 /\ \A k \in Lots, h \in Hours :
                      Free(UpdateSlots(slots, i, o, c), k, h) =
                        IF k = i THEN Recount(o, c, Free(slots, i, h)) ELSE Free(slots, k, h)
      BY <1>3, UpdateSlotsFree
    <3> QED
      BY <2>1, <2>2, <3>1
  <2>4. ASSUME NEW k \in Lots, NEW h \in Hours
        PROVE  /\ 0 <= Free(slots', k, h) /\ Free(slots', k, h) <= capacity'[k]
               /\ capacity'[k] - Free(slots', k, h) <= Cardinality(Promised(Answers', k, h))
    <3>1. CASE k = id
      <4>1. /\ Recount(capacity[id], cap, Free(slots, id, h)) \in 0 .. cap
            /\ cap - Recount(capacity[id], cap, Free(slots, id, h))
                 <= capacity[id] - Free(slots, id, h)
        BY <1>3, <2>1, <2>2, RecountBounds
      <4> QED
        BY <1>3, <1>4, <2>1, <2>2, <2>3, <3>1, <4>1
    <3>2. CASE k # id
      BY <1>3, <1>4, <2>2, <2>3, <3>2
    <3> QED
      BY <3>1, <3>2
  <2> QED
    BY <1>2, <2>2, <2>3, <2>4 DEF AnnouncedInv
<1>8. m.call.kind \in {"nodes", "login", "register"} => UNCHANGED <<capacity, slots>>
  BY <1>1, CallKinds, HandleNodes, HandleAccount
<1> QED
  BY <1>1, <1>5, <1>6, <1>7, <1>8, CallKinds

LEMMA NextAnnounced == CoreInv /\ AnnouncedInv /\ [Next]_vars => AnnouncedInv'
<1> SUFFICES ASSUME CoreInv, AnnouncedInv, [Next]_vars PROVE AnnouncedInv'
  OBVIOUS
<1>1. IsFiniteSet(Answers)
  BY DEF AnnouncedInv
<1>2. CASE Serve
  BY <1>2, ServeAnnounces
<1>3. CASE LoseRequest
  <2>1. PICK r : Answers' = Answers \cup {r} /\ UNCHANGED service
    BY <1>3, LoseRequestFacts
  <2>2. IsFiniteSet(Answers')
    BY <1>1, <2>1, FS_AddElement
  <2> QED
    BY <2>1, <2>2, SamePlaces DEF service
<1>4. CASE LoseResponse
  <2>1. Answers' = Answers /\ UNCHANGED service
    BY <1>4, LoseResponseFacts
  <2> QED
    BY <1>1, <2>1, SamePlaces DEF service
<1>5. CASE Click
  <2>1. Answers' = Answers /\ UNCHANGED service
    BY <1>5, ClickFacts
  <2> QED
    BY <1>1, <2>1, SamePlaces DEF service
<1>6. CASE Apply
  <2>1. PICK r \in responses :
          /\ responses' = responses \ {r} /\ told' \in {told, told \cup {r}}
          /\ r.call.kind = "route" => told' = told \cup {r}
          /\ lost' = lost /\ Answers' \subseteq Answers /\ UNCHANGED service
    BY <1>6, ApplyFacts
  <2>2. r \in Answers /\ (r.body.status = "reserved" => r.call.kind = "route")
    BY DEF CoreInv, AnswersInv, Answers
  <2>3. \A s \in Answers : s.body.status = "reserved" => s \in Answers'
    BY <2>1, <2>2 DEF Answers
  <2>4. IsFiniteSet(Answers')
    BY <1>1, <2>1, FS_Subset
  <2> QED
    BY <2>1, <2>3, <2>4, SamePlaces DEF service
<1>7. CASE UNCHANGED vars
  <2>1. Answers' = Answers /\ UNCHANGED <<capacity, slots>>
    BY <1>7 DEF vars, service, network, history, Answers
  <2> QED
    BY <1>1, <2>1, SamePlaces
<1> QED
  BY <1>2, <1>3, <1>4, <1>5, <1>6, <1>7 DEF Next
-----------------------------------------------------------------------------
(* Markers that are up to date *)

LEMMA InitFresh == Init => FreshInv
<1> SUFFICES ASSUME Init PROVE FreshInv
  OBVIOUS
<1>1. Request(1, LoadNodes) \in requests /\ Request(1, LoadNodes).call = LoadNodes
  BY DEF Init, Request
<1> QED
  BY <1>1 DEF FreshInv

\* Nothing on which the markers depend is lost sight of: the losses, the requests
\* of /nodes, the updates to be told and the markers of the newest list.
LEMMA StaysFresh ==
  ASSUME FreshInv, UNCHANGED <<capacity, listing, markers>>,
         \A r \in lost : r \in lost',
         \A m \in requests : m.call = LoadNodes => m \in requests',
         \A r \in responses' : r.call.kind = "nodes" => r \in responses,
         \A r \in responses :
           r.call.kind = "update" /\ r.body.status = "updated" => r \in responses'
  PROVE  FreshInv'
  BY DEF FreshInv, Lists

LEMMA NextFresh == CoreInv /\ FreshInv /\ [Next]_vars => FreshInv'
<1> SUFFICES ASSUME CoreInv, FreshInv, [Next]_vars PROVE FreshInv'
  OBVIOUS
<1>1. CASE Serve
  <2>1. PICK m, r :
          /\ m \in requests
          /\ Handle(m.call) /\ IsCall(m.call)
          /\ r.number = m.number /\ r.call = m.call /\ r.body = reply'
          /\ requests' = requests \ {m}
          /\ responses' = responses \cup {r}
          /\ listing' = (IF m.call = LoadNodes THEN m.number ELSE listing)
          /\ UNCHANGED <<page, told, lost>>
    BY <1>1, ServeFacts
  <2>2. CASE m.call = LoadNodes
    <3>1. UNCHANGED <<capacity>> /\ \A n \in Lots : r.body.rows[n].capacity = capacity[n]
      BY <2>1, <2>2, HandleNodes
    <3>2. \A s \in responses : s.number # m.number
      BY <2>1 DEF CoreInv, NumbersInv, Answers
    <3>3. \A l \in markers' : l.number # listing'
      BY <2>1, <2>2 DEF CoreInv, NumbersInv, page
    <3>4. \A s \in responses' :
            s.call.kind = "nodes" /\ s.number = listing' =>
              \A n \in Lots : s.body.rows[n].capacity = capacity'[n]
      BY <2>1, <2>2, <3>1, <3>2
    <3> QED
      BY <3>3, <3>4 DEF FreshInv, Lists
  <2>3. CASE m.call # LoadNodes /\ UNCHANGED capacity
    <3>1. r.call.kind # "nodes"
      BY <2>1, <2>3, CallKinds
    <3> QED
      BY <2>1, <2>3, <3>1, StaysFresh DEF page
  <2>4. CASE m.call.kind = "update" /\ reply'.status = "updated"
    BY <2>1, <2>4 DEF FreshInv
  <2> QED
    BY <2>1, <2>2, <2>3, <2>4, HandlerReplies
<1>2. CASE LoseRequest
  <2>1. PICK m, r :
          /\ m \in requests
          /\ IsCall(m.call) /\ r.call = m.call
          /\ requests' = requests \ {m} /\ lost' = lost \cup {r}
          /\ UNCHANGED <<service, responses, page, listing>>
    BY <1>2, LoseRequestFacts
  <2>2. CASE m.call = LoadNodes
    BY <2>1, <2>2 DEF FreshInv, LoadNodes
  <2>3. CASE m.call # LoadNodes
    BY <2>1, <2>3, StaysFresh DEF page, service
  <2> QED
    BY <2>2, <2>3
<1>3. CASE LoseResponse
  <2>1. PICK r \in responses :
          /\ responses' = responses \ {r} /\ lost' = lost \cup {r}
          /\ UNCHANGED <<service, requests, page, listing>>
    BY <1>3, LoseResponseFacts
  <2>2. CASE r.call.kind = "update"
    BY <2>1, <2>2 DEF FreshInv
  <2>3. CASE r.call.kind # "update"
    BY <2>1, <2>3, StaysFresh DEF page, service
  <2> QED
    BY <2>2, <2>3
<1>4. CASE Click
  <2>1. PICK call : Send(call) /\ UNCHANGED <<service, responses, page, history>>
    BY <1>4, ClickFacts
  <2> QED
    BY <2>1, StaysFresh DEF Send, page, service, history
<1>5. CASE Apply
  <2>1. PICK r \in responses :
          /\ \/ ApplyNodes(r)      \/ ApplyLogin(r) \/ ApplyRegister(r)
             \/ ApplyRouteError(r) \/ ApplyRoute(r) \/ ApplyUpdate(r)
          /\ responses' = responses \ {r} /\ UNCHANGED <<service, listing, lost>>
    BY <1>5, ApplyFacts
  <2>2. CASE ApplyNodes(r)
    <3>1. /\ r.call.kind = "nodes" /\ markers' = Markers(r)
          /\ UNCHANGED requests
      BY <2>2 DEF ApplyNodes, Arrives
    <3>2. ASSUME \A s \in responses : s.call.kind = "nodes" /\ s.number = listing => Lists(s)
          PROVE  \A l \in markers' : l.number = listing' => l.capacity = capacity'[l.node]
      <4> SUFFICES ASSUME NEW l \in Markers(r), l.number = listing
                   PROVE  l.capacity = capacity[l.node]
        BY <2>1, <3>1 DEF service
      <4>1. PICK n \in Lots : l = [kind |-> "marker", number |-> r.number, node |-> n,
                                   capacity |-> r.body.rows[n].capacity]
        BY DEF Markers
      <4>2. l.number = r.number /\ l.node = n /\ l.capacity = r.body.rows[n].capacity
        BY <4>1
      <4> QED
        BY <3>1, <3>2, <4>2 DEF Lists
    <3> QED
      BY <2>1, <3>1, <3>2 DEF FreshInv, Lists, service
  <2>3. CASE ApplyUpdate(r)
    <3>1. CASE r.body.status = "updated"
      <4>1. Send(LoadNodes)
        BY <2>3, <3>1 DEF ApplyUpdate, AfterUpdate
      <4>2. /\ Request(sent + 1, LoadNodes) \in requests'
            /\ Request(sent + 1, LoadNodes).call = LoadNodes
        BY <4>1 DEF Send, Request
      <4> QED
        BY <4>2 DEF FreshInv
    <3>2. CASE r.body.status # "updated"
      BY <2>1, <2>3, <3>2, StaysFresh DEF ApplyUpdate, page, service
    <3> QED
      BY <3>1, <3>2
  <2>4. CASE ApplyLogin(r) \/ ApplyRegister(r) \/ ApplyRouteError(r)
    <3>1. UNCHANGED <<requests, markers>> /\ r.call.kind # "update"
      BY <2>4 DEF ApplyLogin, ApplyRegister, ApplyRouteError, Arrives, page
    <3> QED
      BY <2>1, <3>1, StaysFresh DEF service
  <2>5. CASE ApplyRoute(r)
    <3>1. requests \subseteq requests' /\ UNCHANGED markers /\ r.call.kind # "update"
      BY <2>5 DEF ApplyRoute, Arrives, Send
    <3> QED
      BY <2>1, <3>1, StaysFresh DEF service
  <2> QED
    BY <2>1, <2>2, <2>3, <2>4, <2>5
<1>6. CASE UNCHANGED vars
  BY <1>6, StaysFresh DEF vars, service, network, page, history
<1> QED
  BY <1>1, <1>2, <1>3, <1>4, <1>5, <1>6 DEF Next

-----------------------------------------------------------------------------
(* The theorems *)

\* The state keeps its shapes: the page shows the login box or the main box,
\* never both, however the answers to several logins arrive.
THEOREM PageTypeCorrect == Spec => []TypeOK
<1>1. CoreInv => TypeOK
  <2> SUFFICES ASSUME CoreInv PROVE TypeOK
    OBVIOUS
  <2>1. LayersOf("none") = {}
    BY DEF CoreInv, LayersInv, LayersOf
  <2>2. \A m \in requests \cup responses : m.number \in 1 .. sent
    BY DEF CoreInv, NumbersInv, Answers
  <2> QED
    BY <2>1, <2>2, LayerKinds DEF CoreInv, LayersInv, NumbersInv, TypeOK
<1> QED
  BY <1>1, InitCore, NextCore, PTL DEF Spec

\* loadNodes leaves one marker per lot, in whatever order its answers come back.
THEOREM LotsAreMarkedOnce == Spec => []EachLotMarkedOnce
<1>1. CoreInv /\ MarkersInv => EachLotMarkedOnce
  <2> SUFFICES ASSUME CoreInv, MarkersInv PROVE EachLotMarkedOnce
    OBVIOUS
  <2>1. LayersOf("marker") = markers
    BY DEF CoreInv, LayersInv
  <2>2. ASSUME markers # {}, NEW n \in Lots
        PROVE  Cardinality({l \in markers : l.node = n}) = 1
    <3>1. PICK l \in markers : \A k \in markers : k.node = n <=> k = l
      BY <2>2 DEF MarkersInv
    <3>2. {k \in markers : k.node = n} = {l}
      BY <3>1
    <3> QED
      BY <3>2, FS_Singleton
  <2> QED
    BY <2>1, <2>2 DEF EachLotMarkedOnce
<1> QED
  BY <1>1, InitCore, NextCore, InitMarkers, NextMarkers, PTL DEF Spec

\* findRoute's callback: the lines on the map are those of one answer, the red
\* one among them exactly if that answer was a fallback.
THEOREM LinesAreOfOneAnswer == Spec => []LinesOfOneAnswer
<1>1. CoreInv /\ LinesInv => LinesOfOneAnswer
  <2> SUFFICES ASSUME CoreInv, LinesInv PROVE LinesOfOneAnswer
    OBVIOUS
  <2>1. LayersOf("route") \subseteq {routeLine}
    BY DEF CoreInv, LayersInv
  <2>2. Cardinality(LayersOf("route")) <= 1
    <3>1. LayersOf("route") = {} \/ LayersOf("route") = {routeLine}
      BY <2>1
    <3> QED
      <4>1. CASE LayersOf("route") = {}
        BY <4>1, FS_EmptySet
      <4>2. CASE LayersOf("route") = {routeLine}
        <5>1. Cardinality({routeLine}) = 1
          BY FS_Singleton
        <5> QED
          BY <4>2, <5>1
      <4> QED
        BY <3>1, <4>1, <4>2
  <2> QED
    BY <2>2 DEF LinesOfOneAnswer, LinesInv, ShownFallbacks
<1> QED
  BY <1>1, InitCore, NextCore, InitLines, NextLines, PTL DEF Spec

\* However often findRoute is pressed before its answers arrive, and whichever
\* of them are lost, each place that /route took was named in an answer.
THEOREM TakenPlacesAreAnnounced == Spec => []TakenPlacesAnnounced
<1>1. AnnouncedInv => TakenPlacesAnnounced
  <2> SUFFICES ASSUME AnnouncedInv, Quiet, NEW n \in Lots, NEW h \in Hours
               PROVE  capacity[n] - Free(slots, n, h)
                        <= Cardinality(Promised(told \cup lost, n, h))
    BY DEF TakenPlacesAnnounced
  <2>1. Answers = told \cup lost
    BY DEF Quiet, Answers
  <2> QED
    BY <2>1 DEF AnnouncedInv
<1> QED
  BY <1>1, InitCore, NextCore, InitAnnounced, NextAnnounced, PTL DEF Spec

\* The markers show what the service knows once nothing is under way, unless an
\* answer of /nodes came in late or one that matters was lost.
THEOREM MarkersAreFresh == Spec => []MarkersFresh
<1>1. FreshInv => MarkersFresh
  <2> SUFFICES ASSUME FreshInv, Quiet,
                      \A l \in markers : l.number = listing,
                      {r.call.kind : r \in lost} \cap {"nodes", "update"} = {},
                      NEW l \in markers
               PROVE  l.capacity = capacity[l.node]
    BY DEF MarkersFresh
  <2>1. \A r \in lost : r.call.kind \notin {"nodes", "update"}
    OBVIOUS
  <2> QED
    BY <2>1 DEF FreshInv, Quiet
<1> QED
  BY <1>1, InitCore, NextCore, InitFresh, NextFresh, PTL DEF Spec

=============================================================================
