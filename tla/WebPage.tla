------------------------------- MODULE WebPage -------------------------------
(***************************************************************************)
(* index.html in one browser, together with the service it talks to.  A    *)
(* click or loadNodes sends a request, the service answers it by one       *)
(* action of SmartParking, and the callback applies the response to the    *)
(* page.  The browser opens several connections, so requests and responses *)
(* overtake each other; no callback has an error branch, so a request or a *)
(* response that is lost, or that a handler answers with an exception,     *)
(* never comes back.  Buttons are not disabled while an answer is under    *)
(* way.                                                                    *)
(*                                                                         *)
(* What is on the map are the layers added and not removed: a marker per   *)
(* lot, and the lines of a route.  Which accounts exist is left open: a    *)
(* login or a registration may succeed or fail.                            *)
(***************************************************************************)
EXTENDS ParkingData, FiniteSets

CONSTANTS
  Searches,     \* what drivers enter: <<start, end, startH, endH>>
  Changes,      \* what administrators enter: <<id, cap>>
  MaxClicks,    \* bound on the buttons pressed
  MaxLost       \* bound on the requests and responses lost

ASSUME InputAssumption ==
  /\ Searches \subseteq (Nodes \cup {NoNode}) \X (Nodes \cup {NoNode}) \X Int \X Int
  /\ Changes \subseteq (Nodes \cup {NoNode}) \X Int

ASSUME BoundAssumption == MaxClicks \in Nat /\ MaxLost \in Nat

VARIABLES
  capacity, slots, file, granted, forgot, reply,   \* SmartParking
  requests,        \* under way to the service
  responses,       \* under way to the page
  sent,            \* requests sent so far; each is known by its number
  clicks,          \* buttons pressed so far
  boxes,           \* the boxes that are shown
  onMap,           \* the layers on the map
  markers,         \* the variables of the script with these names
  routeLine, transportLine,
  listing,         \* history: number of the /nodes request served last
  told,            \* history: answers of /route applied, each with an alert
  lost             \* history: requests and responses lost

service == <<capacity, slots, file, granted, forgot, reply>>
network == <<requests, responses, sent>>
page == <<boxes, onMap, markers, routeLine, transportLine>>
history == <<listing, told, lost>>
vars == <<service, network, clicks, page, history>>

\* A server that is not restarted while the page is open.
Service == INSTANCE SmartParking WITH
             HourInputs <- Int, CapInputs <- Int, CurHour <- 0,
             MayRestart <- FALSE, MaxGranted <- MaxClicks

-----------------------------------------------------------------------------

Request(number, call) == [number |-> number, call |-> call]

Response(m, body) == [number |-> m.number, call |-> m.call, body |-> body]

LoadNodes == [kind |-> "nodes"]

\* The calls of the buttons in each box.
Buttons(box) ==
  CASE box = "login" -> {[kind |-> "login"], [kind |-> "register"]}
    [] box = "main"  -> [kind : {"route"}, search : Searches]
    [] box = "admin" -> [kind : {"update"}, change : Changes]

NoLine == [kind |-> "none"]

Line(kind, r) == [kind |-> kind, number |-> r.number]

Markers(r) ==
  {[kind |-> "marker", number |-> r.number, node |-> n,
    capacity |-> r.body.rows[n].capacity] : n \in Lots}

\* The script as it is loaded: the map is empty, and loadNodes() was called.
Init ==
  /\ Service!Init
  /\ requests = {Request(1, LoadNodes)}
  /\ responses = {}
  /\ sent = 1
  /\ clicks = 0
  /\ boxes = {"login"}
  /\ onMap = {}
  /\ markers = {}
  /\ routeLine = NoLine
  /\ transportLine = NoLine
  /\ listing = 0
  /\ told = {}
  /\ lost = {}

\* fetch(...)
Send(call) ==
  /\ sent' = sent + 1
  /\ requests' = requests \cup {Request(sent + 1, call)}

\* login, registerUser, findRoute, updateCapacity: a button in a box that is
\* shown is pressed.
Click ==
  /\ clicks < MaxClicks
  /\ clicks' = clicks + 1
  /\ \E box \in boxes : \E call \in Buttons(box) : Send(call)
  /\ UNCHANGED <<service, responses, page, history>>

-----------------------------------------------------------------------------

\* /login and /register, as far as the page can tell.
Account(status, outcomes) ==
  /\ \E outcome \in outcomes : reply' = [status |-> status, outcome |-> outcome]
  /\ UNCHANGED <<capacity, slots, file, granted, forgot>>

Handle(call) ==
  \/ call.kind = "nodes" /\ Service!ListNodes
  \/ /\ call.kind = "route"
     /\ LET s == call.search
        IN  \/ Service!RouteToDestination(s[1], s[2], s[3], s[4])
            \/ Service!RouteToFallback(s[1], s[2], s[3], s[4])
            \/ Service!RouteRefused(s[1], s[2], s[3], s[4])
  \/ /\ call.kind = "update"
     /\ \/ Service!Update(call.change[1], call.change[2])
        \/ Service!UpdateRefused(call.change[1], call.change[2])
  \/ call.kind = "login" /\ Account("login", {"refused", "user", "admin"})
  \/ call.kind = "register" /\ Account("register", {"refused", "registered"})

\* A handler runs and its response is sent off.
Serve ==
  /\ \E m \in requests :
       /\ Handle(m.call)
       /\ requests' = requests \ {m}
       /\ responses' = responses \cup {Response(m, reply')}
       /\ listing' = IF m.call = LoadNodes THEN m.number ELSE listing
  /\ UNCHANGED <<sent, clicks, page, told, lost>>

\* A request does not reach its handler, or the handler throws at a number it
\* cannot parse.
LoseRequest ==
  /\ Cardinality(lost) < MaxLost
  /\ \E m \in requests : /\ requests' = requests \ {m}
                         /\ lost' = lost \cup {Response(m, NoReply)}
  /\ UNCHANGED <<service, responses, sent, clicks, page, listing, told>>

LoseResponse ==
  /\ Cardinality(lost) < MaxLost
  /\ \E r \in responses : responses' = responses \ {r} /\ lost' = lost \cup {r}
  /\ UNCHANGED <<service, requests, sent, clicks, page, listing, told>>

-----------------------------------------------------------------------------

\* A response of the given kind arrives.
Arrives(r, kind) == r.call.kind = kind /\ responses' = responses \ {r}

Tell(r) == told' = told \cup {r}

\* markers.forEach(m => map.removeLayer(m)) is left out, or done.
MarkersKept == onMap
MarkersCleared == onMap \ markers

ApplyNodes(r) ==
  /\ Arrives(r, "nodes")
  /\ markers' = Markers(r)
  /\ onMap' = MarkersCleared \cup Markers(r)
  /\ UNCHANGED <<requests, sent, boxes, routeLine, transportLine, told>>

\* The login box stays where it is.
BoxesBeside(role) == boxes \cup {"main"} \cup IF role = "admin" THEN {"admin"} ELSE {}

\* loginBox is hidden, mainBox shown, and adminPanel inside it if the role says
\* so; a later login as a user does not hide it again.
BoxesAfterLogin(role) ==
  (boxes \ {"login"}) \cup {"main"} \cup IF role = "admin" THEN {"admin"} ELSE {}

ApplyLogin(r) ==
  /\ Arrives(r, "login")
  /\ boxes' = IF r.body.outcome = "refused" THEN boxes ELSE BoxesAfterLogin(r.body.outcome)
  /\ UNCHANGED <<requests, sent, onMap, markers, routeLine, transportLine, told>>

\* Nothing but an alert.
ApplyRegister(r) ==
  /\ Arrives(r, "register")
  /\ UNCHANGED <<requests, sent, page, told>>

\* The transport line of an earlier fallback is left on the map.
LinesHalfCleared == onMap \ {routeLine}

\* removeLayer of both lines; of one that is not on the map it does nothing.
LinesCleared == onMap \ {routeLine, transportLine}

\* An error is only told, and the map stays as it is.
ApplyRouteError(r) ==
  /\ Arrives(r, "route")
  /\ r.body.status = "error"
  /\ Tell(r)
  /\ UNCHANGED <<requests, sent, page>>

\* The new route replaces the old one, the driver is told where his place is,
\* and the markers are loaded again.
ApplyRoute(r) ==
  /\ Arrives(r, "route")
  /\ r.body.status = "reserved"
  /\ routeLine' = Line("route", r)
  /\ transportLine' = IF r.body.fallback THEN Line("transport", r) ELSE transportLine
  /\ onMap' = LinesCleared \cup {routeLine'}
                \cup IF r.body.fallback THEN {transportLine'} ELSE {}
  /\ Tell(r)
  /\ Send(LoadNodes)
  /\ UNCHANGED <<boxes, markers>>

\* The markers are not loaded again.
AfterUpdateNothing == UNCHANGED <<requests, sent>>

AfterUpdate == Send(LoadNodes)

\* "Updated", or "Failed".
ApplyUpdate(r) ==
  /\ Arrives(r, "update")
  /\ IF r.body.status = "updated" THEN AfterUpdate ELSE UNCHANGED <<requests, sent>>
  /\ UNCHANGED <<page, told>>

\* The callback of a response runs to its end; the page has one thread.
Apply ==
  /\ \E r \in responses :
       \/ ApplyNodes(r)      \/ ApplyLogin(r) \/ ApplyRegister(r)
       \/ ApplyRouteError(r) \/ ApplyRoute(r) \/ ApplyUpdate(r)
  /\ UNCHANGED <<service, clicks, listing, lost>>

Next == Click \/ Serve \/ LoseRequest \/ LoseResponse \/ Apply

Spec == Init /\ [][Next]_vars

-----------------------------------------------------------------------------

Quiet == requests = {} /\ responses = {}

LayersOf(kind) == {l \in onMap : l.kind = kind}

\* The answers that told a driver about a place at n for a stay that includes h.
Promised(answers, n, h) ==
  {r \in answers : /\ r.body.status = "reserved"
                   /\ r.body.parkingNode = n
                   /\ h \in Stay(r.call.search[3], r.call.search[4])}

\* Shapes of the state.  The page shows the login box or the main box, never
\* both, and the admin panel only inside the main box, in whatever order the
\* answers to several logins arrive.
TypeOK ==
  /\ boxes \in {{"login"}, {"main"}, {"main", "admin"}}
  /\ \A m \in requests \cup responses : m.number \in 1 .. sent
  /\ markers \subseteq onMap
  /\ LayersOf("none") = {}
  /\ listing \in 0 .. sent

\* However many loadNodes are under way and in whatever order they come back,
\* no lot has two markers on the map, and all lots have one after the first.
EachLotMarkedOnce ==
  /\ LayersOf("marker") = markers
  /\ markers # {} =>
       \A n \in Lots : Cardinality({l \in LayersOf("marker") : l.node = n}) = 1

\* The lines on the map belong to one answer, and the red one is there exactly
\* if that answer sent the driver to another lot than his destination: no line
\* of an earlier search is left between the lines of a later one.
LinesOfOneAnswer ==
  /\ Cardinality(LayersOf("route")) <= 1
  /\ {l.number : l \in LayersOf("transport")} =
       {r.number : r \in {a \in told : /\ a.body.status = "reserved"
                                       /\ a.body.fallback
                                       /\ a.number \in {l.number : l \in LayersOf("route")}}}

\* findRoute can be pressed again before its answer arrives, and every answer
\* of /route takes a place for good.  With nothing under way, every place that
\* is not free was named to a driver in an alert, or the answer that named it
\* was lost: repeated and overtaken searches withhold no place in silence.
TakenPlacesAnnounced ==
  Quiet => \A n \in Lots, h \in Hours :
    capacity[n] - Free(slots, n, h) <= Cardinality(Promised(told \cup lost, n, h))

\* With nothing under way the markers show the capacities of the service, unless
\* an older /nodes answer came in after the newest one, or something on which
\* the newest one depends was lost.
MarkersFresh ==
  LET newestShown == \A l \in markers : l.number = listing
      noneMissed  == {r.call.kind : r \in lost} \cap {"nodes", "update"} = {}
  IN  Quiet /\ newestShown /\ noneMissed =>
        \A l \in markers : l.capacity = capacity[l.node]

=============================================================================
