# A TLA+ model of the Smart Parking Route Optimizer

The program is a small web service. A driver asks for a route to a lot and a
stay of some hours; the service finds the shortest route, reserves a place at
the destination or, when that is full, at the last lot of the route that has
one, and draws the route. An administrator changes the number of places of a
lot. This directory holds TLA+ specifications of that service, the TLC
configurations that check them and proofs checked by TLAPS.

The code modelled is the program itself: `src/Files/SmartParking.cpp` (306
lines), `src/Files/Server.cpp` (260 lines), the script of `src/Files/index.html`
(its last 320 lines) and their data files. Everything else under `src/`, more
than 99% of its lines, is vendored (asio, `resources/httplib.h`) or scratch
(`resources/HTTPinCpp.cpp`). The repository has no tests and no documents; what the service promises is
read from the messages the page shows ("Parking Reserved At ", "Destination
Full", "Updated", "Registration Success", "User already exists").

As committed, `SmartParking.cpp` lines 150-152 are garbled (`re }turn {};`) and
do not compile. The models take them as the evident `return {};`.

## Inventory

| Component | State | Operations | What makes it hard | What makes it correct |
|---|---|---|---|---|
| Parking state (`SmartParking.cpp` 23-56, 226-285) | `nodes[id].capacity`; `slots[id][h]`, free places per lot and hour | `loadNodes`, `availableAtTime`, `reserveSlot`, `fallbackParking`, `updateCapacity` | what is reserved is never stored, only inferred as capacity minus free; entries may be missing; clamps at 0; nothing of `slots` survives a restart | free places and confirmed stays add up to the capacity; no lot is booked beyond its places; no place is withheld that nobody booked |
| Handlers (`Server.cpp` 98-257) | none of their own | `/route`, `/update`, `/nodes` | Crow runs them on several threads over one unprotected global object: test and reservation are apart, a decrement is a load and a store | every request is answered; the response leads to the place reserved; a stay is confirmed only where a place is left |
| Nodes file (`SmartParking.cpp` 23-56, 287-303) | `nodes_list.txt`, a stream's buffer and offset per save | `saveNodes` at the end of each `/update`, `loadNodes` at start | truncated before it is written; concurrent savers with texts of different lengths; a buffer smaller than the file; streams that are not tested; crashes | the file ends up complete, with the capacities in memory; nodes are lost only by a save that is cut short (a crash, a failed write) or written in pieces among those of another; a save that runs alone repairs the file |
| Route planning (`SmartParking.cpp` 58-72, 138-196) | `road`; labels, parents and queue of one call | `loadGraph`, `dijkstra` | stale queue entries, equal and zero weights, ghosts, unreachable lots | the answer is a shortest walk over lots, found exactly when there is one |
| Drawing (`SmartParking.cpp` 90-126, 198-224) | `visualPaths` | `buildVisualPaths`, `buildVisualRoute` | each road is entered once and needed in both directions | the line visits the lots of the route in order and is the same there and back |
| Accounts (`Server.cpp` 6-44) | `UserFiles/users.txt` | `/login`, `/register` | check and append are apart, on several threads; what is entered is written as it is, read back as words and compared with them; streams are not tested | a name is given out once; who was told of success can log in; nothing registered later changes an earlier login |
| Web page (`index.html` 191-503) | markers, route lines, requests under way | `findRoute`, `updateCapacity`, `login`, `registerUser`, `loadNodes` | responses may arrive in another order than the requests were sent, or not at all; buttons can be pressed again | one marker per lot; the lines on the map belong to one answer; markers are up to date unless a response was overtaken or lost; no place is taken in silence |
| Transport graph (`loadTransport`) | `transport` | loaded, never read | - | - |

The handlers call the methods of the global `sys`; `/route` calls `getId`,
`dijkstra`, `buildVisualRoute`, `availableAtTime`, `fallbackParking` and
`reserveSlot` in this order, `/update` calls `updateCapacity`, which calls
`saveNodes`. Callbacks of the page send further requests: a route that was found
and a capacity that was updated both load `/nodes` again. A process start runs `loadNodes`, `loadGraph`, `loadTransport` and
`buildVisualPaths`.

## Modules

| Module | Content |
|---|---|
| `ParkingData` | constants, their assumptions, and the pure computations of class `SmartParking` on the slots table |
| `SmartParking` | the service when one request runs at a time: an action per handler outcome, and a restart |
| `ParkingLot` | what is promised to a driver: no lot is booked beyond its places, and the two events that void the promise for a lot |
| `ParkingDataProofs` | lemmas on the computations of `ParkingData` |
| `SmartParkingProofs` | theorems about `SmartParking` |
| `ParkingServer` | the same handlers on worker threads, one access to shared memory per action |
| `ParkingServerProofs` | theorems about `ParkingServer` with any finite number of workers |
| `ParkingSoloProofs` | `ParkingServer` with one worker implements `SmartParking` |
| `NodesFile` | `saveNodes` and `loadNodes` with rows of any widths, buffers, concurrent savers, crashes, opens and writes that fail |
| `NodesFileProofs` | theorems about `NodesFile` |
| `RoutePlanner` | `loadGraph` and `dijkstra`, one loop iteration per action |
| `RouteDrawing` | `buildVisualPaths` and `buildVisualRoute`: the line drawn for the answer of `dijkstra` |
| `RoutePlannerProofs` | theorems about `RoutePlanner` and `RouteDrawing`: the search is correct, and its routes are drawn right, on every map |
| `DehradunMap` | the shipped map with its drawing points, held against the assumptions of `RoutePlanner` and `RouteDrawing` |
| `Accounts` | `/register` and `/login` over the words of `users.txt`, on worker threads |
| `AccountsProofs` | theorems about `Accounts` |
| `WebPage` | the page, the network and the service: clicks, requests, responses and callbacks |
| `WebPageProofs` | theorems about `WebPage` |
| `MCSmartParking`, `MCParkingServer`, `MCNodesFile`, `MCRoutePlanner`, `MCAccounts`, `MCWebPage` | small instances for TLC |

How they fit together: `ParkingServer` with one worker implements
`SmartParking` (run `solo`, theorem `OneWorkerIsSequential`), and `SmartParking` implements `ParkingLot` (run
`parking`, theorem `PromiseKept`). `WebPage` holds the variables of
`SmartParking` beside its own and answers a request by one of its actions
(`Service == INSTANCE SmartParking`). `ParkingData`
takes the result of route planning as the constant `RoadPath` and assumes of it
(`RouteAssumption`) what `RoutePlanner` delivers (`RouteIsWalk`, theorem
`RoutesAreWalks`).
`ParkingServer` takes `saveNodes` as one step, because a running server never
reads the file; `NodesFile` takes it apart. `WebPage` leaves open whether a
login or a registration succeeds; `Accounts` says when it does. `RouteDrawing`
extends `RoutePlanner` with the drawing of what the search returned.

### How state and actions correspond to the code

*Nodes and requests.* A node is its id; a name is looked up by `getId` and an
unknown one is `NoNode` (-1), as in the code. Requests carry any pair of hours
and any capacity of `HourInputs` and `CapInputs`, which include values the
handlers refuse. A parameter that `stoi` cannot parse raises an exception that
Crow turns into an error response before any state changes: it is one more
refused input.

*Slots.* `slots` is a function on the nodes that have an entry. `Free` is the
reading of `operator[]`: 0 where there is no entry. A ghost or a lot loaded
with no places has no entry; the first `/update` of such a lot inserts it.

*`SmartParking`.* `RouteToDestination`, `RouteToFallback` and `RouteRefused` are
the outcomes of `/route`, `Update` and `UpdateRefused` those of `/update`,
`ListNodes` is `/nodes` and `Restart` the end of the process and the constructor
of a new one. `reply` is the last response with the request it answers.
`granted` and `forgot` are history: the stays confirmed to drivers, who do not
cease to exist when the process does, and the lots for which the table no
longer counts all of them. The slots table has no date, and no operation
returns a place: a confirmed stay counts for as long as the service runs, and
so it does in the model.

*`ParkingServer`.* `thread[w]` holds the program counter and the locals of the
handler worker `w` is running. `HourFree`/`HourTaken` are the reads of
`availableAtTime`, called for the destination and then along the path;
`ReserveTest...`, `ReserveLoad`, `ReserveStore` are the test and the `--` of
`reserveSlot`; `UpdateReadCap` to `UpdateWriteSlot` are the accesses of
`updateCapacity`. In C++ these unsynchronised accesses are data races; the model
resolves them as some interleaving of whole loads and stores of an `int`, which
is what the usual targets do. Insertion into `std::map slots` by the first
`/update` of a lot without places is taken as atomic: what a search of the tree
sees while it is rebalanced is not modelled.

`peak` and `raced` are history: the most places a lot ever had, and the lots two
handlers were at work on at once. A handler is at work on a lot (`Touched`)
from the moment it reads the free places it goes by until its last store.

*`ParkingLot`.* `Book` needs a place in every hour of the stay unless the promise
for the lot is `void`; `SetCapacity` voids it when the new number does not cover
what is confirmed, and `Wipe` where a stay is confirmed. `SmartParking!forgot`
is mapped to `void`: the table of the service loses track of a stay exactly
there and nowhere else.

*`NodesFile`.* An `ofstream` truncates when it opens, formats rows into its own
buffer, and writes the buffer at its own offset when it is full and when it is
closed. A text has rows and a length in bytes (`RowSize` gives those of a row for
each capacity), a stream the offset `at` it has written up to, and the file its
rows, its length and the `owner` that wrote all of it. Where the file fits in the
buffer, a save is one write at offset 0 (`CloseFile`); where it does not
(`FlushBuffer`), it is several. Which it is depends on the C++ library: the
shipped file has 1994 bytes, the buffer of libstdc++ 8192 with glibc and 512 with
MinGW, which built the committed `server.exe`.

`Written` says what the file is after a write. A stream whose file nobody else
truncated or wrote leaves its own text. A first write over a longer text leaves
the end of that text behind its own, in the middle of a row, and what
`loadNodes` makes of such words is left open: any rows (`Misread`), which come
after those written and take their place where they have the same id. A write
behind bytes that are not the stream's own (`Mixes`) leaves a file that may read as
anything, the rows before it included. A piece ends within the row formatted
last; that row counts as written or not, since a row is complete without its
newline. libstdc++ writes the field that overflows along with the buffer, the
model cuts at the buffer's size: in both the cut lies in that row.

A crash loses buffers and keeps what was written. `saveNodes` never asks whether
its stream is good: `OpenFails` leaves the file as it is, `WriteFails` leaves a
first part of what was to be written, and in both cases the administrator is
told "Updated". `torn`, `overlap` and `spoiled` are history: whether a save was ever
cut short or mixed with another, whether the last update started beside another
save, and whether an open or a write failed or pieces were mixed since a save
last started alone.

*`Accounts`.* `operator>>` knows words and not lines, so `file` is the sequence
of words of `users.txt` and row *i* is words 3*i*-2 to 3*i*. A field of the page
is any sequence of words, none and several included, with or without white
space around it (`padded`). The handlers compare the string as entered with
words that were read, so a padded field equals none of them; written to the
file, its white space disappears between the words. `RefuseName`, `PassName`
and `PassUnread` (the file cannot be opened, which reads like an empty one) are
the search of `registerUser`, `AppendRow` and `AppendFails` its append; between
the two any other worker may act. A search is one read: one in several reads
finds what a single one at its end would, since the file is only appended to.
The append of a row is one write; the write goes to
the end of the file as it is then, as `O_APPEND` guarantees on POSIX systems. A
C runtime that seeks to the end and then writes, as Windows has it, could
overwrite a row appended in between; this is not modelled. `loginUser` changes
nothing and is the operator `LoginUser`. `doubted` is history: names whose search
missed a registration under way, or the file, or was for a padded string.

*`WebPage`.* `Click` is one of the buttons in a box that is shown, with whatever
its fields may hold; `Serve` is a handler, run as one action of `SmartParking`;
the `Apply...` actions are the callbacks. Requests are numbered in the order
sent and served in any order, responses are applied in any order.
`LoseRequest` and `LoseResponse` stand for a broken connection and also for a
handler that throws (`stoi` at a blank number): no callback has an error branch,
so for the page all of these are an answer that never comes. `onMap` is the set
of layers on the map; removing one that is not there does nothing. `markers`,
`routeLine` and `transportLine` are the variables of the script with these
names. `listing`, `told` and `lost` are history.

*`RoutePlanner`.* `LoadRow` is the loop of `loadGraph`, `Call` the call that `/route`
makes. `Expand`, `Relax`, `SkipRoad`, `Expanded`, `PopStale` are the
paths through the main loop, `WalkBack` and `ReturnPath` the loop over the
parents. The queue is a set because a pair is pushed only when a label strictly
decreases, so no pair is in it twice.

*`RouteDrawing`.* `DrawnRoads` lists the calls of `addPath`, each with the
drawing points between its two lots. `visualPaths` is the table the constructor
leaves behind and `BuildVisualRoute` the line for a path. `/route` draws the
whole path and, when it falls back, once more the part that ends at the
fallback lot: both are a prefix of what `dijkstra` returned (`Trimmed`), and the
properties are about every prefix.

## Runs

| Run | Checks | Bounds |
|---|---|---|
| `parking` | `TypeOK`, `SlotsWithinCapacity`, `LedgerExact`, `EveryTakenPlaceIsBooked`, `DriverReachesPlace`, `RestartKeepsCapacity`, `ImplementsPromise` | 2 lots (one starts without places) and a ghost, 2 hours, capacities 0-2, 2 stays per lot and hour |
| `cut_and_raise` | `ConfirmedOnlyWhenFree` is violated | as `parking`, 3 stays per lot and hour, no restart |
| `solo` | `ImplementsSequential` | 1 worker, 3 lots in a line, 2 hours, 2 requests |
| `racing` | `TypeOK`, `NoInventedPlaces`, `LedgerExactUnlessRaced`, `BookedWithinPlacesUnlessRaced`, `DriverReachesPlace`, `EveryRequestAnswered` | 2 workers, 2 lots, 1 hour, 3 requests of any kind |
| `routes_only` | `EveryTakenPlaceIsBooked`, `LedgerExactUnlessRaced` | 2 workers, 2 lots with 2 and 1 places, 2 hours, 3 `/route` requests |
| `race_overbooks` | `ConfirmedOnlyWhenFree` is violated | 2 workers, one place per lot |
| `fallback_here` | `FallbackIsElsewhere` is violated | 2 workers, a full destination and a lot with one place, 1 hour, 2 requests |
| `files` | `TypeOK`, `EveryNodeOnFile`, `NodesSurvive`, `SavedUnlessDisturbed`, `SavesEnd` | 2 nodes and one that can be misread, rows of 1 or 3 bytes, a buffer of 4, 2 workers, 3 updates, 2 faults (crashes, failed opens, failed writes) |
| `file_stale` | `SavedWhenQuiet` is violated | the same nodes with rows of one width, 2 workers, 2 updates, no fault |
| `small_maps` | `TypeOK`, `RouteIsWalk`, `RouteIsShortest`, `LabelsCertifyRoute`, `SumsFit`, `ExpandedInOrder`, `SearchEnds`, `DrawnRouteIsRoute`, `ReturnIsDrawnAlongTheWayOut` | all 4096 maps of 4 lots with no road or one of weight 0, 1, 3 between each two; roads drawn through no point, one, two, twice or not at all; every prefix of each route |
| `accounts` | `TypeOK`, `NameTakenOnce`, `RegisteredCanLogIn`, `LoginsStay` | 2 workers, 3 registrations, fields of no, one and two words and a padded word, 1 open that fails |
| `page` | `TypeOK`, `EachLotMarkedOnce`, `LinesOfOneAnswer`, `TakenPlacesAnnounced`, `MarkersFresh` | 2 lots with one place each and a ghost, 1 hour, 4 clicks, 1 message lost |

Why the bounds are enough. Hours are independent of each other except in one
stay, and two hours already separate a stay's first, last and following hour.
Two lots give a destination and a place to fall back to; three (run `solo`) give
the loop of `fallbackParking` a choice. A capacity of 2 allows a cut that leaves a place, a
cut to nothing and a raise. A race here needs two threads on one lot; three
requests let a third one see what the race left behind. The rows
of the file fit in the buffer with one capacity of two digits and outgrow it with
two, so that saves of one and of several writes meet, and longer and shorter
texts. Two faults let a restart or a second failure
meet what the first one left. Two registrations race, and a third one reads what
they wrote; the two-word field shifts every row behind it, the empty one makes
rows too short, and the padded one has the words of another. In the page one click is needed to log in; the other three give
two searches and an update, or three searches, of which the second falls back
and the third is refused, with up to four `/nodes` requests under way beside
them. Four lots contain every way in which a label
can be lowered while its node is queued. The proofs lift the bounds where they
apply. The shipped map is not run: `ShippedMapAssumption`, which TLC evaluates with
`small_maps`, says that it meets what `RoutePlanner` and `RouteDrawing` assume, so
the theorems about them are about it as well.

All runs but those of `SmartParking` have deadlock checking off: requests,
updates, clicks and faults are bounded, and a server without requests, like a
page without clicks or a search that has ended, has nothing to do.

### Fairness

Only liveness uses it. `ParkingServer!FairSpec`: weak fairness of each worker's
next step, because the operating system runs every thread that is ready and a
handler never waits for anything; no client has to send anything.
`NodesFile!FairSpec`: the same for savers, and a stopped server is started
again. `RoutePlanner!FairSpec`: sequential code takes its next step. `WebPage` and
`Accounts` have no liveness property. A message may be lost for good and the
page never asks again, and an overtaken answer leaves old markers or an old
route on the map until the next click: that the page ends up with the newest
state does not hold, and `MarkersFresh` states the part that does.

### What the violated runs show

* `cut_and_raise`: a lot with one place has a confirmed stay. Its capacity is set
  to 0 and back to 1. `updateCapacity` infers 1 reserved place, clamps the free
  count at 0, then infers 0 reserved places from capacity 0 and free 0, and the
  place is free again. In `ParkingLot` such a cut makes the promise `void`, and so does a
  restart over confirmed stays, which has the same effect: `loadNodes` fills the
  table afresh. In `LedgerExact` the history variable `forgot` marks these lots.
* `race_overbooks`: two `/route` requests test the last place before either of
  them takes it. `reserveSlot` skips the hour that is already full, and both
  drivers are told that a place is reserved. `BookedWithinPlacesUnlessRaced` says
  that this and a cut are the only ways to get there: a lot that was never
  `raced` and never `forgot` is not booked beyond its places.
* `fallback_here`: the destination is full when `availableAtTime` looks at it. An
  `/update` gives it a place before `fallbackParking` looks at it once more, as the
  last node of the path. The response then says that the destination is full and
  names it as the place to park. `DriverReachesPlace` holds nevertheless: the
  route leads to the place that is named.
* `file_stale`: of two overlapping saves the one that formatted its rows first
  closes the file last, and both have rows of the same width.
  `SavedUnlessDisturbed` says that, besides a failed open or write, nothing but
  overlapping saves can separate file and memory.
## Proofs

Every safety property that a passing run checks is also a theorem (two of
them under the hypothesis of their run, given below). A theorem holds for all
values of the constants that satisfy the assumptions the modules state: any
map, drawing points, inputs, length of the day, number of workers, rows and
their sizes, buffer size, fields, clicks and faults. The assumptions say that ids, initial
capacities and inputs are numbers of the right kind, that the workers are
finitely many (`WorkersAssumption`), that route planning delivers walks over
lots (`RouteAssumption`, which `RoutesAreWalks` proves of `dijkstra`), that
the weights of a walk that visits each lot once add up to less than `INT_MAX`
(`RoadAssumption`), that the points drawn along a road are ghosts
(`DrawingAssumption`), and that the shipped `users.txt` has no name twice
(`ShippedNamesAssumption`). TLC evaluates each of them in a run.

All proofs have one shape: an invariant that implies the property and is
inductive, a lemma that it holds initially, one step per action that keeps it,
and `PTL` to conclude. TLC checked each inductive invariant on the bounds of the
component's run before it was proved (that of `RoutePlanner` with a smaller
`INT_MAX`, since TLC's own integers are 32 bits wide).

### `SmartParkingProofs`, over the lemmas of `ParkingDataProofs`

| Theorem | Statement |
|---|---|
| `TypeCorrect` | `Spec => []TypeOK` |
| `SlotsStayWithinCapacity` | `Spec => []SlotsWithinCapacity` |
| `LedgerStaysExact` | `Spec => []LedgerExact` |
| `TakenPlacesAreBooked` | `Spec => []EveryTakenPlaceIsBooked` |
| `DriversReachTheirPlaces` | `Spec => []DriverReachesPlace` |
| `RestartIsFaithful` | `Spec => RestartKeepsCapacity` |
| `PromiseKept` | `Spec => ImplementsPromise` |

`SlotsWithinCapacity` is not inductive by itself: a restart fills the table from
the file, so the invariant `IInv` also says that file and memory agree, and the
arithmetic of `updateCapacity` needs that the free count was within the old
capacity. The lemmas `ReserveSlotFree`, `UpdateSlotsFree`, `FreshSlotsFree` and
`RecountBounds` say what each method does to the free places, and one lemma per
action (`BookingKeepsIInv`, `UpdateKeepsIInv`, `RestartKeepsIInv`) uses them.
`PromiseKept` follows the refinement mapping action by action. For a lot whose
promise is not void the ledger is exact, so a place free in every hour of a stay
is the guard of `ParkingLot!Book` (`BookingIsPromised`). An update is a
`SetCapacity` (`UpdateIsPromised`): as long as the ledger of the lot is exact,
what `updateCapacity` computes as reserved is what is confirmed, so it loses
track of a stay exactly when the new capacity is below one of these numbers. A
restart is a `Wipe` (`RestartIsWipe`), since file and memory agree, and every
other action a stutter.

### `ParkingServerProofs` and `ParkingSoloProofs`

| Theorem | Statement | Hypothesis |
|---|---|---|
| `ServerTypeCorrect` | `Spec => []TypeOK` | |
| `NoPlaceIsInvented` | `Spec => []NoInventedPlaces` | |
| `LedgerExact` | `Spec => []LedgerExactUnlessRaced` | |
| `BookingsStayWithinPlaces` | `Spec => []BookedWithinPlacesUnlessRaced` | |
| `TakenPlacesAreBooked` | `Spec => []EveryTakenPlaceIsBooked` | `CapInputs \cap Nat = {}`: no capacity that `/update` accepts |
| `DriversReachTheirPlaces` | `Spec => []DriverReachesPlace` | |
| `OneWorkerIsSequential` | `Spec => ImplementsSequential` | `Workers = {w}` |

`TypeInv` adds to `TypeOK` that every running handler is well formed: its index
is on its path and it stores only where the table has an entry. What a thread
holds in its locals has to be tied to the tables it read them from.

* `PeakInv`: a value loaded for a later store is at most the most places its lot
  ever had, and so are the old and new capacities of an update; a stale store
  puts back an old count, but never more than that.
* `LedgerInv`: two handlers at work on one lot have put it into `raced`, so for
  every other lot there is at most one, and its locals say how far it has got:
  which hours of the stay are still to be decremented, or which hours are still
  to be counted again and from which capacity. `During` states the account of a
  lot for each point of a handler, and an idle lot is `Exact`. Nothing else
  needs what the other threads are doing in this detail.
* `LimitInv` adds that an unspoiled lot is booked within its places. A stay is
  decided on when each of its hours has shown a place at a lot whose account is
  exact, and an `/update` that leaves a lot out of `forgot` found its account
  exact too, so the new capacity covers what is confirmed.
* `BookedInv`: `Owed` counts the stays decided on whose decrement for that hour
  has not been stored. Places not free and those owed together are at most those
  booked, and the same holds of the table a pending store would leave behind. An
  unlocked `--` can lose other threads' decrements; the invariant shows that it
  cannot make one too many. `/update` breaks the property already between its
  stores of the capacity and of the free places, hence the hypothesis, which run
  `routes_only` meets.
* `SoloInv`: with one worker what a handler has read is still so. Hours found
  free are free when they are taken, and what a loop has still to do is exactly what
  `SlotsAhead` and `ReplyAhead` read ahead. Each access is then an action of
  `SmartParking` or a stutter.

### `NodesFileProofs`

| Theorem | Statement |
|---|---|
| `NodesFileTypeCorrect` | `Spec => []TypeOK` |
| `EveryNodeIsOnFile` | `Spec => []EveryNodeOnFile` |
| `NodesDoSurvive` | `Spec => []NodesSurvive` |
| `SavedIfUndisturbed` | `Spec => []SavedUnlessDisturbed` |

A row can be missing from the file while a save is under way, and any other
stream may truncate it again. `CoverInv` says that the file has all rows or some
save is still under way: each save ends with a write that completes its text,
whatever others left behind it, unless it came behind bytes of another, which is
what `spoiled` records. `SurviveInv` is the same for streams that have the file
open, which is what a crash needs: it tears a save exactly if there is one.
`SavedInv` says of a save that runs alone that all bytes in the file are its own,
as many as it has written (`OwnFile`), and that its text agrees with memory. Two
lemmas carry the rest: `FileWritten` says what a write leaves for each case of
`Written`, and `TextFits` that a text of so many rows has no more bytes than as many
of the longest kind, hence that a save is a single write where all rows fit in
the buffer (in `TypeOK`). `NodesFile` combines functions with its own `Over` and
not with `@@` of `TLC`, which the provers do not know.

### `AccountsProofs`

| Theorem | Statement |
|---|---|
| `AccountsTypeCorrect` | `Spec => []TypeOK` |
| `NamesAreTakenOnce` | `Spec => []NameTakenOnce` |
| `RegisteredDoLogIn` | `Spec => []RegisteredCanLogIn` |
| `LoginsDoStay` | `Spec => LoginsStay` |

The lemmas `RowsStay` and those after it say what an append does to rows and to a
search that goes through them from the start: rows that were there keep their
words, and the first row that matches stays the first. `TakenInv` covers the
gap between search and append: a name a pending registration has passed and that
is taken all the same, by a row or by another pending registration, is in
`doubted`. It compares names by their words, whatever white space is around
them, because that is what a row will have.

### `WebPageProofs`

| Theorem | Statement |
|---|---|
| `PageTypeCorrect` | `Spec => []TypeOK` |
| `LotsAreMarkedOnce` | `Spec => []EachLotMarkedOnce` |
| `LinesAreOfOneAnswer` | `Spec => []LinesOfOneAnswer` |
| `TakenPlacesAreAnnounced` | `Spec => []TakenPlacesAnnounced` |
| `MarkersAreFresh` | `Spec => []MarkersFresh` |

All rest on `CoreInv`: each request and each answer has a number of its own,
answers fit the requests they answer, and the layers on the map are those that
the variables of the script name. On it, `MarkersInv` and `LinesInv` follow the
two callbacks that remove what they drew before. `AnnouncedInv` counts an answer
that is still under way as well as those told and lost, so the place that a
handler takes is matched by the response it sends. `FreshInv` is a disjunction
over what is still to come after an update: the load of the markers is lost, has
yet to be served, will be sent by the callback of the update, or was served
after the last change.

### `RoutePlannerProofs`

| Theorem | Statement |
|---|---|
| `PlannerTypeCorrect` | `Spec => []TypeOK` |
| `RoutesAreWalks` | `Spec => []RouteIsWalk` |
| `LabelsCertify` | `Spec => []LabelsCertifyRoute` |
| `SumsDoFit` | `Spec => []SumsFit` |
| `ExpandsInOrder` | `Spec => ExpandedInOrder` |
| `NoWalkIsShorter` | `Spec => []RouteIsLeast` |
| `RoutesAreShortest` | `Spec => []RouteIsShortest` |
| `DrawnRoutesAreRoutes` | `Spec => []DrawnRouteIsRoute` |
| `ReturnsAreDrawnAlongTheWayOut` | `Spec => []ReturnIsDrawnAlongTheWayOut` |

`RoutesAreShortest` is the correctness of `dijkstra` in full: it returns a route
exactly when there is one, and its weight is the one that the reference
definition `ShortestWithin` computes. `RouteIsLeast` says the same without a
reference: no walk over lots from start to destination weighs less than the
route. A walk comes there with its running total (`IsWalk`), so that no sum has
to be computed by recursion.

The invariant `RouteInv` says that the lots can be numbered (`rank`) in the
order they were expanded in. The numbering is not a variable of the model; the
invariant only says that one exists, and the proof of each action names the next
one. A lot with a number keeps its label, is not queued with that label again
(`QueueInv`) and shortens nothing (`RelaxInv`); no lot without a number has a
smaller label (`OrderInv`), which gives `ExpandedInOrder`. The parent of a lot has
a smaller number. Labels alone would not do: along a road of weight 0 they do
not grow, and it is the numbers that show that the walk back visits no lot twice
(`WalkInv`). They also bound the labels (`LightInv`): a label adds up fewer
weights than lots have numbers, hence `SumsFit`. `NoWalkIsShorter` follows from
`LabelsCertifyRoute` by taking the first lot of a walk whose label is above the
total so far.

The reference definition and the drawing are recursive functions on numbers. The
lemma `Recursion` gives such a function its equations, and induction takes the
form of a least counterexample (`LeastNumber`), so neither needs a library
theorem with an operator parameter. Labels are at most what the reference finds
with any number of arcs (`LabelsBelowShortest`). Along the returned route the
reference is at most the running total (`RouteIsAmongWalks`), and the route has
no more arcs than the reference allows, because it visits no lot twice
(`RouteIsShort`). The two bounds meet at the destination. For the drawing, the
table that `addPath` fills has each line in both directions after every call
(`VisualPathsAre`), and a line is followed through the route one road at a time
(`LineFollows`, `LineBackIsLineOut`).

### Only model-checked

Liveness (`EveryRequestAnswered`, `SavesEnd`, `SearchEnds`): fairness and
`ENABLED` are out of the reach of TLAPS here. Induction over the data of the
model is within its reach only where it can be put as a least counterexample
among the numbers, as above. The violated runs stay with TLC by their nature.

## Not modelled

* *Vendored code*: asio (`Files/asio`) and `resources/httplib.h`, some 216,000
  lines that the server's own code never calls (it calls Crow, which may use asio
  but is not in the repository), and `resources/HTTPinCpp.cpp`, an experiment. The models
  cover nearly every state-changing line of the program's own files, which are a
  fraction of a percent of `src/`.
* *Crow* beyond its worker threads; the `/` handler returns `index.html`.
* *The transport graph*: `loadTransport` fills a map that nothing reads.
* *A torn `std::map`*: the first `/update` of a lot without places inserts into
  `slots` while other workers search it. The models take the insertion as
  atomic; what a search of a half-rebalanced tree does is beyond them.
* *Files*: which rows the mixed texts of two savers read as (any may come out), the
  append mode of Windows, other programs writing the files. A drawing point that
  such a reload lost is inserted with default values when `/route` looks it up by
  `sys.nodes[id]` (`Server.cpp:197`); no property depends on it.
* *The page*: several pages or users in `WebPage` (the service sees only their
  requests, and several drivers are in `ParkingServer`), a server restarted
  while a page is open, wording and layout, coordinates.

What does not hold, and no property claims: an overtaken `/route` answer replaces
a newer route, and an error leaves the route of an earlier search on the map. A
name or a password that is registered with white space around it is told
"Registration Success" and does not log in as it was entered, because `users.txt`
has the word alone; and a name that is taken is given out once more when it is
registered with white space around it. `RegisteredCanLogIn` and `NameTakenOnce`
say what remains: the account exists under its words, and a name given out twice
is in `doubted`.

## Plan

1. (done) `ParkingData`, `SmartParking`, `ParkingLot` and their proofs;
   `ParkingServer`; `NodesFile`; `RoutePlanner`; `DehradunMap`.
2. (done) `Accounts`; `WebPage`; faults in `NodesFile`; `raced` and
   `LedgerExactUnlessRaced` in `ParkingServer`; `PromiseKept` without
   assumptions on the environment.
3. (done) Proofs about `ParkingServer` for any number of workers, and with one
   worker the refinement of `SmartParking`.
4. (done) Proofs about `NodesFile`, `Accounts` and `WebPage`.
5. (done) Proofs about `RoutePlanner`, up to the correctness of the search
   against its reference definition.
6. (done) `RouteDrawing`, apart from the shipped map, and its proofs;
   `BookedWithinPlacesUnlessRaced`, the promise to a driver on a server with
   many workers.
7. (done) `NodesFile` with rows of different widths and saves in several writes;
   white space around the fields of `Accounts`; drawing on every small map; what
   a destination that is freed in mid-request does to the response.
