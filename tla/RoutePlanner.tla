---------------------------- MODULE RoutePlanner ----------------------------
(***************************************************************************)
(* Route planning: loadGraph builds the adjacency lists from the rows of   *)
(* adjacency_list.txt, and dijkstra searches them from a start to a        *)
(* destination.  One behaviour is the load and one call of dijkstra; a     *)
(* step is one iteration of one of their loops.                            *)
(*                                                                         *)
(* The priority queue holds pairs <<cost, node>> with the least on top.  A *)
(* pair is pushed when the label of its node strictly decreases, so no     *)
(* pair is pushed twice and the queue is a set.                            *)
(***************************************************************************)
EXTENDS Integers, SequencesExt

CONSTANTS
  Nodes,      \* ids read from nodes_list.txt
  Ghost,      \* the nodes whose ghost flag is 1
  RoadFiles,  \* possible contents of adjacency_list.txt: rows <<u, v, w>>
  Calls       \* the pairs <<src, dest>> dijkstra is called with

INT_MAX == 2147483647

NoNode == -1

Lots == Nodes \ Ghost

ASSUME NodesAssumption == Nodes \subseteq Nat /\ Ghost \subseteq Nodes

\* No sum of weights along a walk that visits a lot at most once overflows.
ASSUME RoadAssumption ==
  /\ IsFiniteSet(Nodes)
  /\ RoadFiles \subseteq Seq(Nat \X Nat \X Nat)
  /\ \A rows \in RoadFiles : \A i \in DOMAIN rows :
       rows[i][3] * Cardinality(Lots) < INT_MAX

ASSUME CallsAssumption == Calls \subseteq Nodes \X Nodes

VARIABLES
  rows,       \* rows of the file that are still to be read
  road,       \* adjacency lists, sequences of pairs <<next, wt>>
  src, dest,  \* arguments of dijkstra
  pc,         \* the loop that runs
  dist,       \* labels of the nodes that are not ghosts
  parent,     \* predecessor of each node that was reached
  pq,         \* the priority queue
  node, at,    \* the node being expanded, and its next road
  path        \* the answer, collected from its end

vars == <<rows, road, src, dest, pc, dist, parent, pq, node, at, path>>

-----------------------------------------------------------------------------

\* map[key] = value
Put(map, key, value) ==
  [k \in DOMAIN map \cup {key} |-> IF k = key THEN value ELSE map[k]]

\* The list of n, or nothing to loop over when !graph.count(n).
Listed(adj, n) == IF n \in DOMAIN adj THEN adj[n] ELSE << >>

\* road[a].push_back({b, w})
AddArc(adj, a, b, w) == Put(adj, a, Append(Listed(adj, a), <<b, w>>))

Roads(n) == Listed(road, n)

\* A queue ordered by id instead of cost.
IsTopById(entry) == entry \in pq /\ \A other \in pq : entry[2] <= other[2]

\* The pair priority_queue.top() returns, ordered by greater<pair<int,int>>.
IsTop(entry) ==
  /\ entry \in pq
  /\ \A other \in pq : \/ entry[1] < other[1]
                       \/ entry[1] = other[1] /\ entry[2] <= other[2]

\* The start is given a parent that is no node.
SourceParent == [n \in {src} |-> NoNode]

NoParents == << >>

\* A label is lowered and not queued.
NotQueued(cost, next) == pq

Queued(cost, next) == pq \cup {<<cost, next>>}

\* The parents of a node are followed from the destination to the start.
Current == IF path = << >> THEN dest ELSE parent[path[Len(path)]]

Init ==
  /\ rows \in RoadFiles
  /\ road = << >>
  /\ src = NoNode /\ dest = NoNode
  /\ pc = "load"
  /\ dist = [n \in Lots |-> INT_MAX]
  /\ parent = NoParents
  /\ pq = {}
  /\ node = NoNode
  /\ at = 1
  /\ path = << >>

\* A row is a road in both directions.
LoadRow ==
  /\ pc = "load"
  /\ rows # << >>
  /\ LET row == Head(rows)
     IN  road' = AddArc(AddArc(road, row[1], row[2], row[3]), row[2], row[1], row[3])
  /\ rows' = Tail(rows)
  /\ UNCHANGED <<src, dest, pc, dist, parent, pq, node, at, path>>

\* The graph is loaded, and dijkstra is called.
Call ==
  /\ pc = "load"
  /\ rows = << >>
  /\ \E call \in Calls : src' = call[1] /\ dest' = call[2]
  /\ pc' = "init"
  /\ UNCHANGED <<rows, road, dist, parent, pq, node, at, path>>

\* A start or destination that is a drawing point has no label.
NoLabel ==
  /\ pc = "init"
  /\ ~ (src \in Lots /\ dest \in Lots)
  /\ pc' = "done"
  /\ UNCHANGED <<rows, road, src, dest, dist, parent, pq, node, at, path>>

\* The start is queued and has no label of its own yet.
PushUnlabelled ==
  /\ pc = "init"
  /\ src \in Lots /\ dest \in Lots
  /\ pq' = {<<0, src>>}
  /\ pc' = "pop"
  /\ UNCHANGED <<rows, road, src, dest, dist, parent, node, at, path>>

PushSource ==
  /\ pc = "init"
  /\ src \in Lots /\ dest \in Lots
  /\ dist' = [dist EXCEPT ![src] = 0]
  /\ pq' = {<<0, src>>}
  /\ pc' = "pop"
  /\ UNCHANGED <<rows, road, src, dest, parent, node, at, path>>

\* A queue entry older than the label of its node is dropped.
PopStale ==
  /\ pc = "pop"
  /\ \E entry \in pq :
       /\ IsTop(entry)
       /\ entry[1] > dist[entry[2]]
       /\ pq' = pq \ {entry}
  /\ UNCHANGED <<rows, road, src, dest, pc, dist, parent, node, at, path>>

Expand ==
  /\ pc = "pop"
  /\ \E entry \in pq :
       /\ IsTop(entry)
       /\ entry[1] <= dist[entry[2]]
       /\ pq' = pq \ {entry}
       /\ node' = entry[2]
  /\ at' = 1
  /\ pc' = "relax"
  /\ UNCHANGED <<rows, road, src, dest, dist, parent, path>>

\* A road that ties with the label counts as shorter.
ShorterOrEqual(next, wt) == next \in Lots /\ dist[node] + wt <= dist[next]

\* A road to a ghost, or to an id that is no node, is not taken.
Shorter(next, wt) == next \in Lots /\ dist[node] + wt < dist[next]

Relax ==
  /\ pc = "relax"
  /\ at \in DOMAIN Roads(node)
  /\ LET next == Roads(node)[at][1]
         cost == dist[node] + Roads(node)[at][2]
     IN  /\ Shorter(next, Roads(node)[at][2])
         /\ dist' = [dist EXCEPT ![next] = cost]
         /\ parent' = Put(parent, next, node)
         /\ pq' = Queued(cost, next)
  /\ at' = at + 1
  /\ UNCHANGED <<rows, road, src, dest, pc, node, path>>

SkipRoad ==
  /\ pc = "relax"
  /\ at \in DOMAIN Roads(node)
  /\ ~ Shorter(Roads(node)[at][1], Roads(node)[at][2])
  /\ at' = at + 1
  /\ UNCHANGED <<rows, road, src, dest, pc, dist, parent, pq, node, path>>

Expanded ==
  /\ pc = "relax"
  /\ at \notin DOMAIN Roads(node)
  /\ pc' = "pop"
  /\ UNCHANGED <<rows, road, src, dest, dist, parent, pq, node, at, path>>

\* The queue is empty: the destination was reached, or there is no route.
QueueEmpty ==
  /\ pc = "pop"
  /\ pq = {}
  /\ pc' = IF dist[dest] = INT_MAX THEN "done" ELSE "walk"
  /\ UNCHANGED <<rows, road, src, dest, dist, parent, pq, node, at, path>>

\* One parent further back.
WalkBack ==
  /\ pc = "walk"
  /\ Current # src
  /\ IF Current \in DOMAIN parent
     THEN /\ path' = Append(path, Current)
          /\ UNCHANGED pc
     ELSE /\ path' = << >>
          /\ pc' = "done"
  /\ UNCHANGED <<rows, road, src, dest, dist, parent, pq, node, at>>

\* The start is not pushed.
ReversedHeadless == Reverse(path)

ReversedPath == Reverse(Append(path, src))

ReturnPath ==
  /\ pc = "walk"
  /\ Current = src
  /\ path' = ReversedPath
  /\ pc' = "done"
  /\ UNCHANGED <<rows, road, src, dest, dist, parent, pq, node, at>>

Next ==
  \/ LoadRow  \/ Call
  \/ NoLabel  \/ PushSource
  \/ PopStale \/ Expand \/ QueueEmpty
  \/ Relax    \/ SkipRoad \/ Expanded
  \/ WalkBack \/ ReturnPath

Spec == Init /\ [][Next]_vars

\* dijkstra is sequential code: while it can take a step, it does.
FairSpec == Spec /\ WF_vars(Next)

-----------------------------------------------------------------------------

\* Weights of the arcs from a to b.
Weights(a, b) == {arc[2] : arc \in {x \in Range(Roads(a)) : x[1] = b}}

\* No walk of no arcs leads anywhere but to the start.
WithoutArcs == [n \in Lots |-> IF n = src THEN 0 ELSE INT_MAX]

\* From the least weights of walks to those of walks with one more arc.
OneArcMore(least) ==
  [n \in Lots |->
     Min({least[n]} \cup
         UNION {{least[m] + w : w \in Weights(m, n)} : m \in {l \in Lots : least[l] < INT_MAX}})]

\* The least weight of a walk over lots with at most k arcs, INT_MAX if none:
\* the definition dijkstra is held against.
ShortestWithin ==
  LET f[k \in Nat] == IF k = 0 THEN WithoutArcs ELSE OneArcMore(f[k - 1])
  IN  f

Shortest == ShortestWithin[Cardinality(Lots)]

\* The weight of a path along the lightest roads between its nodes.
PathWeight(p) ==
  LET sum[j \in 1 .. Len(p)] ==
        IF j = 1 THEN 0 ELSE sum[j - 1] + Min(Weights(p[j - 1], p[j]))
  IN  sum[Len(p)]

\* Shapes of the state.
TypeOK ==
  /\ dist \in [Lots -> 0 .. INT_MAX]
  /\ DOMAIN parent \subseteq Lots /\ Range(parent) \subseteq Lots
  /\ pq \subseteq Nat \X Lots
  /\ node \in Lots \cup {NoNode}
  /\ path \in Seq(Lots)
  /\ pc \in {"load", "init", "pop", "relax", "walk", "done"}

\* What the handler of /route and fallbackParking rely on: an answer of
\* dijkstra is a walk along roads from the start to the destination, over
\* lots only, that visits none of them twice.
RouteIsWalk ==
  pc = "done" /\ path # << >> =>
    /\ path[1] = src /\ path[Len(path)] = dest
    /\ \A j \in DOMAIN path : path[j] \in Lots
    /\ \A j \in 1 .. (Len(path) - 1) : Weights(path[j], path[j + 1]) # {}
    /\ IsInjective(path)

\* dijkstra finds a route exactly when there is one, and no route over lots
\* is shorter.
RouteIsShortest ==
  pc = "done" /\ src \in Lots /\ dest \in Lots =>
    IF path = << >> THEN Shortest[dest] = INT_MAX
                    ELSE PathWeight(path) = Shortest[dest]

\* The certificate of a shortest route, which needs no second computation of it:
\* no road shortens a label or leads on to a lot that was not reached, and each
\* label on the route is the one before it and the weight of a road between the
\* two.
LabelsCertifyRoute ==
  pc = "done" /\ src \in Lots /\ dest \in Lots =>
    /\ dist[src] = 0
    /\ \A a, b \in Lots : \A w \in Weights(a, b) :
         dist[a] < INT_MAX => dist[b] < INT_MAX /\ dist[b] <= dist[a] + w
    /\ path = << >> <=> dist[dest] = INT_MAX
    /\ \A j \in 1 .. (Len(path) - 1) :
         \E w \in Weights(path[j], path[j + 1]) : dist[path[j + 1]] = dist[path[j]] + w

\* dijkstra adds a weight only to the label of a lot it has reached, so the sum
\* never exceeds an int, as the INT_MAX of the others would.
SumsFit ==
  pc = "relax" => \A j \in DOMAIN Roads(node) :
    Roads(node)[j][1] \in Lots => Roads(node)[j][2] < INT_MAX - dist[node]

\* Nodes are expanded in the order of their distance, which is why a label is
\* final once its node is expanded: a label lowered after that, or a queue
\* entry that outlived one, would bring a nearer node back.
ExpandedInOrder ==
  [][pc = "pop" /\ pc' = "relax" /\ node # NoNode => dist[node] <= dist[node']]_vars

\* The search ends and the walk back along the parents ends.
SearchEnds == <>(pc = "done")

=============================================================================
