------------------------- MODULE RoutePlannerProofs -------------------------
(***************************************************************************)
(* Theorems about RoutePlanner, for every map and every call, and about    *)
(* RouteDrawing, for all drawing points.  The proof of the search          *)
(* numbers the lots in the order they are expanded in.  A lot that has a   *)
(* number keeps its label, which is no larger than that of a lot without   *)
(* one, and the parent of a lot has a number smaller than its own: roads   *)
(* of weight 0 put no cycle into the parents.                              *)
(***************************************************************************)
EXTENDS RouteDrawing, FiniteSets, FiniteSetTheorems, SequenceTheorems,
        NaturalsInduction, WellFoundedInduction, TLAPS

\* Adjacency lists.
IsGraph(adj) ==
  /\ DOMAIN adj \subseteq Nat
  /\ \A n \in DOMAIN adj : adj[n] \in Seq(Nat \X Nat)

\* A weight that no walk over lots can add up to more than an int.
IsLight(w) == w * Cardinality(Lots) < INT_MAX

RoadInv ==
  /\ rows \in Seq(Nat \X Nat \X Nat)
  /\ \A i \in DOMAIN rows : IsLight(rows[i][3])
  /\ IsGraph(road)
  /\ \A n \in DOMAIN road : \A i \in DOMAIN road[n] : IsLight(road[n][i][2])

\* Before the search.
FreshInv ==
  /\ dist = [n \in Lots |-> INT_MAX]
  /\ parent = << >> /\ pq = {} /\ node = NoNode /\ path = << >>

Reached == {n \in Lots : dist[n] < INT_MAX}

\* The lots that were expanded, by the numbers they got.
Settled(rank) == {n \in Lots : rank[n] > 0}

IsRank(rank) == rank \in [Lots -> 0 .. Cardinality(Settled(rank))]

\* The label of a lot is that of its parent and the weight of a road.
IsArc(a, b) == \E w \in Weights(a, b) : dist[b] = dist[a] + w

LabelsInv ==
  /\ dist \in [Lots -> 0 .. INT_MAX]
  /\ src \in Lots /\ dest \in Lots
  /\ dist[src] = 0
  /\ parent \in [Reached \ {src} -> Reached]
  /\ \A n \in DOMAIN parent : IsArc(parent[n], n)

QueueInv(rank) ==
  /\ pq \subseteq Nat \X Lots
  /\ \A e \in pq : dist[e[2]] <= e[1] /\ e[1] < INT_MAX
  /\ \A e \in pq : rank[e[2]] > 0 => dist[e[2]] < e[1]
  /\ \A n \in Reached \ Settled(rank) : <<dist[n], n>> \in pq

\* The last lot expanded has the largest label of those that were, and nothing
\* that is still to come has a smaller one.
OrderInv(rank) ==
  /\ IsRank(rank)
  /\ Settled(rank) \subseteq Reached
  /\ \A n \in DOMAIN parent :
       /\ rank[parent[n]] > 0
       /\ rank[n] > 0 => rank[parent[n]] < rank[n]
  /\ node = NoNode => Settled(rank) = {}
  /\ node # NoNode =>
       /\ node \in Settled(rank)
       /\ \A n \in Settled(rank) : dist[n] <= dist[node]
       /\ \A n \in Lots \ Settled(rank) : dist[node] <= dist[n]

\* The roads of n before the i-th shorten no label.
RelaxedTo(n, i) ==
  \A j \in DOMAIN Roads(n) : j < i /\ Roads(n)[j][1] \in Lots =>
    dist[Roads(n)[j][1]] <= dist[n] + Roads(n)[j][2]

Relaxed(n) ==
  \A j \in DOMAIN Roads(n) : Roads(n)[j][1] \in Lots =>
    dist[Roads(n)[j][1]] <= dist[n] + Roads(n)[j][2]

RelaxInv(rank) ==
  /\ \A n \in Settled(rank) : (pc = "relax" /\ n = node) \/ Relaxed(n)
  /\ pc = "relax" => node # NoNode /\ at \in Nat \ {0} /\ RelaxedTo(node, at)

\* Labels grow with the numbers slowly enough to fit an int.
LightInv(rank) ==
  /\ \A n \in Settled(rank) :
       dist[n] * Cardinality(Lots) <= (INT_MAX - 1) * (rank[n] - 1)
  /\ \A n \in DOMAIN parent : rank[n] = 0 =>
       dist[n] * Cardinality(Lots) <= (INT_MAX - 1) * rank[parent[n]]

\* The walk back goes down the numbers.
WalkInv(rank) ==
  /\ path \in Seq(Lots)
  /\ pc # "walk" => path = << >>
  /\ pc = "walk" =>
       /\ pq = {}
       /\ dest \in Reached
       /\ path # << >> => path[1] = dest
       /\ \A j \in DOMAIN path : path[j] \in DOMAIN parent
       /\ \A j \in 1 .. (Len(path) - 1) : parent[path[j]] = path[j + 1]
       /\ \A i, j \in DOMAIN path : i < j => rank[path[j]] < rank[path[i]]

SearchInv(rank) ==
  QueueInv(rank) /\ OrderInv(rank) /\ RelaxInv(rank) /\ LightInv(rank) /\ WalkInv(rank)

RouteInv ==
  /\ TypeOK
  /\ RoadInv
  /\ pc \in {"load", "init"} => FreshInv
  /\ pc \in {"pop", "relax", "walk"} =>
       LabelsInv /\ \E rank \in [Lots -> Nat] : SearchInv(rank)
  /\ pc = "done" => RouteIsWalk /\ LabelsCertifyRoute
-----------------------------------------------------------------------------
(* Numbers *)

\* A set of numbers has a least member.
LEMMA LeastNumber ==
  ASSUME NEW T, T \subseteq Nat, T # {}
  PROVE  \E j \in T : \A i \in T : j <= i
<1>1. PICK j \in T : \A i \in T : ~ (<<i, j>> \in OpToRel(<, Nat))
  BY NatLessThanWellFounded, WFMin
<1>2. OpToRel(<, Nat) = {p \in Nat \X Nat : p[1] < p[2]}
  BY DEF OpToRel
<1>3. \A i \in T : ~ (i < j)
  BY <1>1, <1>2
<1> QED
  BY <1>3

LEMMA MinIsLeast ==
  ASSUME NEW T, T \subseteq Nat, T # {}
  PROVE  Min(T) \in T /\ \A i \in T : Min(T) <= i
<1>1. \E j \in T : \A i \in T : j <= i
  BY LeastNumber
<1> QED
  BY <1>1 DEF Min

\* The values a loop goes through that starts with first and has step[k] for
\* its k-th iteration.
Iterates(f, S, first, step) ==
  /\ f \in [Nat -> S]
  /\ f[0] = first
  /\ \A k \in Nat \ {0} : f[k] = step[k][f[k - 1]]

\* Every loop goes through some values, which is what makes a recursive
\* function well defined.
LEMMA Recursion ==
  ASSUME NEW S, NEW first \in S, NEW step \in [Nat -> [S -> S]]
  PROVE  \E f : Iterates(f, S, first, step)
<1> DEFINE Upto(n, g) == /\ g \in [0 .. n -> S]
                         /\ g[0] = first
                         /\ \A k \in 1 .. n : g[k] = step[k][g[k - 1]]
           Undefined == {n \in Nat : ~ \E g : Upto(n, g)}
<1>1. Undefined = {}
  <2> SUFFICES ASSUME Undefined # {} PROVE FALSE
    OBVIOUS
  <2>1. PICK n \in Undefined : \A i \in Undefined : n <= i
    BY LeastNumber
  <2>2. n # 0
    <3>1. Upto(0, [k \in 0 .. 0 |-> first])
      OBVIOUS
    <3> QED
      BY <3>1
  <2>3. n \in Nat /\ n - 1 \in Nat
    BY <2>2
  <2>4. PICK g : Upto(n - 1, g)
    <3>1. n - 1 \in Nat /\ ~ (n <= n - 1)
      BY <2>3
    <3> HIDE DEF Upto
    <3> QED
      BY <2>1, <3>1
  <2> DEFINE h == [k \in 0 .. n |-> IF k = n THEN step[n][g[n - 1]] ELSE g[k]]
  <2>5. h \in [0 .. n -> S]
    BY <2>3, <2>4
  <2>6. h[0] = first
    BY <2>2, <2>3, <2>4
  <2>7. ASSUME NEW k \in 1 .. n PROVE h[k] = step[k][h[k - 1]]
    <3>1. k - 1 \in 0 .. n /\ k - 1 # n /\ k \in 0 .. n
      BY <2>3
    <3>2. h[k - 1] = g[k - 1]
      BY <3>1
    <3>3. CASE k = n
      BY <3>1, <3>2, <3>3
    <3>4. CASE k # n
      BY <2>3, <2>4, <3>1, <3>2, <3>4
    <3> QED
      BY <3>3, <3>4
  <2>8. Upto(n, h)
    BY <2>5, <2>6, <2>7
  <2> QED
    BY <2>8
<1>2. ASSUME NEW n \in Nat, NEW m \in Nat, NEW g, NEW h, Upto(n, g), Upto(m, h), n <= m
      PROVE  \A k \in 0 .. n : g[k] = h[k]
  <2> DEFINE Differ == {k \in 0 .. n : g[k] # h[k]}
  <2> SUFFICES ASSUME Differ # {} PROVE FALSE
    OBVIOUS
  <2>1. PICK k \in Differ : \A i \in Differ : k <= i
    <3>1. Differ \subseteq Nat
      OBVIOUS
    <3> HIDE DEF Differ
    <3> QED
      BY <3>1, LeastNumber
  <2>2. k # 0
    BY <1>2
  <2>3. k \in 1 .. n /\ k \in 1 .. m /\ k - 1 \in 0 .. n /\ ~ (k <= k - 1)
    BY <1>2, <2>2
  <2>4. g[k - 1] = h[k - 1]
    BY <2>1, <2>3
  <2> QED
    BY <1>2, <2>3, <2>4
<1> DEFINE upto == [n \in Nat |-> CHOOSE g : Upto(n, g)]
           f == [n \in Nat |-> upto[n][n]]
<1>3. \A n \in Nat : Upto(n, upto[n])
  <2>1. \A n \in Nat : \E g : Upto(n, g)
    BY <1>1
  <2> HIDE DEF Upto
  <2> QED
    BY <2>1
<1> HIDE DEF upto
<1>4. \A n \in Nat : f[n] \in S
  BY <1>3
<1>5. f[0] = first
  BY <1>3
<1>6. ASSUME NEW k \in Nat \ {0} PROVE f[k] = step[k][f[k - 1]]
  <2>1. k - 1 \in Nat /\ k \in Nat /\ k - 1 <= k /\ k \in 1 .. k /\ k - 1 \in 0 .. (k - 1)
    OBVIOUS
  <2>2. Upto(k - 1, upto[k - 1]) /\ Upto(k, upto[k])
    BY <1>3, <2>1
  <2>3. upto[k][k] = step[k][upto[k][k - 1]]
    BY <2>1, <2>2
  <2>4. upto[k - 1][k - 1] = upto[k][k - 1]
    <3> HIDE DEF Upto
    <3> QED
      BY <1>2, <2>1, <2>2
  <2> QED
    BY <2>1, <2>3, <2>4
<1> HIDE DEF f
<1>7. f \in [Nat -> S]
  BY <1>4 DEF f
<1> QED
  BY <1>5, <1>6, <1>7 DEF Iterates
-----------------------------------------------------------------------------
(* The graph *)

LEMMA IntMax == INT_MAX \in Nat /\ 0 < INT_MAX
BY SMT DEF INT_MAX

LEMMA LotsAreIds ==
  /\ Lots \subseteq Nat
  /\ NoNode \notin Lots
  /\ IsFiniteSet(Lots)
  /\ Cardinality(Lots) \in Nat
<1>1. Lots \subseteq Nat /\ NoNode \notin Lots
  BY NodesAssumption DEF Lots, NoNode
<1>2. IsFiniteSet(Lots)
  BY RoadAssumption, FS_Subset DEF Lots
<1> QED
  BY <1>1, <1>2, FS_CardinalityType

LEMMA ListIsArcs ==
  ASSUME NEW adj, IsGraph(adj), NEW n
  PROVE  Listed(adj, n) \in Seq(Nat \X Nat)
BY DEF IsGraph, Listed

LEMMA ArcAdded ==
  ASSUME NEW adj, IsGraph(adj), \A n \in DOMAIN adj : \A i \in DOMAIN adj[n] : IsLight(adj[n][i][2]),
         NEW a \in Nat, NEW b \in Nat, NEW w \in Nat, IsLight(w)
  PROVE  /\ IsGraph(AddArc(adj, a, b, w))
         /\ \A n \in DOMAIN AddArc(adj, a, b, w) : \A i \in DOMAIN AddArc(adj, a, b, w)[n] :
              IsLight(AddArc(adj, a, b, w)[n][i][2])
<1> DEFINE old == Listed(adj, a)
           list == Append(old, <<b, w>>)
           more == AddArc(adj, a, b, w)
<1>1. old \in Seq(Nat \X Nat) /\ \A i \in DOMAIN old : IsLight(old[i][2])
  BY ListIsArcs DEF Listed
<1>2. <<b, w>> \in Nat \X Nat
  OBVIOUS
<1>3. /\ list \in Seq(Nat \X Nat)
      /\ DOMAIN list = 1 .. (Len(old) + 1)
      /\ \A i \in DOMAIN list : list[i] = IF i <= Len(old) THEN old[i] ELSE <<b, w>>
  BY <1>1, <1>2
<1>4. \A i \in DOMAIN list : IsLight(list[i][2])
  <2> SUFFICES ASSUME NEW i \in DOMAIN list PROVE IsLight(list[i][2])
    OBVIOUS
  <2>1. CASE i <= Len(old)
    <3>1. i \in DOMAIN old /\ list[i] = old[i]
      BY <1>1, <1>3, <2>1
    <3> QED
      BY <3>1, <1>1
  <2>2. CASE ~ (i <= Len(old))
    <3>1. list[i] = <<b, w>>
      BY <1>3, <2>2
    <3>2. list[i][2] = w
      BY <3>1
    <3> QED
      BY <3>2
  <2> QED
    BY <2>1, <2>2
<1>5. /\ DOMAIN more = DOMAIN adj \cup {a}
      /\ more[a] = list
      /\ \A n \in DOMAIN adj : n # a => more[n] = adj[n]
  BY DEF AddArc, Put
<1> HIDE DEF list, more, old
<1>6. IsGraph(more)
  BY <1>3, <1>5 DEF IsGraph
<1>7. \A n \in DOMAIN more : \A i \in DOMAIN more[n] : IsLight(more[n][i][2])
  BY <1>4, <1>5
<1> QED
  BY <1>6, <1>7 DEF more

LEMMA WeightsAre ==
  ASSUME RoadInv
  PROVE  /\ \A n : Roads(n) \in Seq(Nat \X Nat)
         /\ \A n : \A i \in DOMAIN Roads(n) :
              /\ Roads(n)[i][1] \in Nat /\ Roads(n)[i][2] \in Nat
              /\ IsLight(Roads(n)[i][2])
              /\ Roads(n)[i][2] \in Weights(n, Roads(n)[i][1])
         /\ \A n, m : \A w \in Weights(n, m) : \E i \in DOMAIN Roads(n) : Roads(n)[i] = <<m, w>>
<1>1. \A n : Roads(n) \in Seq(Nat \X Nat)
  BY ListIsArcs DEF RoadInv, Roads
<1>2. \A n : \A i \in DOMAIN Roads(n) : IsLight(Roads(n)[i][2])
  BY DEF RoadInv, Roads, Listed
<1>3. ASSUME NEW n, NEW i \in DOMAIN Roads(n)
      PROVE  Roads(n)[i] \in Nat \X Nat
  BY <1>1
<1>4. ASSUME NEW n, NEW i \in DOMAIN Roads(n)
      PROVE  Roads(n)[i][2] \in Weights(n, Roads(n)[i][1])
  <2>1. Roads(n)[i] \in {x \in Range(Roads(n)) : x[1] = Roads(n)[i][1]}
    BY DEF Range
  <2> QED
    BY <2>1 DEF Weights
<1>5. ASSUME NEW n, NEW m, NEW w \in Weights(n, m)
      PROVE  \E i \in DOMAIN Roads(n) : Roads(n)[i] = <<m, w>>
  <2>1. PICK i \in DOMAIN Roads(n) : Roads(n)[i][1] = m /\ Roads(n)[i][2] = w
    BY DEF Weights, Range
  <2>2. Roads(n)[i] = <<m, w>>
    BY <1>3, <2>1
  <2> QED
    BY <2>2
<1> QED
  BY <1>1, <1>2, <1>3, <1>4, <1>5
-----------------------------------------------------------------------------
(* Before the search *)

LEMMA InitRoutes == Init => RouteInv
<1> SUFFICES ASSUME Init PROVE RouteInv
  OBVIOUS
<1>1. RoadInv
  <2>1. rows \in Seq(Nat \X Nat \X Nat) /\ \A i \in DOMAIN rows : IsLight(rows[i][3])
    BY RoadAssumption DEF Init, IsLight
  <2> QED
    BY <2>1 DEF Init, RoadInv, IsGraph
<1>2. FreshInv
  BY DEF Init, FreshInv, NoParents
<1>3. TypeOK
  <2>1. dist \in [Lots -> 0 .. INT_MAX]
    BY IntMax DEF Init
  <2>2. DOMAIN parent = {} /\ Range(parent) = {}
    BY DEF Init, NoParents, Range
  <2> QED
    BY <2>1, <2>2 DEF Init, TypeOK
<1> QED
  BY <1>1, <1>2, <1>3 DEF RouteInv, Init

LEMMA LoadRowKeeps ==
  ASSUME RouteInv, LoadRow
  PROVE  RouteInv'
<1> DEFINE row  == Head(rows)
           once == AddArc(road, row[1], row[2], row[3])
<1>1. rows \in Seq(Nat \X Nat \X Nat) /\ rows # << >>
  BY DEF RouteInv, RoadInv, LoadRow
<1>2. row \in Nat \X Nat \X Nat /\ row = rows[1] /\ 1 \in DOMAIN rows
  BY <1>1
<1>3. row[1] \in Nat /\ row[2] \in Nat /\ row[3] \in Nat /\ IsLight(row[3])
  BY <1>2 DEF RouteInv, RoadInv
<1>4. rows' \in Seq(Nat \X Nat \X Nat) /\ \A i \in DOMAIN rows' : IsLight(rows'[i][3])
  <2>1. rows' = Tail(rows)
    BY DEF LoadRow
  <2>2. rows' \in Seq(Nat \X Nat \X Nat)
    BY <1>1, <2>1
  <2>3. \A i \in DOMAIN rows' : i + 1 \in DOMAIN rows /\ rows'[i] = rows[i + 1]
    BY <1>1, <2>1
  <2> QED
    BY <2>2, <2>3 DEF RouteInv, RoadInv
<1>5. /\ IsGraph(once)
      /\ \A n \in DOMAIN once : \A i \in DOMAIN once[n] : IsLight(once[n][i][2])
  BY <1>3, ArcAdded DEF RouteInv, RoadInv
<1>6. road' = AddArc(once, row[2], row[1], row[3])
  BY DEF LoadRow
<1> HIDE DEF once, row
<1>7. IsGraph(road') /\ \A n \in DOMAIN road' : \A i \in DOMAIN road'[n] : IsLight(road'[n][i][2])
  BY <1>3, <1>5, <1>6, ArcAdded
<1>8. RoadInv'
  BY <1>4, <1>7 DEF RoadInv, IsGraph, IsLight
<1>9. UNCHANGED <<src, dest, pc, dist, parent, pq, node, at, path>> /\ pc = "load"
  BY DEF LoadRow
<1>10. FreshInv'
  BY <1>9 DEF RouteInv, FreshInv
<1> QED
  BY <1>8, <1>9, <1>10 DEF RouteInv, TypeOK

LEMMA CallKeeps ==
  ASSUME RouteInv, Call
  PROVE  RouteInv'
BY DEF RouteInv, Call, TypeOK, FreshInv, RoadInv, IsGraph

LEMMA NoLabelKeeps ==
  ASSUME RouteInv, NoLabel
  PROVE  RouteInv'
BY DEF RouteInv, NoLabel, TypeOK, FreshInv, RoadInv, IsGraph, RouteIsWalk, LabelsCertifyRoute

LEMMA PushSourceKeeps ==
  ASSUME RouteInv, PushSource
  PROVE  RouteInv'
<1> DEFINE rank == [n \in Lots |-> 0]
<1>1. /\ FreshInv /\ src \in Lots /\ dest \in Lots
      /\ dist' = [dist EXCEPT ![src] = 0] /\ pq' = {<<0, src>>} /\ pc' = "pop"
      /\ UNCHANGED <<rows, road, src, dest, parent, node, at, path>>
  BY DEF RouteInv, PushSource
<1>2. /\ dist' \in [Lots -> 0 .. INT_MAX] /\ dist'[src] = 0
      /\ \A n \in Lots \ {src} : dist'[n] = INT_MAX
  BY <1>1, IntMax DEF FreshInv
<1>3. Reached' = {src} /\ DOMAIN parent' = {}
  BY <1>1, <1>2, IntMax DEF Reached, FreshInv
<1>4. LabelsInv'
  BY <1>1, <1>2, <1>3 DEF LabelsInv, FreshInv
<1>5. Settled(rank) = {} /\ rank \in [Lots -> Nat] /\ IsRank(rank)
  <2>1. Settled(rank) = {} /\ rank \in [Lots -> Nat]
    BY DEF Settled
  <2>2. Cardinality(Settled(rank)) = 0
    BY <2>1, FS_EmptySet
  <2> QED
    BY <2>1, <2>2 DEF IsRank
<1>6. node' = NoNode /\ path' = << >> /\ pq' \subseteq Nat \X Lots
  BY <1>1, LotsAreIds DEF FreshInv
<1> HIDE DEF rank
<1>7. SearchInv(rank)'
  <2>1. QueueInv(rank)'
    BY <1>1, <1>2, <1>3, <1>5, <1>6, LotsAreIds, IntMax DEF QueueInv, Settled
  <2>2. OrderInv(rank)'
    BY <1>3, <1>5, <1>6 DEF OrderInv
  <2>3. RelaxInv(rank)'
    BY <1>1, <1>5 DEF RelaxInv
  <2>4. LightInv(rank)'
    BY <1>3, <1>5 DEF LightInv
  <2>5. WalkInv(rank)'
    BY <1>1, <1>6 DEF WalkInv
  <2> QED
    BY <2>1, <2>2, <2>3, <2>4, <2>5 DEF SearchInv
<1>8. TypeOK'
  <2>1. Range(parent)' = {}
    BY <1>3 DEF Range
  <2> QED
    BY <1>1, <1>2, <1>3, <1>6, <2>1 DEF RouteInv, TypeOK
<1>9. RoadInv'
  BY <1>1 DEF RouteInv, RoadInv, IsGraph
<1> QED
  BY <1>1, <1>4, <1>5, <1>7, <1>8, <1>9 DEF RouteInv
-----------------------------------------------------------------------------
(* The search *)

\* While the graph stays, so do roads and weights.
LEMMA GraphStays ==
  ASSUME UNCHANGED road
  PROVE  /\ \A n : Roads(n)' = Roads(n)
         /\ \A n, m : Weights(n, m)' = Weights(n, m)
<1>1. \A n : Roads(n)' = Roads(n)
  BY DEF Roads
<1> QED
  BY <1>1 DEF Weights

\* A lot that is settled keeps its number when another one gets the next.
LEMMA NextRank ==
  ASSUME NEW rank, IsRank(rank), NEW n \in Lots, rank[n] = 0
  PROVE  LET next == [rank EXCEPT ![n] = Cardinality(Settled(rank)) + 1] IN
         /\ IsRank(next)
         /\ next \in [Lots -> Nat]
         /\ Settled(next) = Settled(rank) \cup {n}
         /\ next[n] = Cardinality(Settled(rank)) + 1
         /\ \A m \in Lots : m # n => next[m] = rank[m]
         /\ \A m \in Lots : rank[m] \in Nat /\ rank[m] < next[n]
<1> DEFINE k    == Cardinality(Settled(rank))
           next == [rank EXCEPT ![n] = k + 1]
<1>1. IsFiniteSet(Settled(rank)) /\ k \in Nat
  BY LotsAreIds, FS_Subset, FS_CardinalityType DEF Settled
<1>2. rank \in [Lots -> 0 .. k]
  BY DEF IsRank
<1> HIDE DEF k
<1>3. /\ next \in [Lots -> 0 .. (k + 1)]
      /\ next[n] = k + 1
      /\ \A m \in Lots : m # n => next[m] = rank[m]
      /\ \A m \in Lots : rank[m] \in Nat /\ rank[m] < next[n]
  BY <1>1, <1>2
<1>4. Settled(next) = Settled(rank) \cup {n}
  BY <1>1, <1>3 DEF Settled
<1>5. n \notin Settled(rank)
  BY DEF Settled
<1>6. Cardinality(Settled(next)) = k + 1
  BY <1>1, <1>4, <1>5, FS_AddElement DEF k
<1>7. IsRank(next)
  BY <1>3, <1>6 DEF IsRank
<1>8. next \in [Lots -> Nat]
  BY <1>1, <1>3
<1> QED
  BY <1>3, <1>4, <1>7, <1>8 DEF k

LEMMA PopStaleKeeps ==
  ASSUME RouteInv, PopStale
  PROVE  RouteInv'
<1>1. LabelsInv /\ pc = "pop" /\ pc' = "pop"
      /\ UNCHANGED <<rows, road, src, dest, dist, parent, node, at, path>>
  BY DEF RouteInv, PopStale
<1>2. PICK entry \in pq : entry[1] > dist[entry[2]] /\ pq' = pq \ {entry}
  BY DEF PopStale
<1>3. PICK rank \in [Lots -> Nat] : SearchInv(rank)
  BY <1>1 DEF RouteInv
<1>4. Reached' = Reached
  BY <1>1 DEF Reached
<1>5. LabelsInv'
  BY <1>1, <1>4, GraphStays DEF LabelsInv, IsArc
<1>6. QueueInv(rank)'
  <2>1. \A n \in Reached \ Settled(rank) : <<dist[n], n>> \in pq /\ <<dist[n], n>> # entry
    BY <1>1, <1>2, <1>3 DEF SearchInv, QueueInv, Reached, LabelsInv
  <2> QED
    BY <1>1, <1>2, <1>3, <1>4, <2>1 DEF SearchInv, QueueInv
<1>7. OrderInv(rank)'
  BY <1>1, <1>3, <1>4 DEF SearchInv, OrderInv
<1>8. RelaxInv(rank)'
  BY <1>1, <1>3, GraphStays DEF SearchInv, RelaxInv, Relaxed
<1>9. LightInv(rank)' /\ WalkInv(rank)'
  BY <1>1, <1>3, <1>4 DEF SearchInv, LightInv, WalkInv
<1>10. TypeOK' /\ RoadInv'
  BY <1>1, <1>2 DEF RouteInv, TypeOK, RoadInv, IsGraph, Range
<1> QED
  BY <1>1, <1>5, <1>6, <1>7, <1>8, <1>9, <1>10 DEF RouteInv, SearchInv

LEMMA ExpandKeeps ==
  ASSUME RouteInv, Expand
  PROVE  RouteInv'
<1>1. /\ LabelsInv /\ pc = "pop" /\ pc' = "relax" /\ at' = 1
      /\ UNCHANGED <<rows, road, src, dest, dist, parent, path>>
  BY DEF RouteInv, Expand
<1>2. PICK entry \in pq : /\ IsTop(entry) /\ entry[1] <= dist[entry[2]]
                          /\ pq' = pq \ {entry} /\ node' = entry[2]
  BY DEF Expand
<1>3. PICK rank \in [Lots -> Nat] : SearchInv(rank)
  BY <1>1 DEF RouteInv
<1> DEFINE n    == entry[2]
           next == [rank EXCEPT ![n] = Cardinality(Settled(rank)) + 1]
<1>4. n \in Lots /\ entry[1] \in Nat /\ entry = <<entry[1], n>>
  BY <1>3 DEF SearchInv, QueueInv
<1>5. dist[n] = entry[1] /\ dist[n] < INT_MAX /\ rank[n] = 0 /\ n \in Reached
  BY <1>1, <1>2, <1>3, <1>4, IntMax DEF SearchInv, QueueInv, LabelsInv, Reached
<1>6. /\ IsRank(next)
      /\ next \in [Lots -> Nat]
      /\ Settled(next) = Settled(rank) \cup {n}
      /\ next[n] = Cardinality(Settled(rank)) + 1
      /\ \A m \in Lots : m # n => next[m] = rank[m]
      /\ \A m \in Lots : rank[m] \in Nat /\ rank[m] < next[n]
  BY <1>3, <1>4, <1>5, NextRank DEF SearchInv, OrderInv
<1> HIDE DEF next
<1>7. Reached' = Reached
  BY <1>1 DEF Reached
<1>8. LabelsInv'
  BY <1>1, <1>7, GraphStays DEF LabelsInv, IsArc
<1>9. \A m \in Lots \ Settled(rank) : dist[n] <= dist[m]
  <2> SUFFICES ASSUME NEW m \in Lots \ Settled(rank) PROVE dist[n] <= dist[m]
    OBVIOUS
  <2>1. CASE m \in Reached
    <3>1. <<dist[m], m>> \in pq
      BY <1>3, <2>1 DEF SearchInv, QueueInv
    <3>2. entry[1] <= dist[m]
      BY <1>1, <1>2, <1>4, <3>1 DEF IsTop, LabelsInv
    <3> QED
      BY <1>5, <3>2
  <2>2. CASE m \notin Reached
    BY <1>1, <1>5, <2>2, IntMax DEF Reached, LabelsInv
  <2> QED
    BY <2>1, <2>2
<1>10. QueueInv(next)'
  <2>1. \A e \in pq \ {entry} : e[2] = n => dist[n] < e[1]
    BY <1>1, <1>3, <1>4, <1>5 DEF SearchInv, QueueInv, LabelsInv
  <2>2. \A e \in pq' : next[e[2]] > 0 => dist[e[2]] < e[1]
    BY <1>2, <1>3, <1>6, <2>1 DEF SearchInv, QueueInv
  <2>3. \A m \in Reached \ Settled(next) : <<dist[m], m>> \in pq'
    BY <1>2, <1>3, <1>4, <1>6 DEF SearchInv, QueueInv
  <2> QED
    BY <1>1, <1>2, <1>3, <1>7, <2>2, <2>3 DEF SearchInv, QueueInv
<1>11. OrderInv(next)'
  <2>1. Settled(next) \subseteq Reached
    BY <1>3, <1>5, <1>6 DEF SearchInv, OrderInv
  <2>2. ASSUME NEW m \in DOMAIN parent
        PROVE  next[parent[m]] > 0 /\ (next[m] > 0 => next[parent[m]] < next[m])
    <3>1. m \in Lots /\ parent[m] \in Lots
      BY <1>1 DEF LabelsInv, Reached
    <3>2. rank[parent[m]] > 0 /\ (rank[m] > 0 => rank[parent[m]] < rank[m])
      BY <1>3 DEF SearchInv, OrderInv
    <3>3. next[parent[m]] = rank[parent[m]]
      BY <1>5, <1>6, <3>1, <3>2
    <3> QED
      BY <1>6, <3>1, <3>2, <3>3
  <2>3. \A m \in Settled(next) : dist[m] <= dist[n]
    <3>1. ASSUME NEW m \in Settled(rank) PROVE dist[m] <= dist[n]
      <4>1. node # NoNode /\ node \in Lots /\ dist[m] <= dist[node]
        BY <1>3 DEF SearchInv, OrderInv, Settled
      <4>2. n \notin Settled(rank)
        BY <1>5 DEF Settled
      <4>3. dist[node] <= dist[n]
        BY <1>3, <1>4, <4>1, <4>2 DEF SearchInv, OrderInv
      <4>4. m \in Lots
        BY DEF Settled
      <4> QED
        BY <1>1, <1>4, <4>1, <4>3, <4>4, IntMax DEF LabelsInv
    <3> QED
      BY <1>1, <1>4, <1>6, <3>1, IntMax DEF LabelsInv
  <2>4. \A m \in Lots \ Settled(next) : dist[n] <= dist[m]
    BY <1>6, <1>9
  <2>5. n # NoNode
    BY <1>4, LotsAreIds
  <2> QED
    BY <1>1, <1>2, <1>6, <1>7, <2>1, <2>2, <2>3, <2>4, <2>5 DEF OrderInv
<1>12. RelaxInv(next)'
  <2>1. \A m \in Settled(rank) : Relaxed(m)
    BY <1>1, <1>3 DEF SearchInv, RelaxInv
  <2>2. \A m \in Settled(next) : m = node' \/ Relaxed(m)'
    BY <1>1, <1>2, <1>6, <2>1, GraphStays DEF Relaxed
  <2>3. RelaxedTo(node, at)'
    <3>1. Roads(node') \in Seq(Nat \X Nat)
      BY WeightsAre DEF RouteInv
    <3>2. \A j \in DOMAIN Roads(node') : ~ (j < 1)
      BY <3>1
    <3>3. Roads(node)' = Roads(node')
      BY <1>1 DEF Roads
    <3> QED
      BY <1>1, <3>2, <3>3 DEF RelaxedTo
  <2>4. node' # NoNode
    BY <1>2, <1>4, LotsAreIds
  <2> QED
    BY <1>1, <2>2, <2>3, <2>4 DEF RelaxInv
<1>13. LightInv(next)'
  <2>1. Cardinality(Settled(rank)) \in Nat
    BY LotsAreIds, FS_Subset, FS_CardinalityType DEF Settled
  <2>2. dist[n] * Cardinality(Lots) <= (INT_MAX - 1) * (next[n] - 1)
    <3>1. CASE n = src
      <4>1. dist[n] * Cardinality(Lots) = 0
        BY <1>1, <3>1, LotsAreIds DEF LabelsInv
      <4>2. next[n] - 1 \in Nat /\ INT_MAX - 1 \in Nat
        BY <1>6, <2>1, IntMax
      <4>3. \A a, b \in Nat : 0 <= a * b
        OBVIOUS
      <4> QED
        BY <4>1, <4>2, <4>3
    <3>2. CASE n # src
      <4>1. n \in DOMAIN parent /\ parent[n] \in Lots
        BY <1>1, <1>5, <3>2 DEF LabelsInv, Reached
      <4>2. dist[n] * Cardinality(Lots) <= (INT_MAX - 1) * rank[parent[n]]
        BY <1>3, <1>5, <4>1 DEF SearchInv, LightInv
      <4>3. rank[parent[n]] <= next[n] - 1 /\ rank[parent[n]] \in Nat /\ next[n] - 1 \in Nat
        BY <1>6, <2>1, <4>1
      <4>4. \A a, b, c \in Nat : a <= b => c * a <= c * b
        BY SMT
      <4>5. (INT_MAX - 1) * rank[parent[n]] <= (INT_MAX - 1) * (next[n] - 1)
        BY <4>3, <4>4, IntMax
      <4>6. dist[n] * Cardinality(Lots) \in Nat
        BY <1>1, <1>4, LotsAreIds, IntMax DEF LabelsInv
      <4>7. \A a, b, c \in Int : a <= b /\ b <= c => a <= c
        OBVIOUS
      <4>8. INT_MAX - 1 \in Int /\ (INT_MAX - 1) * rank[parent[n]] \in Int
            /\ (INT_MAX - 1) * (next[n] - 1) \in Int
        BY <4>3, IntMax
      <4> QED
        BY <4>2, <4>5, <4>6, <4>7, <4>8
    <3> QED
      BY <3>1, <3>2
  <2>3. \A m \in Settled(next) :
          dist[m] * Cardinality(Lots) <= (INT_MAX - 1) * (next[m] - 1)
    BY <1>3, <1>6, <2>2 DEF SearchInv, LightInv, Settled
  <2>4. ASSUME NEW m \in DOMAIN parent, next[m] = 0
        PROVE  dist[m] * Cardinality(Lots) <= (INT_MAX - 1) * next[parent[m]]
    <3>1. m \in Lots /\ parent[m] \in Lots /\ rank[parent[m]] > 0
      BY <1>1, <1>3 DEF LabelsInv, Reached, SearchInv, OrderInv
    <3>2. rank[m] = 0 /\ next[parent[m]] = rank[parent[m]]
      BY <1>5, <1>6, <2>1, <2>4, <3>1
    <3> QED
      BY <1>3, <3>2 DEF SearchInv, LightInv
  <2> QED
    BY <1>1, <2>3, <2>4 DEF LightInv
<1>14. WalkInv(next)'
  BY <1>1, <1>3 DEF SearchInv, WalkInv
<1>15. TypeOK' /\ RoadInv'
  BY <1>1, <1>2, <1>4 DEF RouteInv, TypeOK, RoadInv, IsGraph, Range
<1>16. SearchInv(next)'
  BY <1>10, <1>11, <1>12, <1>13, <1>14 DEF SearchInv
<1> QED
  BY <1>1, <1>6, <1>8, <1>15, <1>16 DEF RouteInv
\* A label as large as the numbers of lots allow takes one more weight.
LEMMA OneMoreWeight ==
  ASSUME NEW d \in Nat, NEW w \in Nat, NEW c \in Nat, NEW m \in Nat, NEW r \in Nat \ {0},
         d * c <= m * (r - 1), w * c <= m
  PROVE  (d + w) * c <= m * r
<1>1. (d + w) * c = d * c + w * c
  OBVIOUS
<1>2. m * r = m * (r - 1) + m
  OBVIOUS
<1>3. \A x, y, u, v \in Int : x <= u /\ y <= v => x + y <= u + v
  OBVIOUS
<1>4. d * c \in Int /\ w * c \in Int /\ m * (r - 1) \in Int
  OBVIOUS
<1> QED
  BY <1>1, <1>2, <1>3, <1>4

\* A sum that may be as large as the highest number, times m, is no larger than m.
LEMMA NoMoreThan ==
  ASSUME NEW s \in Nat, NEW c \in Nat, NEW m \in Nat, NEW r \in Nat \ {0},
         r <= c, s * c <= m * r
  PROVE  s <= m
<1> SUFFICES ASSUME m + 1 <= s PROVE FALSE
  OBVIOUS
<1>1. \A x, y, z \in Nat : x <= y => x * z <= y * z /\ z * x <= z * y
  OBVIOUS
<1>2. (m + 1) * c <= s * c /\ m * r <= m * c
  BY <1>1
<1>3. (m + 1) * c = m * c + c
  OBVIOUS
<1>4. m * c \in Nat /\ m * r \in Nat /\ s * c \in Nat
  OBVIOUS
<1> QED
  BY <1>2, <1>3, <1>4

\* Of a settled lot and one of its roads.
LEMMA NextRoad ==
  ASSUME RouteInv, pc \in {"pop", "relax", "walk"},
         NEW rank \in [Lots -> Nat], SearchInv(rank),
         NEW n \in Settled(rank), NEW i \in DOMAIN Roads(n)
  PROVE  LET next == Roads(n)[i][1]
             wt   == Roads(n)[i][2]
         IN  /\ n \in Lots /\ n \in Reached
             /\ rank[n] \in Nat \ {0}
             /\ dist[n] \in Nat
             /\ wt \in Nat /\ wt \in Weights(n, next)
             /\ (dist[n] + wt) * Cardinality(Lots) <= (INT_MAX - 1) * rank[n]
             /\ dist[n] + wt < INT_MAX
<1> DEFINE next == Roads(n)[i][1]
           wt   == Roads(n)[i][2]
           c    == Cardinality(Lots)
<1>1. LabelsInv /\ RoadInv
  BY DEF RouteInv
<1>2. IsRank(rank) /\ Settled(rank) \subseteq Reached
  BY DEF SearchInv, OrderInv
<1>3. n \in Lots /\ n \in Reached /\ dist[n] \in Nat
  BY <1>1, <1>2, IntMax DEF Settled, LabelsInv
<1>4. rank[n] \in Nat \ {0}
  BY <1>2, <1>3 DEF Settled
<1>5. rank[n] <= c
  <2>1. /\ Cardinality(Settled(rank)) \in Nat
        /\ Cardinality(Settled(rank)) <= Cardinality(Lots)
    BY LotsAreIds, FS_Subset, FS_CardinalityType DEF Settled
  <2>2. rank[n] <= Cardinality(Settled(rank))
    BY <1>2, <1>3, <2>1 DEF IsRank
  <2> QED
    BY <1>4, <2>1, <2>2, LotsAreIds
<1>6. wt \in Nat /\ IsLight(wt) /\ wt \in Weights(n, next)
  BY <1>1, WeightsAre
<1>7. wt * c <= INT_MAX - 1
  <2>1. wt * c < INT_MAX /\ wt * c \in Nat
    BY <1>6, LotsAreIds DEF IsLight
  <2> QED
    BY <2>1, IntMax
<1>8. dist[n] * c <= (INT_MAX - 1) * (rank[n] - 1)
  BY <1>2 DEF SearchInv, LightInv
<1>9. INT_MAX - 1 \in Nat
  BY IntMax
<1>10. (dist[n] + wt) * c <= (INT_MAX - 1) * rank[n]
  BY <1>3, <1>4, <1>6, <1>7, <1>8, <1>9, LotsAreIds, OneMoreWeight
<1>11. dist[n] + wt \in Nat
  BY <1>3, <1>6
<1>12. dist[n] + wt <= INT_MAX - 1
  BY <1>4, <1>5, <1>9, <1>10, <1>11, LotsAreIds, NoMoreThan
<1>13. dist[n] + wt < INT_MAX
  BY <1>11, <1>12, IntMax
<1> QED
  BY <1>3, <1>4, <1>6, <1>10, <1>13

LEMMA RelaxKeeps ==
  ASSUME RouteInv, Relax
  PROVE  RouteInv'
<1> DEFINE next == Roads(node)[at][1]
           wt   == Roads(node)[at][2]
           cost == dist[node] + wt
<1>1. /\ LabelsInv /\ pc = "relax" /\ pc' = "relax" /\ at' = at + 1
      /\ at \in DOMAIN Roads(node)
      /\ next \in Lots /\ cost < dist[next]
      /\ dist' = [dist EXCEPT ![next] = cost]
      /\ parent' = Put(parent, next, node)
      /\ pq' = pq \cup {<<cost, next>>}
      /\ UNCHANGED <<rows, road, src, dest, node, path>>
  BY DEF RouteInv, Relax, Shorter, Queued
<1>2. PICK rank \in [Lots -> Nat] : SearchInv(rank)
  BY <1>1 DEF RouteInv
<1>3. at \in Nat \ {0} /\ node \in Settled(rank) /\ node # NoNode
  BY <1>1, <1>2 DEF SearchInv, RelaxInv, OrderInv
<1>4. /\ node \in Lots /\ node \in Reached /\ dist[node] \in Nat
      /\ rank[node] \in Nat \ {0}
      /\ wt \in Nat /\ wt \in Weights(node, next)
      /\ cost * Cardinality(Lots) <= (INT_MAX - 1) * rank[node]
  BY <1>1, <1>2, <1>3, NextRoad
<1> HIDE DEF next, wt
<1>5. dist \in [Lots -> 0 .. INT_MAX] /\ cost \in Nat /\ cost < INT_MAX /\ dist[node] <= cost
  BY <1>1, <1>4, IntMax DEF LabelsInv
<1>6. rank[next] = 0 /\ next # node /\ next # src /\ next \notin Settled(rank)
  <2>1. next # src
    BY <1>1, <1>5 DEF LabelsInv
  <2>2. next \notin Settled(rank)
    <3>1. ~ (dist[next] <= dist[node])
      BY <1>1, <1>4, <1>5, IntMax
    <3> QED
      BY <1>2, <1>3, <3>1 DEF SearchInv, OrderInv
  <2>3. rank[next] = 0
    BY <1>1, <1>2, <2>2 DEF Settled
  <2> QED
    BY <1>3, <2>1, <2>2, <2>3
<1> HIDE DEF cost
<1>7. /\ dist' \in [Lots -> 0 .. INT_MAX] /\ dist'[next] = cost
      /\ \A n \in Lots : n # next => dist'[n] = dist[n]
      /\ \A n \in Lots : dist'[n] <= dist[n]
  BY <1>1, <1>5, IntMax
<1>8. Reached' = Reached \cup {next}
  BY <1>1, <1>5, <1>7 DEF Reached
<1>9. /\ DOMAIN parent' = DOMAIN parent \cup {next}
      /\ parent'[next] = node
      /\ \A n \in DOMAIN parent : n # next => parent'[n] = parent[n]
      /\ parent' = [n \in DOMAIN parent' |-> parent'[n]]
  BY <1>1 DEF Put
<1>10. \A n \in DOMAIN parent : /\ n \in Lots /\ parent[n] \in Reached /\ parent[n] \in Lots
                               /\ parent[n] # next
                               /\ IsArc(parent[n], n)
  BY <1>1, <1>2, <1>6 DEF LabelsInv, Reached, SearchInv, OrderInv
<1>11. LabelsInv'
  <2>1. parent' \in [Reached' \ {src} -> Reached']
    <3>1. DOMAIN parent' = Reached' \ {src}
      BY <1>1, <1>6, <1>8, <1>9 DEF LabelsInv
    <3>2. \A n \in DOMAIN parent' : parent'[n] \in Reached'
      BY <1>4, <1>8, <1>9, <1>10
    <3> QED
      BY <1>9, <3>1, <3>2
  <2>2. ASSUME NEW n \in DOMAIN parent' PROVE IsArc(parent[n], n)'
    <3>1. CASE n = next
      <4>1. dist'[next] = dist'[node] + wt
        BY <1>4, <1>6, <1>7 DEF cost
      <4> QED
        BY <1>1, <1>4, <1>9, <3>1, <4>1, GraphStays DEF IsArc
    <3>2. CASE n # next
      <4>1. n \in DOMAIN parent
        BY <1>9, <3>2
      <4>2. dist'[n] = dist[n] /\ dist'[parent[n]] = dist[parent[n]] /\ parent'[n] = parent[n]
        BY <1>7, <1>9, <1>10, <3>2, <4>1
      <4> QED
        BY <1>1, <1>10, <4>1, <4>2, GraphStays DEF IsArc
    <3> QED
      BY <3>1, <3>2
  <2>3. dist'[src] = 0
    BY <1>1, <1>6, <1>7 DEF LabelsInv
  <2> QED
    BY <1>1, <1>7, <2>1, <2>2, <2>3 DEF LabelsInv
<1>12. QueueInv(rank)'
  <2>1. \A e \in pq : e[1] \in Nat /\ e[2] \in Lots
    BY <1>2 DEF SearchInv, QueueInv
  <2>2. \A e \in pq : dist'[e[2]] <= e[1] /\ e[1] < INT_MAX
    BY <1>2, <1>5, <1>7, <2>1, IntMax DEF SearchInv, QueueInv
  <2>3. \A e \in pq : rank[e[2]] > 0 => dist'[e[2]] < e[1]
    BY <1>2, <1>6, <1>7, <2>1 DEF SearchInv, QueueInv
  <2>4. \A n \in Reached' \ Settled(rank) : <<dist'[n], n>> \in pq'
    <3> SUFFICES ASSUME NEW n \in Reached' \ Settled(rank) PROVE <<dist'[n], n>> \in pq'
      OBVIOUS
    <3>1. CASE n = next
      BY <1>1, <1>7, <3>1
    <3>2. CASE n # next
      <4>1. n \in Reached \ Settled(rank) /\ dist'[n] = dist[n]
        BY <1>7, <1>8, <3>2 DEF Reached
      <4> QED
        BY <1>1, <1>2, <4>1 DEF SearchInv, QueueInv
    <3> QED
      BY <3>1, <3>2
  <2>5. pq' \subseteq Nat \X Lots
    BY <1>1, <1>2, <1>5 DEF SearchInv, QueueInv
  <2>6. \A e \in pq' : dist'[e[2]] <= e[1] /\ e[1] < INT_MAX /\ (rank[e[2]] > 0 => dist'[e[2]] < e[1])
    <3> SUFFICES ASSUME NEW e \in pq'
                 PROVE  /\ dist'[e[2]] <= e[1] /\ e[1] < INT_MAX
                        /\ rank[e[2]] > 0 => dist'[e[2]] < e[1]
      OBVIOUS
    <3>1. CASE e \in pq
      BY <2>2, <2>3, <3>1
    <3>2. CASE e = <<cost, next>>
      BY <1>5, <1>6, <1>7, <3>2
    <3> QED
      BY <1>1, <3>1, <3>2
  <2> QED
    BY <2>4, <2>5, <2>6 DEF QueueInv
<1>13. OrderInv(rank)'
  <2>1. Settled(rank) \subseteq Reached'
    BY <1>2, <1>8 DEF SearchInv, OrderInv
  <2>2. ASSUME NEW n \in DOMAIN parent'
        PROVE  rank[parent'[n]] > 0 /\ (rank[n] > 0 => rank[parent'[n]] < rank[n])
    <3>1. CASE n = next
      BY <1>4, <1>6, <1>9, <3>1
    <3>2. CASE n # next
      BY <1>2, <1>9, <3>2 DEF SearchInv, OrderInv
    <3> QED
      BY <3>1, <3>2
  <2>3. \A n \in Settled(rank) : dist'[n] <= dist'[node]
    BY <1>2, <1>4, <1>3, <1>6, <1>7 DEF SearchInv, OrderInv, Settled
  <2>4. \A n \in Lots \ Settled(rank) : dist'[node] <= dist'[n]
    <3> SUFFICES ASSUME NEW n \in Lots \ Settled(rank) PROVE dist'[node] <= dist'[n]
      OBVIOUS
    <3>1. dist'[node] = dist[node]
      BY <1>4, <1>6, <1>7
    <3>2. CASE n = next
      BY <1>5, <1>7, <3>1, <3>2
    <3>3. CASE n # next
      BY <1>2, <1>3, <1>7, <3>1, <3>3 DEF SearchInv, OrderInv
    <3> QED
      BY <3>2, <3>3
  <2> QED
    BY <1>1, <1>2, <1>3, <2>1, <2>2, <2>3, <2>4 DEF SearchInv, OrderInv
<1>14. RelaxInv(rank)'
  <2>1. ASSUME NEW n \in Settled(rank), n # node PROVE Relaxed(n)'
    <3>1. Relaxed(n) /\ dist'[n] = dist[n] /\ n \in Lots /\ dist[n] \in Nat
      BY <1>2, <1>5, <1>6, <1>7, <2>1, IntMax DEF SearchInv, RelaxInv, Settled
    <3>2. ASSUME NEW j \in DOMAIN Roads(n), Roads(n)[j][1] \in Lots
          PROVE  dist'[Roads(n)[j][1]] <= dist'[n] + Roads(n)[j][2]
      <4>1. dist[Roads(n)[j][1]] <= dist[n] + Roads(n)[j][2]
        BY <3>1, <3>2 DEF Relaxed
      <4>2. Roads(n)[j][2] \in Nat
        BY WeightsAre DEF RouteInv
      <4>3. /\ dist'[Roads(n)[j][1]] <= dist[Roads(n)[j][1]]
            /\ dist'[Roads(n)[j][1]] \in 0 .. INT_MAX
            /\ dist[Roads(n)[j][1]] \in 0 .. INT_MAX
        BY <1>5, <1>7, <3>2
      <4> QED
        BY <3>1, <4>1, <4>2, <4>3, IntMax
    <3> QED
      BY <1>1, <3>2, GraphStays DEF Relaxed
  <2>2. RelaxedTo(node, at)'
    <3>1. dist'[node] = dist[node] /\ dist[node] \in Nat
      BY <1>4, <1>6, <1>7
    <3>2. ASSUME NEW j \in DOMAIN Roads(node), j < at + 1, Roads(node)[j][1] \in Lots
          PROVE  dist'[Roads(node)[j][1]] <= dist'[node] + Roads(node)[j][2]
      <4>1. CASE j = at
        <5>1. dist'[next] = dist'[node] + wt /\ dist'[next] \in Nat
          BY <1>5, <1>7, <3>1 DEF cost
        <5>2. dist'[next] <= dist'[node] + wt
          BY <5>1
        <5> QED
          BY <4>1, <5>2 DEF next, wt
      <4>2. CASE j # at
        <5>1. Roads(node) \in Seq(Nat \X Nat) /\ Roads(node)[j][2] \in Nat
          BY WeightsAre DEF RouteInv
        <5>2. j < at
          BY <1>3, <3>2, <4>2, <5>1
        <5>3. RelaxedTo(node, at)
          BY <1>1, <1>2 DEF SearchInv, RelaxInv
        <5>4. dist[Roads(node)[j][1]] <= dist[node] + Roads(node)[j][2]
          BY <3>2, <5>2, <5>3 DEF RelaxedTo
        <5>5. /\ dist'[Roads(node)[j][1]] <= dist[Roads(node)[j][1]]
              /\ dist'[Roads(node)[j][1]] \in 0 .. INT_MAX
              /\ dist[Roads(node)[j][1]] \in 0 .. INT_MAX
          BY <1>5, <1>7, <3>2
        <5> QED
          BY <3>1, <5>1, <5>4, <5>5, IntMax
      <4> QED
        BY <4>1, <4>2
    <3>3. Roads(node)' = Roads(node)
      BY <1>1 DEF Roads
    <3> QED
      BY <1>1, <3>2, <3>3 DEF RelaxedTo
  <2> QED
    BY <1>1, <1>3, <2>1, <2>2 DEF RelaxInv
<1>15. LightInv(rank)'
  <2>1. \A n \in Settled(rank) :
          dist'[n] * Cardinality(Lots) <= (INT_MAX - 1) * (rank[n] - 1)
    BY <1>2, <1>6, <1>7 DEF SearchInv, LightInv, Settled
  <2>2. ASSUME NEW n \in DOMAIN parent', rank[n] = 0
        PROVE  dist'[n] * Cardinality(Lots) <= (INT_MAX - 1) * rank[parent'[n]]
    <3>1. CASE n = next
      BY <1>4, <1>7, <1>9, <3>1 DEF cost
    <3>2. CASE n # next
      BY <1>2, <1>7, <1>9, <1>10, <2>2, <3>2 DEF SearchInv, LightInv
    <3> QED
      BY <3>1, <3>2
  <2> QED
    BY <2>1, <2>2 DEF LightInv
<1>16. WalkInv(rank)'
  BY <1>1, <1>2 DEF SearchInv, WalkInv
<1>17. TypeOK'
  <2>1. DOMAIN parent' \subseteq Lots /\ Range(parent)' \subseteq Lots
    BY <1>1, <1>4, <1>9, <1>10 DEF Range
  <2>2. pq' \subseteq Nat \X Lots
    BY <1>12 DEF QueueInv
  <2> QED
    BY <1>1, <1>7, <2>1, <2>2 DEF RouteInv, TypeOK
<1>18. RoadInv'
  BY <1>1 DEF RouteInv, RoadInv, IsGraph
<1>19. SearchInv(rank)'
  BY <1>12, <1>13, <1>14, <1>15, <1>16 DEF SearchInv
<1> QED
  BY <1>1, <1>11, <1>17, <1>18, <1>19 DEF RouteInv
LEMMA SkipRoadKeeps ==
  ASSUME RouteInv, SkipRoad
  PROVE  RouteInv'
<1> DEFINE next == Roads(node)[at][1]
           wt   == Roads(node)[at][2]
<1>1. /\ LabelsInv /\ pc = "relax" /\ pc' = "relax" /\ at' = at + 1
      /\ at \in DOMAIN Roads(node)
      /\ ~ (next \in Lots /\ dist[node] + wt < dist[next])
      /\ UNCHANGED <<rows, road, src, dest, dist, parent, pq, node, path>>
  BY DEF RouteInv, SkipRoad, Shorter
<1>2. PICK rank \in [Lots -> Nat] : SearchInv(rank)
  BY <1>1 DEF RouteInv
<1>3. at \in Nat \ {0} /\ node # NoNode /\ node \in Settled(rank)
  BY <1>1, <1>2 DEF SearchInv, RelaxInv, OrderInv
<1>4. dist[node] \in Nat /\ wt \in Nat
  BY <1>1, <1>2, <1>3, NextRoad
<1>5. Reached' = Reached
  BY <1>1 DEF Reached
<1>6. LabelsInv'
  BY <1>1, <1>5, GraphStays DEF LabelsInv, IsArc
<1>7. QueueInv(rank)' /\ OrderInv(rank)' /\ LightInv(rank)' /\ WalkInv(rank)'
  BY <1>1, <1>2, <1>5 DEF SearchInv, QueueInv, OrderInv, LightInv, WalkInv
<1>8. RelaxInv(rank)'
  <2>1. \A n \in Settled(rank) \ {node} : Relaxed(n)'
    BY <1>1, <1>2, GraphStays DEF SearchInv, RelaxInv, Relaxed
  <2>2. ASSUME NEW j \in DOMAIN Roads(node), j < at + 1, Roads(node)[j][1] \in Lots
        PROVE  dist[Roads(node)[j][1]] <= dist[node] + Roads(node)[j][2]
    <3>1. CASE j = at
      <4>1. next \in Lots /\ dist[next] \in Nat
        BY <1>1, <2>2, <3>1, IntMax DEF LabelsInv
      <4>2. dist[next] <= dist[node] + wt
        BY <1>1, <1>4, <4>1
      <4> QED
        BY <3>1, <4>2
    <3>2. CASE j # at
      <4>1. Roads(node) \in Seq(Nat \X Nat)
        BY WeightsAre DEF RouteInv
      <4>2. j < at
        BY <1>3, <2>2, <3>2, <4>1
      <4> QED
        BY <1>1, <1>2, <2>2, <4>2 DEF SearchInv, RelaxInv, RelaxedTo
    <3> QED
      BY <3>1, <3>2
  <2>3. Roads(node)' = Roads(node)
    BY <1>1 DEF Roads
  <2>4. RelaxedTo(node, at)'
    BY <1>1, <2>2, <2>3 DEF RelaxedTo
  <2> QED
    BY <1>1, <1>3, <2>1, <2>4 DEF RelaxInv
<1>9. TypeOK' /\ RoadInv'
  BY <1>1 DEF RouteInv, TypeOK, RoadInv, IsGraph, Range
<1>10. SearchInv(rank)'
  BY <1>7, <1>8 DEF SearchInv
<1> QED
  BY <1>1, <1>6, <1>9, <1>10 DEF RouteInv

LEMMA ExpandedKeeps ==
  ASSUME RouteInv, Expanded
  PROVE  RouteInv'
<1>1. /\ LabelsInv /\ pc = "relax" /\ pc' = "pop" /\ at \notin DOMAIN Roads(node)
      /\ UNCHANGED <<rows, road, src, dest, dist, parent, pq, node, at, path>>
  BY DEF RouteInv, Expanded
<1>2. PICK rank \in [Lots -> Nat] : SearchInv(rank)
  BY <1>1 DEF RouteInv
<1>3. Reached' = Reached
  BY <1>1 DEF Reached
<1>4. LabelsInv'
  BY <1>1, <1>3, GraphStays DEF LabelsInv, IsArc
<1>5. QueueInv(rank)' /\ OrderInv(rank)' /\ LightInv(rank)' /\ WalkInv(rank)'
  BY <1>1, <1>2, <1>3 DEF SearchInv, QueueInv, OrderInv, LightInv, WalkInv
<1>6. RelaxInv(rank)'
  <2>1. Roads(node) \in Seq(Nat \X Nat) /\ at \in Nat \ {0} /\ RelaxedTo(node, at)
    BY <1>1, <1>2, WeightsAre DEF RouteInv, SearchInv, RelaxInv
  <2>2. \A j \in DOMAIN Roads(node) : j < at
    BY <1>1, <2>1
  <2>3. Relaxed(node)
    BY <2>1, <2>2 DEF Relaxed, RelaxedTo
  <2>4. \A n \in Settled(rank) : Relaxed(n)
    BY <1>2, <2>3 DEF SearchInv, RelaxInv
  <2> QED
    BY <1>1, <2>4, GraphStays DEF RelaxInv, Relaxed
<1>7. TypeOK' /\ RoadInv'
  BY <1>1 DEF RouteInv, TypeOK, RoadInv, IsGraph, Range
<1>8. SearchInv(rank)'
  BY <1>5, <1>6 DEF SearchInv
<1> QED
  BY <1>1, <1>4, <1>7, <1>8 DEF RouteInv

\* When the queue is empty, no road shortens a label.
LEMMA LabelsAreFinal ==
  ASSUME RouteInv, pc \in {"pop", "walk"}, pq = {}, NEW rank \in [Lots -> Nat], SearchInv(rank)
  PROVE  /\ Reached = Settled(rank)
         /\ \A a, b \in Lots : \A w \in Weights(a, b) :
              dist[a] < INT_MAX => dist[b] < INT_MAX /\ dist[b] <= dist[a] + w
<1>1. LabelsInv /\ RoadInv
  BY DEF RouteInv
<1>2. Reached = Settled(rank)
  BY DEF SearchInv, QueueInv, OrderInv
<1>3. ASSUME NEW a \in Lots, NEW b \in Lots, NEW w \in Weights(a, b), dist[a] < INT_MAX
      PROVE  dist[b] < INT_MAX /\ dist[b] <= dist[a] + w
  <2>1. a \in Settled(rank)
    BY <1>2, <1>3 DEF Reached
  <2>2. Relaxed(a)
    BY <2>1 DEF SearchInv, RelaxInv
  <2>3. PICK i \in DOMAIN Roads(a) : Roads(a)[i] = <<b, w>>
    BY <1>1, WeightsAre
  <2>4. dist[a] + w < INT_MAX /\ dist[a] \in Nat /\ w \in Nat
    BY <2>1, <2>3, NextRoad
  <2>5. dist[b] <= dist[a] + w
    BY <2>2, <2>3 DEF Relaxed
  <2>6. dist[b] \in Nat
    BY <1>1, IntMax DEF LabelsInv
  <2> QED
    BY <2>4, <2>5, <2>6, IntMax
<1> QED
  BY <1>2, <1>3

LEMMA QueueEmptyKeeps ==
  ASSUME RouteInv, QueueEmpty
  PROVE  RouteInv'
<1>1. /\ LabelsInv /\ pc = "pop" /\ pq = {}
      /\ pc' = IF dist[dest] = INT_MAX THEN "done" ELSE "walk"
      /\ UNCHANGED <<rows, road, src, dest, dist, parent, pq, node, at, path>>
  BY DEF RouteInv, QueueEmpty
<1>2. PICK rank \in [Lots -> Nat] : SearchInv(rank)
  BY <1>1 DEF RouteInv
<1>3. Reached' = Reached /\ path = << >>
  BY <1>1, <1>2 DEF Reached, SearchInv, WalkInv
<1>4. LabelsInv'
  BY <1>1, <1>3, GraphStays DEF LabelsInv, IsArc
<1>5. TypeOK' /\ RoadInv'
  BY <1>1 DEF RouteInv, TypeOK, RoadInv, IsGraph, Range
<1>6. CASE dist[dest] = INT_MAX
  <2>1. RouteIsWalk'
    BY <1>1, <1>3 DEF RouteIsWalk
  <2>2. LabelsCertifyRoute'
    <3>1. \A a, b \in Lots : \A w \in Weights(a, b) :
            dist[a] < INT_MAX => dist[b] < INT_MAX /\ dist[b] <= dist[a] + w
      BY <1>1, <1>2, LabelsAreFinal
    <3>2. \A j \in 1 .. (Len(path) - 1) : FALSE
      BY <1>3
    <3> QED
      BY <1>1, <1>3, <1>6, <3>1, <3>2, GraphStays DEF LabelsCertifyRoute, LabelsInv
  <2>3. pc' = "done"
    BY <1>1, <1>6
  <2> QED
    BY <1>5, <2>1, <2>2, <2>3 DEF RouteInv
<1>7. CASE dist[dest] # INT_MAX
  <2>1. pc' = "walk"
    BY <1>1, <1>7
  <2>2. dest \in Reached'
    BY <1>1, <1>3, <1>7, IntMax DEF LabelsInv, Reached
  <2>3. QueueInv(rank)' /\ OrderInv(rank)' /\ LightInv(rank)'
    BY <1>1, <1>2, <1>3 DEF SearchInv, QueueInv, OrderInv, LightInv
  <2>4. RelaxInv(rank)'
    BY <1>1, <1>2, <2>1, GraphStays DEF SearchInv, RelaxInv, Relaxed
  <2>5. WalkInv(rank)'
    BY <1>1, <1>2, <1>3, <2>1, <2>2 DEF SearchInv, WalkInv
  <2>6. SearchInv(rank)'
    BY <2>3, <2>4, <2>5 DEF SearchInv
  <2> QED
    BY <1>4, <1>5, <2>1, <2>6 DEF RouteInv
<1> QED
  BY <1>6, <1>7

-----------------------------------------------------------------------------
(* The walk back *)

\* The lot the walk has come to is reached, and its number is smaller than those
\* of all lots before it.
LEMMA CurrentGoesDown ==
  ASSUME RouteInv, pc = "walk", NEW rank \in [Lots -> Nat], SearchInv(rank)
  PROVE  /\ Current \in Lots /\ Current \in Reached
         /\ Current # src => Current \in DOMAIN parent
         /\ path # << >> => parent[path[Len(path)]] = Current
         /\ \A i \in DOMAIN path : rank[Current] < rank[path[i]]
<1>1. LabelsInv /\ WalkInv(rank) /\ OrderInv(rank) /\ pq = {}
  BY DEF RouteInv, SearchInv, WalkInv
<1>2. Reached = Settled(rank)
  BY <1>1, LabelsAreFinal
<1>3. CASE path = << >>
  BY <1>1, <1>3 DEF Current, WalkInv, Reached, LabelsInv
<1>4. CASE path # << >>
  <2> DEFINE last == path[Len(path)]
  <2>1. Current = parent[last] /\ Len(path) \in DOMAIN path /\ Len(path) \in Nat
    BY <1>1, <1>4 DEF Current, WalkInv
  <2>2. last \in DOMAIN parent
    BY <1>1, <2>1 DEF WalkInv
  <2>3. last \in Reached /\ Current \in Reached /\ last \in Lots /\ Current \in Lots
    BY <1>1, <2>1, <2>2 DEF LabelsInv, Reached
  <2>4. rank[last] > 0
    BY <1>2, <2>3 DEF Settled
  <2>5. rank[Current] < rank[last]
    BY <1>1, <2>1, <2>2, <2>4 DEF OrderInv
  <2>6. \A i \in DOMAIN path : rank[Current] < rank[path[i]]
    <3> SUFFICES ASSUME NEW i \in DOMAIN path PROVE rank[Current] < rank[path[i]]
      OBVIOUS
    <3>1. path \in Seq(Lots) /\ path[i] \in Lots /\ i \in 1 .. Len(path)
      BY <1>1 DEF WalkInv
    <3>2. CASE i = Len(path)
      BY <2>5, <3>2
    <3>3. CASE i # Len(path)
      <4>1. i < Len(path)
        BY <2>1, <3>1, <3>3
      <4>2. rank[last] < rank[path[i]]
        BY <1>1, <2>1, <4>1 DEF WalkInv
      <4>3. rank[Current] \in Nat /\ rank[last] \in Nat /\ rank[path[i]] \in Nat
        BY <2>3, <3>1
      <4> QED
        BY <2>5, <4>2, <4>3
    <3> QED
      BY <3>2, <3>3
  <2>7. Current # src => Current \in DOMAIN parent
    BY <1>1, <2>3 DEF LabelsInv
  <2> QED
    BY <2>1, <2>3, <2>6, <2>7
<1> QED
  BY <1>3, <1>4

LEMMA WalkBackKeeps ==
  ASSUME RouteInv, WalkBack
  PROVE  RouteInv'
<1>1. /\ LabelsInv /\ pc = "walk" /\ Current # src
      /\ UNCHANGED <<rows, road, src, dest, dist, parent, pq, node, at>>
  BY DEF RouteInv, WalkBack
<1>2. PICK rank \in [Lots -> Nat] : SearchInv(rank)
  BY <1>1 DEF RouteInv
<1>3. /\ Current \in Lots /\ Current \in Reached /\ Current \in DOMAIN parent
      /\ path # << >> => parent[path[Len(path)]] = Current
      /\ \A i \in DOMAIN path : rank[Current] < rank[path[i]]
  BY <1>1, <1>2, CurrentGoesDown
<1>4. path' = Append(path, Current) /\ pc' = "walk"
  BY <1>1, <1>3 DEF WalkBack
<1>5. Reached' = Reached
  BY <1>1 DEF Reached
<1>6. LabelsInv'
  BY <1>1, <1>5, GraphStays DEF LabelsInv, IsArc
<1>7. WalkInv(rank)
  BY <1>2 DEF SearchInv
<1>8. /\ path \in Seq(Lots) /\ path' \in Seq(Lots)
      /\ DOMAIN path = 1 .. Len(path) /\ DOMAIN path' = 1 .. (Len(path) + 1)
      /\ Len(path) \in Nat /\ Len(path') = Len(path) + 1
      /\ \A i \in DOMAIN path : path'[i] = path[i]
      /\ path'[Len(path) + 1] = Current
  BY <1>3, <1>4, <1>7 DEF WalkInv
<1>9. WalkInv(rank)'
  <2>1. path'[1] = dest
    BY <1>1, <1>7, <1>8 DEF WalkInv, Current
  <2>2. \A j \in DOMAIN path' : path'[j] \in DOMAIN parent
    BY <1>1, <1>3, <1>7, <1>8 DEF WalkInv
  <2>3. ASSUME NEW j \in 1 .. (Len(path') - 1) PROVE parent[path'[j]] = path'[j + 1]
    <3>1. CASE j = Len(path)
      BY <1>3, <1>8, <2>3, <3>1
    <3>2. CASE j # Len(path)
      <4>1. Len(path) \in Nat /\ Len(path') - 1 = Len(path) /\ DOMAIN path = 1 .. Len(path)
        BY <1>8
      <4>2. j \in 1 .. Len(path)
        BY <2>3, <4>1
      <4>3. \A l \in Nat : \A i \in 1 .. l : i # l => i \in 1 .. (l - 1) /\ i + 1 \in 1 .. l
        OBVIOUS
      <4>4. j \in 1 .. (Len(path) - 1) /\ j \in 1 .. Len(path) /\ j + 1 \in 1 .. Len(path)
        BY <3>2, <4>1, <4>2, <4>3
      <4> QED
        BY <1>1, <1>7, <1>8, <4>4 DEF WalkInv
    <3> QED
      BY <3>1, <3>2
  <2>4. ASSUME NEW i \in DOMAIN path', NEW j \in DOMAIN path', i < j
        PROVE  rank[path'[j]] < rank[path'[i]]
    <3>1. i \in DOMAIN path
      BY <1>8, <2>4
    <3>2. CASE j = Len(path) + 1
      BY <1>3, <1>8, <3>1, <3>2
    <3>3. CASE j # Len(path) + 1
      <4>1. j \in DOMAIN path
        BY <1>8, <3>3
      <4> QED
        BY <1>1, <1>7, <1>8, <2>4, <3>1, <4>1 DEF WalkInv
    <3> QED
      BY <3>2, <3>3
  <2>5. pq' = {} /\ dest' \in Reached' /\ dest' = dest /\ parent' = parent
    BY <1>1, <1>5, <1>7 DEF WalkInv
  <2> QED
    BY <1>4, <1>8, <2>1, <2>2, <2>3, <2>4, <2>5 DEF WalkInv
<1>10. QueueInv(rank)' /\ OrderInv(rank)' /\ LightInv(rank)'
  BY <1>1, <1>2, <1>5 DEF SearchInv, QueueInv, OrderInv, LightInv
<1>11. RelaxInv(rank)'
  BY <1>1, <1>2, <1>4, GraphStays DEF SearchInv, RelaxInv, Relaxed
<1>12. TypeOK' /\ RoadInv'
  BY <1>1, <1>4, <1>8 DEF RouteInv, TypeOK, RoadInv, IsGraph, Range
<1>13. SearchInv(rank)'
  BY <1>9, <1>10, <1>11 DEF SearchInv
<1> QED
  BY <1>4, <1>6, <1>12, <1>13 DEF RouteInv
LEMMA ReturnPathKeeps ==
  ASSUME RouteInv, ReturnPath
  PROVE  RouteInv'
<1> DEFINE back == Append(path, src)
           l    == Len(path) + 1
<1>1. /\ LabelsInv /\ pc = "walk" /\ Current = src /\ pc' = "done" /\ path' = Reverse(back)
      /\ UNCHANGED <<rows, road, src, dest, dist, parent, pq, node, at>>
  BY DEF RouteInv, ReturnPath, ReversedPath
<1>2. PICK rank \in [Lots -> Nat] : SearchInv(rank)
  BY <1>1 DEF RouteInv
<1>3. WalkInv(rank) /\ pq = {} /\ path \in Seq(Lots) /\ dest \in Reached
  BY <1>1, <1>2 DEF SearchInv, WalkInv
<1>4. /\ src \in Lots
      /\ path # << >> => parent[path[Len(path)]] = src
      /\ \A i \in DOMAIN path : rank[src] < rank[path[i]]
  BY <1>1, <1>2, CurrentGoesDown
<1>5. /\ back \in Seq(Lots) /\ Len(back) = l /\ l \in Nat \ {0}
      /\ DOMAIN path = 1 .. (l - 1)
      /\ \A i \in 1 .. (l - 1) : back[i] = path[i]
      /\ back[l] = src
  BY <1>3, <1>4
<1> HIDE DEF back
<1>6. back[1] = dest
  BY <1>1, <1>3, <1>4, <1>5 DEF WalkInv, Current
<1>7. \A i \in 1 .. (l - 1) : back[i] \in DOMAIN parent /\ parent[back[i]] = back[i + 1]
  <2> SUFFICES ASSUME NEW i \in 1 .. (l - 1)
               PROVE  back[i] \in DOMAIN parent /\ parent[back[i]] = back[i + 1]
    OBVIOUS
  <2>1. back[i] \in DOMAIN parent
    BY <1>1, <1>3, <1>5 DEF WalkInv
  <2>2. CASE i = Len(path)
    <3>1. path # << >>
      BY <1>3, <2>2
    <3>2. Len(path) \in Nat /\ i + 1 = l
      BY <1>3, <2>2
    <3>3. back[i] = path[Len(path)] /\ back[i + 1] = src
      BY <1>5, <2>2, <3>2
    <3> QED
      BY <1>4, <2>1, <3>1, <3>3
  <2>3. CASE i # Len(path)
    <3>1. \A k \in Nat : \A j \in 1 .. k : j # k => j \in 1 .. (k - 1) /\ j + 1 \in 1 .. k
      OBVIOUS
    <3>2. Len(path) \in Nat /\ l - 1 = Len(path)
      BY <1>3
    <3>3. i \in 1 .. (Len(path) - 1) /\ i + 1 \in 1 .. (l - 1)
      BY <2>3, <3>1, <3>2
    <3>4. parent[path[i]] = path[i + 1]
      BY <1>1, <1>3, <3>3 DEF WalkInv
    <3> QED
      BY <1>5, <2>1, <3>3, <3>4
  <2> QED
    BY <2>1, <2>2, <2>3
<1>8. \A i, j \in 1 .. l : i < j => rank[back[j]] < rank[back[i]]
  <2> SUFFICES ASSUME NEW i \in 1 .. l, NEW j \in 1 .. l, i < j
               PROVE  rank[back[j]] < rank[back[i]]
    OBVIOUS
  <2>1. i \in 1 .. (l - 1)
    BY <1>5
  <2>2. CASE j = l
    BY <1>4, <1>5, <2>1, <2>2
  <2>3. CASE j # l
    <3>1. j \in 1 .. (l - 1)
      BY <1>5, <2>3
    <3> QED
      BY <1>1, <1>3, <1>5, <2>1, <3>1 DEF WalkInv
  <2> QED
    BY <2>2, <2>3
<1> HIDE DEF back, l
<1>9. /\ Len(path') = l /\ path' \in Seq(Lots) /\ DOMAIN path' = 1 .. l
      /\ \A i \in 1 .. l : path'[i] = back[l - i + 1]
  <2>1. path' = [i \in 1 .. l |-> back[l - i + 1]]
    BY <1>1, <1>5 DEF Reverse
  <2>2. \A i \in 1 .. l : l - i + 1 \in 1 .. l
    BY <1>5
  <2>3. \A i \in 1 .. l : back[l - i + 1] \in Lots
    BY <1>5, <2>2
  <2>4. path' \in Seq(Lots)
    BY <1>5, <2>1, <2>3
  <2> QED
    BY <1>5, <2>1, <2>4
<1>10. ASSUME NEW j \in 1 .. (Len(path') - 1)
       PROVE  /\ path'[j + 1] \in DOMAIN parent
              /\ path'[j] = parent[path'[j + 1]]
  <2>1. j \in 1 .. l /\ j + 1 \in 1 .. l /\ l - j \in 1 .. (l - 1)
        /\ l - (j + 1) + 1 = l - j /\ l - j + 1 = (l - j) + 1
    BY <1>5, <1>9, <1>10
  <2>2. path'[j] = back[(l - j) + 1] /\ path'[j + 1] = back[l - j]
    BY <1>9, <2>1
  <2> QED
    BY <1>7, <2>1, <2>2
<1>11. \A n, m : Weights(n, m)' = Weights(n, m)
  BY <1>1, GraphStays
<1>12. \A j \in 1 .. (Len(path') - 1) :
         \E w \in Weights(path'[j], path'[j + 1]) : dist[path'[j + 1]] = dist[path'[j]] + w
  <2>1. \A n \in DOMAIN parent : \E w \in Weights(parent[n], n) : dist[n] = dist[parent[n]] + w
    BY <1>1 DEF LabelsInv, IsArc
  <2> QED
    BY <1>10, <2>1
<1>13. RouteIsWalk'
  <2>1. path'[1] = src /\ path'[Len(path')] = dest
    <3>1. 1 \in 1 .. l /\ l \in 1 .. l /\ l - 1 + 1 = l /\ l - l + 1 = 1
      BY <1>5
    <3> QED
      BY <1>5, <1>6, <1>9, <3>1
  <2>2. \A j \in DOMAIN path' : path'[j] \in Lots
    BY <1>9
  <2>3. (\A j \in 1 .. (Len(path) - 1) : Weights(path[j], path[j + 1]) # {})'
    BY <1>1, <1>12 DEF Weights, Roads
  <2>4. IsInjective(path')
    <3>1. ASSUME NEW i \in 1 .. l, NEW j \in 1 .. l, i < j
          PROVE  path'[i] # path'[j]
      <4>1. l - i + 1 \in 1 .. l /\ l - j + 1 \in 1 .. l /\ l - j + 1 < l - i + 1
        BY <1>5, <3>1
      <4>2. rank[back[l - i + 1]] < rank[back[l - j + 1]]
        BY <1>8, <4>1
      <4>3. back[l - i + 1] \in Lots
        BY <1>5, <4>1
      <4>4. rank[back[l - i + 1]] \in Nat
        BY <4>3
      <4>5. back[l - i + 1] # back[l - j + 1]
        BY <4>2, <4>4
      <4> QED
        BY <1>9, <4>5
    <3>2. \A i, j \in 1 .. l : i < j \/ j < i \/ i = j
      BY <1>5
    <3> QED
      BY <1>9, <3>1, <3>2 DEF IsInjective
  <2> QED
    BY <1>1, <2>1, <2>2, <2>3, <2>4 DEF RouteIsWalk
<1>14. LabelsCertifyRoute'
  <2>1. \A a, b \in Lots : \A w \in Weights(a, b) :
          dist[a] < INT_MAX => dist[b] < INT_MAX /\ dist[b] <= dist[a] + w
    BY <1>1, <1>2, <1>3, LabelsAreFinal
  <2>2. path' # << >> /\ dist[dest] # INT_MAX
    BY <1>3, <1>5, <1>9, IntMax DEF Reached
  <2>3. (\A j \in 1 .. (Len(path) - 1) :
           \E w \in Weights(path[j], path[j + 1]) : dist[path[j + 1]] = dist[path[j]] + w)'
    BY <1>1, <1>12 DEF Weights, Roads
  <2> QED
    BY <1>1, <1>11, <2>1, <2>2, <2>3 DEF LabelsCertifyRoute, LabelsInv
<1>15. TypeOK' /\ RoadInv'
  BY <1>1, <1>9 DEF RouteInv, TypeOK, RoadInv, IsGraph, Range
<1> QED
  BY <1>1, <1>13, <1>14, <1>15 DEF RouteInv

LEMMA NextRoutes == RouteInv /\ [Next]_vars => RouteInv'
<1> SUFFICES ASSUME RouteInv, [Next]_vars PROVE RouteInv'
  OBVIOUS
<1>1. CASE UNCHANGED vars
  <2>1. UNCHANGED <<rows, road, src, dest, pc, dist, parent, pq, node, at, path>>
    BY <1>1 DEF vars
  <2>2. \A n : Roads(n)' = Roads(n)
    BY <2>1 DEF Roads
  <2>3. \A n, m : Weights(n, m)' = Weights(n, m)
    BY <2>2 DEF Weights
  <2>4. TypeOK' /\ RoadInv' /\ (pc' \in {"load", "init"} => FreshInv')
    BY <2>1 DEF RouteInv, TypeOK, RoadInv, IsGraph, FreshInv, Range
  <2>5. pc' = "done" => RouteIsWalk' /\ LabelsCertifyRoute'
    BY <2>1, <2>3 DEF RouteInv, RouteIsWalk, LabelsCertifyRoute
  <2>6. ASSUME pc \in {"pop", "relax", "walk"}
        PROVE  LabelsInv' /\ \E rank \in [Lots -> Nat] : SearchInv(rank)'
    <3>1. PICK rank \in [Lots -> Nat] : SearchInv(rank)
      BY <2>6 DEF RouteInv
    <3>2. Reached' = Reached
      BY <2>1 DEF Reached
    <3>3. LabelsInv'
      BY <2>1, <2>3, <2>6, <3>2 DEF RouteInv, LabelsInv, IsArc
    <3>4. QueueInv(rank)' /\ OrderInv(rank)' /\ LightInv(rank)' /\ WalkInv(rank)'
      BY <2>1, <3>1, <3>2 DEF SearchInv, QueueInv, OrderInv, LightInv, WalkInv
    <3>5. RelaxInv(rank)'
      BY <2>1, <2>2, <3>1 DEF SearchInv, RelaxInv, Relaxed, RelaxedTo
    <3> QED
      BY <3>3, <3>4, <3>5 DEF SearchInv
  <2> QED
    BY <2>1, <2>4, <2>5, <2>6 DEF RouteInv
<1> QED
  BY <1>1, LoadRowKeeps, CallKeeps, NoLabelKeeps, PushSourceKeeps, PopStaleKeeps,
     ExpandKeeps, QueueEmptyKeeps, RelaxKeeps, SkipRoadKeeps, ExpandedKeeps,
     WalkBackKeeps, ReturnPathKeeps DEF Next

LEMMA Routes == Spec => []RouteInv
BY InitRoutes, NextRoutes, PTL DEF Spec
-----------------------------------------------------------------------------
(* Theorems *)

\* Labels, parents and the queue of dijkstra keep their shape: a lot has a parent
\* that is a lot, and no ghost is ever labelled or queued.
THEOREM PlannerTypeCorrect == Spec => []TypeOK
<1>1. RouteInv => TypeOK
  BY DEF RouteInv
<1> QED
  BY <1>1, Routes, PTL

\* An answer of dijkstra leads along roads from the start to the destination, over
\* lots only and over none of them twice: roads of weight 0 put no cycle into the
\* parents it walks back along.
THEOREM RoutesAreWalks == Spec => []RouteIsWalk
<1>1. RouteInv => RouteIsWalk
  BY DEF RouteInv, RouteIsWalk
<1> QED
  BY <1>1, Routes, PTL

\* When the queue is empty, no road shortens a label, and the labels on the route
\* grow by the weights of its roads.
THEOREM LabelsCertify == Spec => []LabelsCertifyRoute
<1>1. RouteInv => LabelsCertifyRoute
  BY DEF RouteInv, LabelsCertifyRoute
<1> QED
  BY <1>1, Routes, PTL

\* dist[node] + wt never exceeds an int: labels stay below what the weights of a
\* walk that visits each lot once can add up to.
THEOREM SumsDoFit == Spec => []SumsFit
<1>1. ASSUME RouteInv PROVE SumsFit
  <2> SUFFICES ASSUME pc = "relax", NEW j \in DOMAIN Roads(node)
               PROVE  Roads(node)[j][2] < INT_MAX - dist[node]
    BY DEF SumsFit
  <2>1. PICK rank \in [Lots -> Nat] : SearchInv(rank)
    BY <1>1 DEF RouteInv
  <2>2. node \in Settled(rank)
    BY <2>1 DEF SearchInv, RelaxInv, OrderInv
  <2>3. /\ dist[node] + Roads(node)[j][2] < INT_MAX
        /\ dist[node] \in Nat /\ Roads(node)[j][2] \in Nat
    BY <1>1, <2>1, <2>2, NextRoad
  <2> QED
    BY <2>3, IntMax
<1> QED
  BY <1>1, Routes, PTL

\* dijkstra expands lots in the order of their distance: neither stale entries nor
\* labels lowered while they were queued bring a nearer lot back.
THEOREM ExpandsInOrder == Spec => ExpandedInOrder
<1>1. ASSUME RouteInv, Next, pc = "pop", pc' = "relax", node # NoNode
      PROVE  dist[node] <= dist[node']
  <2>1. Expand
    BY <1>1 DEF Next, LoadRow, Call, NoLabel, PushSource, PopStale, QueueEmpty,
                Relax, SkipRoad, Expanded, WalkBack, ReturnPath
  <2>2. PICK entry \in pq : entry[1] <= dist[entry[2]] /\ node' = entry[2]
    BY <2>1 DEF Expand
  <2>3. PICK rank \in [Lots -> Nat] : SearchInv(rank)
    BY <1>1 DEF RouteInv
  <2>4. entry[2] \in Lots /\ (rank[entry[2]] > 0 => dist[entry[2]] < entry[1])
        /\ entry[1] \in Nat /\ dist[entry[2]] \in Nat
    BY <1>1, <2>3, IntMax DEF SearchInv, QueueInv, RouteInv, LabelsInv
  <2>5. entry[2] \notin Settled(rank)
    BY <2>2, <2>4 DEF Settled
  <2> QED
    BY <1>1, <2>2, <2>3, <2>4, <2>5 DEF SearchInv, OrderInv
<1>2. ASSUME RouteInv, [Next]_vars
      PROVE  [pc = "pop" /\ pc' = "relax" /\ node # NoNode => dist[node] <= dist[node']]_vars
  BY <1>1, <1>2
<1>3. RouteInv /\ [Next]_vars
        => [pc = "pop" /\ pc' = "relax" /\ node # NoNode => dist[node] <= dist[node']]_vars
  BY <1>2
<1> QED
  BY <1>3, Routes, PTL DEF Spec, ExpandedInOrder

\* A walk over lots, and the weights added up at each of them.
IsWalk(walk, total) ==
  /\ walk \in Seq(Lots) /\ walk # << >>
  /\ total \in [1 .. Len(walk) -> Nat]
  /\ total[1] = 0
  /\ \A j \in 1 .. (Len(walk) - 1) :
       \E w \in Weights(walk[j], walk[j + 1]) : total[j + 1] = total[j] + w

\* The walk leads from the start to the destination and weighs sum.
Weighs(walk, sum) ==
  /\ walk[1] = src /\ walk[Len(walk)] = dest
  /\ \E total \in [1 .. Len(walk) -> Nat] : IsWalk(walk, total) /\ total[Len(walk)] = sum

RouteIsLeast ==
  pc = "done" /\ src \in Lots /\ dest \in Lots =>
    /\ path # << >> => Weighs(path, dist[dest])
    /\ \A walk \in Seq(Lots), sum \in Nat :
         Weighs(walk, sum) => path # << >> /\ dist[dest] <= sum

\* No label on a walk from the start is above what the walk weighs so far.
LEMMA LabelsBelowWalks ==
  ASSUME RouteInv, LabelsCertifyRoute, pc = "done", src \in Lots, dest \in Lots,
         NEW walk, NEW total, IsWalk(walk, total), walk[1] = src
  PROVE  \A j \in 1 .. Len(walk) : dist[walk[j]] < INT_MAX /\ dist[walk[j]] <= total[j]
<1> DEFINE Above == {j \in 1 .. Len(walk) : ~ (dist[walk[j]] < INT_MAX /\ dist[walk[j]] <= total[j])}
<1> SUFFICES ASSUME Above # {} PROVE FALSE
  OBVIOUS
<1>1. /\ walk \in Seq(Lots) /\ Len(walk) \in Nat \ {0}
      /\ total \in [1 .. Len(walk) -> Nat] /\ total[1] = 0
  BY DEF IsWalk
<1>2. /\ dist \in [Lots -> 0 .. INT_MAX] /\ dist[src] = 0
  BY DEF RouteInv, TypeOK, LabelsCertifyRoute
<1>3. Above \subseteq Nat
  OBVIOUS
<1> HIDE DEF Above
<1>4. PICK j \in Above : \A i \in Above : j <= i
  BY <1>3, LeastNumber
<1>6. \A i \in Above : ~ (i < j)
  BY <1>3, <1>4
<1>7. j \in 1 .. Len(walk) /\ ~ (dist[walk[j]] < INT_MAX /\ dist[walk[j]] <= total[j])
  BY DEF Above
<1>8. j # 1
  BY <1>1, <1>2, <1>7, IntMax
<1>9. j - 1 \in 1 .. (Len(walk) - 1) /\ j - 1 \in 1 .. Len(walk) /\ (j - 1) + 1 = j /\ j - 1 < j
  BY <1>1, <1>7, <1>8
<1>10. dist[walk[j - 1]] < INT_MAX /\ dist[walk[j - 1]] <= total[j - 1]
  BY <1>6, <1>9 DEF Above
<1>11. PICK w \in Weights(walk[j - 1], walk[j]) : total[j] = total[j - 1] + w
  BY <1>9 DEF IsWalk
<1>12. walk[j - 1] \in Lots /\ walk[j] \in Lots
  BY <1>1, <1>7, <1>9
<1>13. dist[walk[j]] < INT_MAX /\ dist[walk[j]] <= dist[walk[j - 1]] + w
  BY <1>10, <1>11, <1>12 DEF LabelsCertifyRoute
<1>14. w \in Nat
  BY WeightsAre DEF RouteInv
<1>15. /\ dist[walk[j]] \in Nat /\ dist[walk[j - 1]] \in Nat
       /\ total[j - 1] \in Nat /\ total[j] \in Nat
  <2>1. \A n \in Lots : dist[n] \in Nat
    BY <1>2, IntMax
  <2>2. \A i \in 1 .. Len(walk) : total[i] \in Nat
    BY <1>1
  <2> QED
    BY <1>7, <1>9, <1>12, <2>1, <2>2
<1>16. dist[walk[j]] <= total[j]
  BY <1>10, <1>11, <1>13, <1>14, <1>15
<1> QED
  BY <1>7, <1>13, <1>16

\* dijkstra finds a route exactly when there is one, and no walk over lots is
\* shorter, on every map and for every call.
THEOREM NoWalkIsShorter == Spec => []RouteIsLeast
<1>1. ASSUME RouteInv PROVE RouteIsLeast
  <2> SUFFICES ASSUME pc = "done", src \in Lots, dest \in Lots
               PROVE  /\ path # << >> => Weighs(path, dist[dest])
                      /\ \A walk \in Seq(Lots), sum \in Nat :
                           Weighs(walk, sum) => path # << >> /\ dist[dest] <= sum
    BY DEF RouteIsLeast
  <2>1. TypeOK /\ RouteIsWalk /\ LabelsCertifyRoute
    BY <1>1 DEF RouteInv
  <2>2. ASSUME path # << >> PROVE Weighs(path, dist[dest])
    <3> DEFINE total == [j \in 1 .. Len(path) |-> dist[path[j]]]
    <3>1. /\ path \in Seq(Lots) /\ Len(path) \in Nat \ {0}
          /\ path[1] = src /\ path[Len(path)] = dest
      BY <2>1, <2>2 DEF TypeOK, RouteIsWalk
    <3>2. dist \in [Lots -> Nat] /\ dist[src] = 0
      BY <2>1, IntMax DEF TypeOK, LabelsCertifyRoute
    <3>3. total \in [1 .. Len(path) -> Nat]
      BY <3>1, <3>2
    <3>4. total[1] = 0 /\ total[Len(path)] = dist[dest]
      BY <3>1, <3>2
    <3>5. ASSUME NEW j \in 1 .. (Len(path) - 1)
          PROVE  \E w \in Weights(path[j], path[j + 1]) : total[j + 1] = total[j] + w
      <4>1. \E w \in Weights(path[j], path[j + 1]) : dist[path[j + 1]] = dist[path[j]] + w
        BY <2>1 DEF LabelsCertifyRoute
      <4>2. total[j] = dist[path[j]] /\ total[j + 1] = dist[path[j + 1]]
        BY <3>1
      <4> QED
        BY <4>1, <4>2
    <3> HIDE DEF total
    <3>6. IsWalk(path, total)
      BY <2>2, <3>1, <3>3, <3>4, <3>5 DEF IsWalk
    <3> QED
      BY <3>1, <3>3, <3>4, <3>6 DEF Weighs
  <2>3. ASSUME NEW walk \in Seq(Lots), NEW sum \in Nat, Weighs(walk, sum)
        PROVE  path # << >> /\ dist[dest] <= sum
    <3>1. PICK total \in [1 .. Len(walk) -> Nat] : IsWalk(walk, total) /\ total[Len(walk)] = sum
      BY <2>3 DEF Weighs
    <3>2. walk[1] = src /\ walk[Len(walk)] = dest
      BY <2>3 DEF Weighs
    <3>3. Len(walk) \in 1 .. Len(walk)
      BY <3>1 DEF IsWalk
    <3>4. dist[dest] < INT_MAX /\ dist[dest] <= sum
      BY <1>1, <2>1, <3>1, <3>2, <3>3, LabelsBelowWalks
    <3> QED
      BY <2>1, <3>4, IntMax DEF LabelsCertifyRoute
  <2> QED
    BY <2>2, <2>3
<1> QED
  BY <1>1, Routes, PTL
-----------------------------------------------------------------------------
(* The reference definition *)

LEMMA WeightsAreNumbers ==
  ASSUME RouteInv, NEW a, NEW b
  PROVE  Weights(a, b) \subseteq Nat
BY WeightsAre DEF RouteInv

\* The weights walks to n can have that are one arc longer, least[n] among them.
Extended(least, n) ==
  {least[n]} \cup
    UNION {{least[m] + w : w \in Weights(m, n)} : m \in {l \in Lots : least[l] < INT_MAX}}

LEMMA OneArcMoreIs ==
  ASSUME RouteInv, NEW least \in [Lots -> Nat], NEW n \in Lots
  PROVE  /\ OneArcMore(least)[n] \in Nat
         /\ OneArcMore(least)[n] <= least[n]
         /\ \A m \in Lots : \A w \in Weights(m, n) :
              least[m] < INT_MAX => OneArcMore(least)[n] <= least[m] + w
         /\ \/ OneArcMore(least)[n] = least[n]
            \/ \E m \in Lots : \E w \in Weights(m, n) :
                 least[m] < INT_MAX /\ OneArcMore(least)[n] = least[m] + w
<1>1. \A m \in Lots : Weights(m, n) \subseteq Nat
  BY WeightsAreNumbers
<1>2. OneArcMore(least)[n] = Min(Extended(least, n))
  BY DEF OneArcMore, Extended
<1>3. \A x : x \in Extended(least, n) <=>
        x = least[n] \/ \E m \in Lots : \E w \in Weights(m, n) : least[m] < INT_MAX /\ x = least[m] + w
  <2> DEFINE Reaching == {l \in Lots : least[l] < INT_MAX}
             ThroughLot(m) == {least[m] + w : w \in Weights(m, n)}
  <2>1. \A m : m \in Reaching <=> m \in Lots /\ least[m] < INT_MAX
    OBVIOUS
  <2>2. \A m, x : x \in ThroughLot(m) <=> \E w \in Weights(m, n) : x = least[m] + w
    OBVIOUS
  <2>3. \A x : x \in Extended(least, n) <=>
          x = least[n] \/ x \in UNION {ThroughLot(m) : m \in Reaching}
    BY DEF Extended
  <2> HIDE DEF Reaching, ThroughLot
  <2>4. \A x : x \in UNION {ThroughLot(m) : m \in Reaching} <=>
          \E m \in Reaching : x \in ThroughLot(m)
    OBVIOUS
  <2> QED
    BY <2>1, <2>2, <2>3, <2>4
<1>4. \A m \in Lots : \A w \in Weights(m, n) : least[m] + w \in Nat
  BY <1>1
<1>5. Extended(least, n) \subseteq Nat /\ Extended(least, n) # {}
  BY <1>3, <1>4
<1>6. /\ Min(Extended(least, n)) \in Extended(least, n)
      /\ \A i \in Extended(least, n) : Min(Extended(least, n)) <= i
  BY <1>5, MinIsLeast
<1> QED
  BY <1>2, <1>3, <1>5, <1>6

\* The equations that define ShortestWithin, which its definition leaves to be
\* shown, for each number of arcs.
LEMMA ShortestWithinIs ==
  ASSUME RouteInv
  PROVE  /\ ShortestWithin[0] = WithoutArcs
         /\ \A k \in Nat \ {0} : ShortestWithin[k] = OneArcMore(ShortestWithin[k - 1])
         /\ \A k \in Nat : ShortestWithin[k] \in [Lots -> Nat]
<1> DEFINE S == [Lots -> Nat]
           step == [k \in Nat |-> [least \in S |-> OneArcMore(least)]]
           IsShortest(f) == f = [k \in Nat |-> IF k = 0 THEN WithoutArcs ELSE OneArcMore(f[k - 1])]
<1>1. WithoutArcs \in S
  BY IntMax DEF WithoutArcs
<1>2. \A least \in S : OneArcMore(least) \in S
  <2> SUFFICES ASSUME NEW least \in S PROVE OneArcMore(least) \in S
    OBVIOUS
  <2>1. \A n \in Lots : OneArcMore(least)[n] \in Nat
    BY OneArcMoreIs
  <2>2. OneArcMore(least) = [n \in Lots |-> OneArcMore(least)[n]]
    BY DEF OneArcMore
  <2> QED
    BY <2>1, <2>2
<1>3. /\ step \in [Nat -> [S -> S]]
      /\ \A k \in Nat, least \in S : step[k][least] = OneArcMore(least)
  BY <1>2
<1> HIDE DEF S, step
<1>4. PICK f : Iterates(f, S, WithoutArcs, step)
  BY <1>1, <1>3, Recursion
<1>5. \A k \in Nat \ {0} : f[k] = OneArcMore(f[k - 1])
  <2> SUFFICES ASSUME NEW k \in Nat \ {0} PROVE f[k] = OneArcMore(f[k - 1])
    OBVIOUS
  <2>1. k - 1 \in Nat
    OBVIOUS
  <2> QED
    BY <1>3, <1>4, <2>1 DEF Iterates
<1>6. IsShortest(f)
  BY <1>4, <1>5 DEF Iterates
<1>7. ShortestWithin = CHOOSE g : IsShortest(g)
  BY DEF ShortestWithin
<1>8. IsShortest(ShortestWithin)
  <2> HIDE DEF IsShortest
  <2> QED
    BY <1>6, <1>7
<1>9. /\ ShortestWithin[0] = WithoutArcs
      /\ \A k \in Nat \ {0} : ShortestWithin[k] = OneArcMore(ShortestWithin[k - 1])
  <2> DEFINE sw == ShortestWithin
  <2>1. sw = [k \in Nat |-> IF k = 0 THEN WithoutArcs ELSE OneArcMore(sw[k - 1])]
    BY <1>8
  <2> HIDE DEF sw
  <2>2. sw[0] = WithoutArcs /\ \A k \in Nat \ {0} : sw[k] = OneArcMore(sw[k - 1])
    BY <2>1
  <2> QED
    BY <2>2 DEF sw
<1>10. \A k \in Nat : ShortestWithin[k] \in S
  <2> DEFINE Odd == {k \in Nat : ShortestWithin[k] \notin S}
  <2> SUFFICES ASSUME Odd # {} PROVE FALSE
    OBVIOUS
  <2>1. PICK k \in Odd : \A i \in Odd : k <= i
    BY LeastNumber
  <2>2. k # 0
    BY <1>1, <1>9
  <2>3. k - 1 \in Nat /\ ~ (k <= k - 1) /\ k \in Nat \ {0}
    BY <2>2
  <2>4. ShortestWithin[k - 1] \in S
    BY <2>1, <2>3
  <2> QED
    BY <1>2, <1>9, <2>3, <2>4 DEF S
<1> QED
  BY <1>9, <1>10 DEF S

\* More arcs allow no heavier a walk, and a lot that is reached at all weighs
\* less than INT_MAX.
LEMMA MoreArcsAreNoHeavier ==
  ASSUME RouteInv, NEW n \in Lots, NEW k \in Nat, NEW l \in Nat, l <= k
  PROVE  ShortestWithin[k][n] <= ShortestWithin[l][n] /\ ShortestWithin[k][n] <= INT_MAX
<1>1. \A j \in Nat : ShortestWithin[j][n] \in Nat
  BY ShortestWithinIs
<1>2. ASSUME NEW j \in Nat PROVE ShortestWithin[j + 1][n] <= ShortestWithin[j][n]
  <2>1. j + 1 \in Nat \ {0} /\ (j + 1) - 1 = j
    OBVIOUS
  <2>2. ShortestWithin[j + 1] = OneArcMore(ShortestWithin[j])
    BY <2>1, ShortestWithinIs
  <2>3. ShortestWithin[j] \in [Lots -> Nat]
    BY ShortestWithinIs
  <2> QED
    BY <2>2, <2>3, OneArcMoreIs
<1>3. ASSUME NEW first \in Nat, first <= k
      PROVE  ShortestWithin[k][n] <= ShortestWithin[first][n]
  <2> DEFINE Heavier == {j \in Nat : first <= j /\ ~ (ShortestWithin[j][n] <= ShortestWithin[first][n])}
  <2> SUFFICES ASSUME Heavier # {} PROVE FALSE
    BY <1>3
  <2>1. PICK j \in Heavier : \A i \in Heavier : j <= i
    BY LeastNumber
  <2>2. j # first
    BY <1>1
  <2>3. j - 1 \in Nat /\ first <= j - 1 /\ ~ (j <= j - 1) /\ (j - 1) + 1 = j
    BY <2>2
  <2>4. ShortestWithin[j - 1][n] <= ShortestWithin[first][n]
    BY <2>1, <2>3
  <2>5. ShortestWithin[j][n] <= ShortestWithin[j - 1][n]
    <3>1. ShortestWithin[(j - 1) + 1][n] <= ShortestWithin[j - 1][n]
      BY <1>2, <2>3
    <3> QED
      BY <2>3, <3>1
  <2> QED
    BY <1>1, <2>1, <2>3, <2>4, <2>5
<1>4. ShortestWithin[0][n] <= INT_MAX
  BY ShortestWithinIs, IntMax DEF WithoutArcs
<1>5. ShortestWithin[k][n] <= ShortestWithin[0][n]
  BY <1>3
<1> QED
  BY <1>1, <1>3, <1>4, <1>5, IntMax

\* No walk over lots, whatever its arcs, is lighter than the label of its end.
LEMMA LabelsBelowShortest ==
  ASSUME RouteInv, LabelsCertifyRoute, pc = "done", src \in Lots, dest \in Lots, NEW k \in Nat
  PROVE  \A n \in Lots : dist[n] <= ShortestWithin[k][n]
<1> DEFINE Above == {j \in Nat : ~ \A n \in Lots : dist[n] <= ShortestWithin[j][n]}
<1> SUFFICES ASSUME Above # {} PROVE FALSE
  OBVIOUS
<1>1. \A n \in Lots : dist[n] \in Nat /\ dist[n] <= INT_MAX
  BY IntMax DEF RouteInv, TypeOK
<1>2. PICK j \in Above : \A i \in Above : j <= i
  BY LeastNumber
<1>3. PICK n \in Lots : ~ (dist[n] <= ShortestWithin[j][n])
  BY <1>2
<1>4. j # 0
  <2>1. ShortestWithin[0][n] = IF n = src THEN 0 ELSE INT_MAX
    BY ShortestWithinIs DEF WithoutArcs
  <2>2. dist[src] = 0
    BY DEF LabelsCertifyRoute
  <2> QED
    BY <1>1, <1>3, <2>1, <2>2
<1>5. j - 1 \in Nat /\ ~ (j <= j - 1) /\ j \in Nat \ {0}
  BY <1>4
<1> DEFINE least == ShortestWithin[j - 1]
<1>6. least \in [Lots -> Nat] /\ ShortestWithin[j] = OneArcMore(least)
  BY <1>5, ShortestWithinIs
<1>7. \A m \in Lots : dist[m] <= least[m]
  BY <1>2, <1>5
<1> HIDE DEF least
<1>8. \/ ShortestWithin[j][n] = least[n]
      \/ \E m \in Lots : \E w \in Weights(m, n) :
           least[m] < INT_MAX /\ ShortestWithin[j][n] = least[m] + w
  BY <1>6, OneArcMoreIs
<1>9. PICK m \in Lots : \E w \in Weights(m, n) :
        least[m] < INT_MAX /\ ShortestWithin[j][n] = least[m] + w
  BY <1>3, <1>7, <1>8
<1>10. PICK w \in Weights(m, n) : least[m] < INT_MAX /\ ShortestWithin[j][n] = least[m] + w
  BY <1>9
<1>11. w \in Nat /\ least[m] \in Nat /\ dist[m] \in Nat /\ dist[n] \in Nat
  BY <1>1, <1>6, WeightsAreNumbers
<1>12. dist[m] < INT_MAX
  BY <1>7, <1>10, <1>11, IntMax
<1>13. dist[n] <= dist[m] + w
  BY <1>12 DEF LabelsCertifyRoute
<1> QED
  BY <1>3, <1>7, <1>10, <1>11, <1>13

\* The first lots of the route are walks of no more weight than their labels.
LEMMA RouteIsAmongWalks ==
  ASSUME RouteInv, LabelsCertifyRoute, RouteIsWalk, pc = "done", src \in Lots, dest \in Lots,
         path # << >>
  PROVE  \A j \in 1 .. Len(path) :
           dist[path[j]] < INT_MAX /\ ShortestWithin[j - 1][path[j]] <= dist[path[j]]
<1> DEFINE Above == {j \in 1 .. Len(path) :
                       ~ (dist[path[j]] < INT_MAX /\ ShortestWithin[j - 1][path[j]] <= dist[path[j]])}
<1> SUFFICES ASSUME Above # {} PROVE FALSE
  OBVIOUS
<1>1. path \in Seq(Lots) /\ Len(path) \in Nat \ {0} /\ path[1] = src
  BY DEF RouteInv, TypeOK, RouteIsWalk
<1>2. /\ \A n \in Lots : dist[n] \in Nat
      /\ dist[src] = 0
  BY IntMax DEF RouteInv, TypeOK, LabelsCertifyRoute
<1>3. PICK j \in Above : \A i \in Above : j <= i
  <2>1. Above \subseteq Nat
    OBVIOUS
  <2> HIDE DEF Above
  <2> QED
    BY <2>1, LeastNumber
<1>4. j # 1
  <2>1. ShortestWithin[0][src] = 0
    BY ShortestWithinIs DEF WithoutArcs
  <2> QED
    BY <1>1, <1>2, <1>3, <2>1, IntMax
<1>5. /\ j - 1 \in 1 .. Len(path) /\ j - 1 \in 1 .. (Len(path) - 1) /\ (j - 1) + 1 = j
      /\ ~ (j <= j - 1) /\ j - 1 \in Nat \ {0} /\ (j - 1) - 1 \in Nat /\ j \in 1 .. Len(path)
  BY <1>1, <1>4
<1> DEFINE a == path[j - 1]
           b == path[j]
           least == ShortestWithin[(j - 1) - 1]
<1>6. dist[a] < INT_MAX /\ least[a] <= dist[a]
  BY <1>3, <1>5
<1>7. a \in Lots /\ b \in Lots
  BY <1>1, <1>5
<1>8. least \in [Lots -> Nat] /\ ShortestWithin[j - 1] = OneArcMore(least)
  BY <1>5, ShortestWithinIs
<1>9. PICK w \in Weights(a, b) : dist[b] = dist[a] + w
  <2>1. \A i \in 1 .. (Len(path) - 1) :
          \E w \in Weights(path[i], path[i + 1]) : dist[path[i + 1]] = dist[path[i]] + w
    BY DEF LabelsCertifyRoute
  <2>2. \E w \in Weights(path[j - 1], path[(j - 1) + 1]) :
          dist[path[(j - 1) + 1]] = dist[path[j - 1]] + w
    BY <1>5, <2>1
  <2> QED
    BY <1>5, <2>2
<1>10. ~ (dist[b] < INT_MAX /\ OneArcMore(least)[b] <= dist[b])
  BY <1>3, <1>8
<1> HIDE DEF a, b, least
<1>11. w \in Nat /\ least[a] \in Nat /\ dist[a] \in Nat /\ dist[b] \in Nat
  BY <1>2, <1>7, <1>8, WeightsAreNumbers
<1>12. dist[b] < INT_MAX
  BY <1>6, <1>7, <1>9 DEF LabelsCertifyRoute
<1>13. least[a] < INT_MAX
  BY <1>6, <1>11, IntMax
<1>14. OneArcMore(least)[b] <= least[a] + w /\ OneArcMore(least)[b] \in Nat
  BY <1>7, <1>8, <1>13, OneArcMoreIs
<1> QED
  BY <1>6, <1>9, <1>10, <1>11, <1>12, <1>14

\* A route visits no lot twice, so it has no more nodes than there are lots.
LEMMA RouteIsShort ==
  ASSUME RouteInv, RouteIsWalk, pc = "done", path # << >>
  PROVE  Len(path) \in Nat \ {0} /\ Len(path) <= Cardinality(Lots)
<1>1. path \in Seq(Lots) /\ Len(path) \in Nat \ {0}
  BY DEF RouteInv, TypeOK
<1>2. path \in [1 .. Len(path) -> Lots] /\ IsInjective(path)
  BY <1>1 DEF RouteIsWalk
<1>3. path \in Injection(1 .. Len(path), Lots)
  BY <1>2 DEF Injection
<1>4. Cardinality(1 .. Len(path)) <= Cardinality(Lots)
  BY <1>3, LotsAreIds, FS_Injection
<1>5. Cardinality(1 .. Len(path)) = Len(path)
  <2>1. ASSUME NEW l \in Nat \ {0} PROVE Cardinality(1 .. l) = l
    <3>1. 1 \in Int /\ l \in Int /\ ~ (1 > l) /\ l - 1 + 1 = l
      OBVIOUS
    <3> QED
      BY <3>1, FS_Interval
  <2> QED
    BY <1>1, <2>1
<1> QED
  BY <1>1, <1>4, <1>5

\* Every road of the route is the lightest between its ends, so the labels
\* along it add up its weight.
LEMMA RouteWeighsItsLabel ==
  ASSUME RouteInv, LabelsCertifyRoute, RouteIsWalk, pc = "done", src \in Lots, dest \in Lots,
         path # << >>
  PROVE  PathWeight(path) = dist[dest]
<1> DEFINE IsSum(g) == g = [j \in 1 .. Len(path) |->
                              IF j = 1 THEN 0 ELSE g[j - 1] + Min(Weights(path[j - 1], path[j]))]
           labels == [j \in 1 .. Len(path) |-> dist[path[j]]]
           sum == CHOOSE g : IsSum(g)
<1>1. /\ path \in Seq(Lots) /\ Len(path) \in Nat \ {0}
      /\ path[1] = src /\ path[Len(path)] = dest
  BY DEF RouteInv, TypeOK, RouteIsWalk
<1>2. /\ \A n \in Lots : dist[n] \in Nat
      /\ dist[src] = 0
  BY IntMax DEF RouteInv, TypeOK, LabelsCertifyRoute
<1>3. ASSUME NEW j \in 1 .. Len(path), j # 1
      PROVE  dist[path[j]] = dist[path[j - 1]] + Min(Weights(path[j - 1], path[j]))
  <2>1. j - 1 \in 1 .. Len(path) /\ j - 1 \in 1 .. (Len(path) - 1) /\ (j - 1) + 1 = j
    BY <1>1, <1>3
  <2> DEFINE a == path[j - 1]
             b == path[j]
  <2>2. PICK w \in Weights(a, b) : dist[b] = dist[a] + w
    <3>1. \A i \in 1 .. (Len(path) - 1) :
            \E w \in Weights(path[i], path[i + 1]) : dist[path[i + 1]] = dist[path[i]] + w
      BY DEF LabelsCertifyRoute
    <3>2. \E w \in Weights(path[j - 1], path[(j - 1) + 1]) :
            dist[path[(j - 1) + 1]] = dist[path[j - 1]] + w
      BY <2>1, <3>1
    <3> QED
      BY <2>1, <3>2
  <2>3. a \in Lots /\ b \in Lots
    BY <1>1, <2>1
  <2>4. dist[a] < INT_MAX
    BY <2>1, RouteIsAmongWalks
  <2> HIDE DEF a, b
  <2>5. Weights(a, b) \subseteq Nat
    BY WeightsAreNumbers
  <2>6. /\ Min(Weights(a, b)) \in Weights(a, b)
        /\ Min(Weights(a, b)) <= w
    BY <2>2, <2>5, MinIsLeast
  <2>7. dist[b] <= dist[a] + Min(Weights(a, b))
    BY <2>3, <2>4, <2>6 DEF LabelsCertifyRoute
  <2>8. w \in Nat /\ Min(Weights(a, b)) \in Nat /\ dist[a] \in Nat /\ dist[b] \in Nat
    BY <1>2, <2>3, <2>5, <2>6
  <2>9. dist[b] = dist[a] + Min(Weights(a, b))
    BY <2>2, <2>6, <2>7, <2>8
  <2> QED
    BY <2>9 DEF a, b
<1>4. IsSum(labels)
  <2>1. ASSUME NEW j \in 1 .. Len(path)
        PROVE  labels[j] = IF j = 1 THEN 0
                           ELSE labels[j - 1] + Min(Weights(path[j - 1], path[j]))
    <3>1. CASE j = 1
      BY <1>1, <1>2, <3>1
    <3>2. CASE j # 1
      <4>1. j - 1 \in 1 .. Len(path)
        BY <1>1, <3>2
      <4> QED
        BY <1>3, <3>2, <4>1
    <3> QED
      BY <3>1, <3>2
  <2> QED
    BY <2>1
<1>5. IsSum(sum)
  <2> HIDE DEF IsSum, labels
  <2> QED
    BY <1>4
<1>6. PathWeight(path) = sum[Len(path)]
  BY DEF PathWeight
<1> HIDE DEF sum
<1>7. \A j \in 1 .. Len(path) :
        sum[j] = IF j = 1 THEN 0 ELSE sum[j - 1] + Min(Weights(path[j - 1], path[j]))
  BY <1>5
<1>8. \A j \in 1 .. Len(path) : sum[j] = dist[path[j]]
  <2> DEFINE Differ == {j \in 1 .. Len(path) : sum[j] # dist[path[j]]}
  <2> SUFFICES ASSUME Differ # {} PROVE FALSE
    OBVIOUS
  <2>1. PICK j \in Differ : \A i \in Differ : j <= i
    <3>1. Differ \subseteq Nat
      OBVIOUS
    <3> HIDE DEF Differ
    <3> QED
      BY <3>1, LeastNumber
  <2>2. j # 1
    BY <1>1, <1>2, <1>7
  <2>3. j - 1 \in 1 .. Len(path) /\ ~ (j <= j - 1) /\ j \in 1 .. Len(path)
    BY <1>1, <2>2
  <2>4. sum[j - 1] = dist[path[j - 1]]
    BY <2>1, <2>3
  <2>5. sum[j] = sum[j - 1] + Min(Weights(path[j - 1], path[j]))
    BY <1>7, <2>2, <2>3
  <2> QED
    BY <1>3, <2>2, <2>3, <2>4, <2>5
<1>9. Len(path) \in 1 .. Len(path)
  BY <1>1
<1> QED
  BY <1>1, <1>6, <1>8, <1>9

\* The answer of dijkstra weighs what the reference definition says, on every
\* map and for every call, and there is none exactly when it says so.
THEOREM RoutesAreShortest == Spec => []RouteIsShortest
<1>1. ASSUME RouteInv PROVE RouteIsShortest
  <2> SUFFICES ASSUME pc = "done", src \in Lots, dest \in Lots
               PROVE  IF path = << >> THEN Shortest[dest] = INT_MAX
                                      ELSE PathWeight(path) = Shortest[dest]
    BY DEF RouteIsShortest
  <2>1. TypeOK /\ RouteIsWalk /\ LabelsCertifyRoute
    BY <1>1 DEF RouteInv
  <2> DEFINE card == Cardinality(Lots)
  <2>2. card \in Nat
    BY LotsAreIds
  <2>3. Shortest[dest] \in Nat /\ Shortest[dest] <= INT_MAX /\ dist[dest] <= Shortest[dest]
    BY <1>1, <2>1, <2>2, ShortestWithinIs, MoreArcsAreNoHeavier, LabelsBelowShortest DEF Shortest
  <2>4. dist[dest] \in Nat
    BY <2>1, IntMax DEF TypeOK
  <2>5. CASE path = << >>
    BY <2>1, <2>3, <2>4, <2>5, IntMax DEF LabelsCertifyRoute
  <2>6. CASE path # << >>
    <3>1. Len(path) \in Nat \ {0} /\ Len(path) <= card
      BY <1>1, <2>1, <2>6, RouteIsShort
    <3>2. Len(path) \in 1 .. Len(path) /\ Len(path) - 1 \in Nat /\ Len(path) - 1 <= card
      BY <2>2, <3>1
    <3>3. path[Len(path)] = dest
      BY <2>1, <2>6 DEF RouteIsWalk
    <3>4. ShortestWithin[Len(path) - 1][dest] <= dist[dest]
      BY <1>1, <2>1, <2>6, <3>2, <3>3, RouteIsAmongWalks
    <3>5. Shortest[dest] <= ShortestWithin[Len(path) - 1][dest]
      BY <1>1, <2>2, <3>2, MoreArcsAreNoHeavier DEF Shortest
    <3>6. ShortestWithin[Len(path) - 1][dest] \in Nat
      BY <1>1, <3>2, ShortestWithinIs
    <3>7. Shortest[dest] = dist[dest]
      BY <2>3, <2>4, <3>4, <3>5, <3>6
    <3> QED
      BY <1>1, <2>1, <2>6, <3>7, RouteWeighsItsLabel
  <2> QED
    BY <2>5, <2>6
<1> QED
  BY <1>1, Routes, PTL
-----------------------------------------------------------------------------
(* Drawing *)

LEMMA ReverseIs ==
  ASSUME NEW S, NEW s \in Seq(S)
  PROVE  /\ Reverse(s) \in Seq(S)
         /\ Len(Reverse(s)) = Len(s)
         /\ \A i \in 1 .. Len(s) : Reverse(s)[i] = s[Len(s) - i + 1]
<1>1. ASSUME NEW n \in Nat, n = Len(s)
      PROVE  [i \in 1 .. n |-> s[(n - i) + 1]] \in Seq(S)
  <2>1. \A i \in 1 .. n : (n - i) + 1 \in 1 .. n
    OBVIOUS
  <2>2. \A i \in 1 .. n : s[(n - i) + 1] \in S
    BY <1>1, <2>1
  <2> QED
    BY <2>2
<1>2. Reverse(s) \in Seq(S)
  BY <1>1 DEF Reverse
<1> QED
  BY <1>2 DEF Reverse

LEMMA ReverseTwice ==
  ASSUME NEW S, NEW s \in Seq(S)
  PROVE  Reverse(Reverse(s)) = s
<1> DEFINE n == Len(s)
           r == Reverse(s)
<1>1. /\ r \in Seq(S) /\ Len(r) = n /\ n \in Nat
      /\ \A i \in 1 .. n : r[i] = s[n - i + 1]
  BY ReverseIs
<1>2. /\ Reverse(r) \in Seq(S) /\ Len(Reverse(r)) = n
      /\ \A i \in 1 .. n : Reverse(r)[i] = r[n - i + 1]
  BY <1>1, ReverseIs
<1> HIDE DEF n, r
<1>3. \A i \in 1 .. n : n - i + 1 \in 1 .. n /\ n - (n - i + 1) + 1 = i
  BY <1>1
<1>4. \A i \in 1 .. n : Reverse(r)[i] = s[i]
  BY <1>1, <1>2, <1>3
<1>5. Len(s) = n
  BY DEF n
<1>6. Reverse(r) = s
  BY <1>2, <1>4, <1>5, SeqEqual
<1> QED
  BY <1>6 DEF r

LEMMA ReverseConcat ==
  ASSUME NEW S, NEW s \in Seq(S), NEW t \in Seq(S)
  PROVE  Reverse(s \o t) = Reverse(t) \o Reverse(s)
<1> DEFINE n == Len(s)
           m == Len(t)
           both == s \o t
           left == Reverse(both)
           right == Reverse(t) \o Reverse(s)
<1>1. n \in Nat /\ m \in Nat
  OBVIOUS
<1>2. /\ both \in Seq(S) /\ Len(both) = n + m
      /\ \A i \in 1 .. (n + m) : both[i] = IF i <= n THEN s[i] ELSE t[i - n]
  BY ConcatProperties
<1>3. /\ left \in Seq(S) /\ Len(left) = n + m
      /\ \A i \in 1 .. (n + m) : left[i] = both[n + m - i + 1]
  <2> HIDE DEF both
  <2> QED
    BY <1>2, ReverseIs
<1>4. /\ Reverse(s) \in Seq(S) /\ Len(Reverse(s)) = n
      /\ \A i \in 1 .. n : Reverse(s)[i] = s[n - i + 1]
  BY ReverseIs
<1>5. /\ Reverse(t) \in Seq(S) /\ Len(Reverse(t)) = m
      /\ \A i \in 1 .. m : Reverse(t)[i] = t[m - i + 1]
  BY ReverseIs
<1>6. /\ right \in Seq(S) /\ Len(right) = m + n
      /\ \A i \in 1 .. (m + n) : right[i] = IF i <= m THEN Reverse(t)[i] ELSE Reverse(s)[i - m]
  <2> HIDE DEF n, m, both, left
  <2>1. ASSUME NEW u \in Seq(S), NEW v \in Seq(S), Len(u) = m, Len(v) = n
        PROVE  /\ u \o v \in Seq(S) /\ Len(u \o v) = m + n
               /\ \A i \in 1 .. (m + n) : (u \o v)[i] = IF i <= m THEN u[i] ELSE v[i - m]
    <3>1. /\ u \o v \in Seq(S) /\ Len(u \o v) = Len(u) + Len(v)
          /\ \A i \in 1 .. (Len(u) + Len(v)) :
               (u \o v)[i] = IF i <= Len(u) THEN u[i] ELSE v[i - Len(u)]
      BY ConcatProperties
    <3> QED
      BY <2>1, <3>1
  <2> QED
    BY <1>4, <1>5, <2>1
<1> HIDE DEF n, m, both, left, right
<1>7. ASSUME NEW i \in 1 .. (n + m) PROVE left[i] = right[i]
  <2>1. CASE i <= m
    <3>1. /\ i \in 1 .. m /\ i \in 1 .. (m + n) /\ n + m - i + 1 \in 1 .. (n + m)
          /\ ~ (n + m - i + 1 <= n) /\ (n + m - i + 1) - n = m - i + 1
      BY <1>1, <2>1
    <3>2. left[i] = t[m - i + 1]
      BY <1>2, <1>3, <3>1
    <3>3. right[i] = t[m - i + 1]
      BY <1>5, <1>6, <2>1, <3>1
    <3> QED
      BY <3>2, <3>3
  <2>2. CASE ~ (i <= m)
    <3>1. /\ i - m \in 1 .. n /\ i \in 1 .. (m + n) /\ n + m - i + 1 \in 1 .. (n + m)
          /\ n + m - i + 1 <= n /\ n + m - i + 1 = n - (i - m) + 1
      BY <1>1, <2>2
    <3>2. left[i] = s[n - (i - m) + 1]
      BY <1>2, <1>3, <3>1
    <3>3. right[i] = s[n - (i - m) + 1]
      BY <1>4, <1>6, <2>2, <3>1
    <3> QED
      BY <3>2, <3>3
  <2> QED
    BY <2>1, <2>2
<1>8. left = right
  <2>1. n + m = m + n
    BY <1>1
  <2> QED
    BY <1>3, <1>6, <1>7, <2>1, SeqEqual
<1> QED
  BY <1>8 DEF left, right, both

LEMMA ReverseOne == \A x : Reverse(<<x>>) = <<x>>
<1> SUFFICES ASSUME NEW x PROVE Reverse(<<x>>) = <<x>>
  OBVIOUS
<1>1. <<x>> \in Seq({x}) /\ Len(<<x>>) = 1
  OBVIOUS
<1>2. /\ Reverse(<<x>>) \in Seq({x}) /\ Len(Reverse(<<x>>)) = 1
  BY <1>1, ReverseIs
<1> QED
  BY <1>1, <1>2

Ends == Nodes \X Nodes

\* Drawing points by the ends of the road.
IsDrawing(m) ==
  DOMAIN m \subseteq Ends /\ m = [e \in DOMAIN m |-> m[e]] /\ \A e \in DOMAIN m : m[e] \in Seq(Ghost)

\* A road that is drawn one way is drawn through the same points the other way.
IsDrawnBothWays(m) ==
  \A a, b \in Nodes : a # b /\ <<a, b>> \in DOMAIN m =>
    <<b, a>> \in DOMAIN m /\ m[<<b, a>>] = Reverse(m[<<a, b>>])

LEMMA PutIsDrawing ==
  ASSUME NEW m, IsDrawing(m), NEW e \in Ends, NEW points \in Seq(Ghost)
  PROVE  IsDrawing(Put(m, e, points))
<1> DEFINE new == Put(m, e, points)
<1>1. /\ DOMAIN new = DOMAIN m \cup {e} /\ new[e] = points
      /\ \A k \in DOMAIN m : k # e => new[k] = m[k]
  BY DEF Put
<1>2. new = [k \in DOMAIN new |-> new[k]]
  BY DEF Put
<1> HIDE DEF new
<1>3. IsDrawing(new)
  BY <1>1, <1>2 DEF IsDrawing
<1> QED
  BY <1>3 DEF new

LEMMA AddPathKeeps ==
  ASSUME NEW m, IsDrawing(m), NEW row \in Nodes \X Nodes \X Seq(Ghost)
  PROVE  /\ IsDrawing(AddPath(m, row))
         /\ IsDrawnBothWays(m) => IsDrawnBothWays(AddPath(m, row))
<1> DEFINE out == <<row[1], row[2]>>
           back == <<row[2], row[1]>>
           one == Put(m, out, row[3])
           two == Put(one, back, Reverse(row[3]))
<1>1. /\ row[1] \in Nodes /\ row[2] \in Nodes /\ row[3] \in Seq(Ghost)
      /\ out \in Ends /\ back \in Ends
  BY DEF Ends
<1>2. Reverse(row[3]) \in Seq(Ghost)
  BY <1>1, ReverseIs
<1>3. IsDrawing(one)
  BY <1>1, PutIsDrawing
<1>4. IsDrawing(two)
  BY <1>1, <1>2, <1>3, PutIsDrawing
<1>5. /\ DOMAIN one = DOMAIN m \cup {out} /\ one[out] = row[3]
      /\ \A k \in DOMAIN m : k # out => one[k] = m[k]
  BY DEF Put
<1>6. /\ DOMAIN two = DOMAIN one \cup {back} /\ two[back] = Reverse(row[3])
      /\ \A k \in DOMAIN one : k # back => two[k] = one[k]
  BY DEF Put
<1>7. AddPath(m, row) = two
  BY DEF AddPath
<1>8. Reverse(Reverse(row[3])) = row[3]
  BY <1>1, ReverseTwice
<1> HIDE DEF one, two
<1>9. ASSUME IsDrawnBothWays(m), NEW a \in Nodes, NEW b \in Nodes, a # b, <<a, b>> \in DOMAIN two
      PROVE  <<b, a>> \in DOMAIN two /\ two[<<b, a>>] = Reverse(two[<<a, b>>])
  <2>1. CASE <<a, b>> = back
    <3>1. a = row[2] /\ b = row[1] /\ <<b, a>> = out /\ out # back
      BY <1>9, <2>1
    <3> QED
      BY <1>5, <1>6, <1>8, <2>1, <3>1
  <2>2. CASE <<a, b>> = out
    <3>1. a = row[1] /\ b = row[2] /\ <<b, a>> = back /\ out # back
      BY <1>9, <2>2
    <3> QED
      BY <1>5, <1>6, <2>2, <3>1
  <2>3. CASE <<a, b>> # back /\ <<a, b>> # out
    <3>1. <<b, a>> # back /\ <<b, a>> # out
      BY <2>3
    <3>2. <<a, b>> \in DOMAIN m
      BY <1>5, <1>6, <1>9, <2>3
    <3>3. <<b, a>> \in DOMAIN m /\ m[<<b, a>>] = Reverse(m[<<a, b>>])
      BY <1>9, <3>2 DEF IsDrawnBothWays
    <3> QED
      BY <1>5, <1>6, <2>3, <3>1, <3>2, <3>3
  <2> QED
    BY <2>1, <2>2, <2>3
<1> QED
  BY <1>4, <1>7, <1>9 DEF IsDrawnBothWays

Drawings == UNION {[D -> Seq(Ghost)] : D \in SUBSET Ends}

LEMMA DrawingsAre == \A m : m \in Drawings <=> IsDrawing(m)
<1>1. ASSUME NEW m, m \in Drawings PROVE IsDrawing(m)
  <2>1. PICK D \in SUBSET Ends : m \in [D -> Seq(Ghost)]
    BY <1>1 DEF Drawings
  <2> QED
    BY <2>1 DEF IsDrawing
<1>2. ASSUME NEW m, IsDrawing(m) PROVE m \in Drawings
  <2>1. m \in [DOMAIN m -> Seq(Ghost)] /\ DOMAIN m \in SUBSET Ends
    BY <1>2 DEF IsDrawing
  <2> QED
    BY <2>1 DEF Drawings
<1> QED
  BY <1>1, <1>2

LEMMA NothingIsDrawn == IsDrawing(<< >>) /\ IsDrawnBothWays(<< >>)
<1>1. DOMAIN << >> = {}
  OBVIOUS
<1>2. << >> = [e \in {} |-> << >>[e]]
  OBVIOUS
<1> QED
  BY <1>1, <1>2 DEF IsDrawing, IsDrawnBothWays

LEMMA VisualPathsAre == IsDrawing(visualPaths) /\ IsDrawnBothWays(visualPaths)
<1> DEFINE n == Len(DrawnRoads)
           IsAfter(g) == g = [k \in 0 .. n |->
                                IF k = 0 THEN << >> ELSE AddPath(g[k - 1], DrawnRoads[k])]
           after == CHOOSE g : IsAfter(g)
           step == [k \in Nat |-> [m \in Drawings |->
                      IF k \in 1 .. n THEN AddPath(m, DrawnRoads[k]) ELSE m]]
<1>1. n \in Nat /\ \A k \in 1 .. n : DrawnRoads[k] \in Nodes \X Nodes \X Seq(Ghost)
  BY DrawingAssumption
<1> HIDE DEF n
<1>2. \A k \in 1 .. n : \A m \in Drawings : AddPath(m, DrawnRoads[k]) \in Drawings
  BY <1>1, DrawingsAre, AddPathKeeps
<1>3. << >> \in Drawings
  BY DrawingsAre, NothingIsDrawn
<1>4. step \in [Nat -> [Drawings -> Drawings]]
  BY <1>2
<1>5. \A k \in 1 .. n : \A m \in Drawings : step[k][m] = AddPath(m, DrawnRoads[k])
  BY <1>1
<1> HIDE DEF step
<1>6. PICK f : Iterates(f, Drawings, << >>, step)
  BY <1>3, <1>4, Recursion
<1> DEFINE g == [k \in 0 .. n |-> f[k]]
<1>7. IsAfter(g)
  <2>1. ASSUME NEW k \in 0 .. n
        PROVE  g[k] = IF k = 0 THEN << >> ELSE AddPath(g[k - 1], DrawnRoads[k])
    <3>1. CASE k = 0
      BY <1>6, <3>1 DEF Iterates
    <3>2. CASE k # 0
      <4>1. /\ k - 1 \in 0 .. n /\ k \in 1 .. n /\ k \in Nat \ {0} /\ k - 1 \in Nat
        BY <1>1, <3>2
      <4>2. f[k] = step[k][f[k - 1]] /\ f[k - 1] \in Drawings
        BY <1>6, <4>1 DEF Iterates
      <4>3. f[k] = AddPath(f[k - 1], DrawnRoads[k])
        BY <1>5, <4>1, <4>2
      <4> QED
        BY <3>2, <4>1, <4>3
    <3> QED
      BY <3>1, <3>2
  <2> QED
    BY <2>1
<1>8. IsAfter(after)
  <2> HIDE DEF IsAfter, g
  <2> QED
    BY <1>7
<1>9. visualPaths = after[n]
  BY DEF visualPaths, n
<1> HIDE DEF after
<1>10. \A k \in 0 .. n :
         after[k] = IF k = 0 THEN << >> ELSE AddPath(after[k - 1], DrawnRoads[k])
  BY <1>8
<1> DEFINE Odd == {k \in 0 .. n : ~ (IsDrawing(after[k]) /\ IsDrawnBothWays(after[k]))}
<1>11. Odd = {}
  <2> SUFFICES ASSUME Odd # {} PROVE FALSE
    OBVIOUS
  <2>1. PICK k \in Odd : \A i \in Odd : k <= i
    <3>1. Odd \subseteq Nat
      OBVIOUS
    <3> HIDE DEF Odd
    <3> QED
      BY <3>1, LeastNumber
  <2>2. k # 0
    BY <1>10, <2>1, NothingIsDrawn
  <2>3. k \in 1 .. n /\ k \in 0 .. n /\ k - 1 \in 0 .. n /\ ~ (k <= k - 1)
    BY <1>1, <2>2
  <2>4. IsDrawing(after[k - 1]) /\ IsDrawnBothWays(after[k - 1])
    BY <2>1, <2>3
  <2>5. after[k] = AddPath(after[k - 1], DrawnRoads[k])
    BY <1>10, <2>2, <2>3
  <2>6. IsDrawing(after[k]) /\ IsDrawnBothWays(after[k])
    BY <1>1, <2>3, <2>4, <2>5, AddPathKeeps
  <2> QED
    BY <2>6
<1>12. n \in 0 .. n
  BY <1>1
<1> QED
  BY <1>9, <1>11, <1>12

LEMMA BetweenIs ==
  ASSUME NEW a \in Nodes, NEW b \in Nodes
  PROVE  /\ Between(a, b) \in Seq(Ghost)
         /\ a # b => Between(b, a) = Reverse(Between(a, b))
<1>1. \A e \in DOMAIN visualPaths : visualPaths[e] \in Seq(Ghost)
  BY VisualPathsAre DEF IsDrawing
<1>2. \A c, d : Between(c, d) \in Seq(Ghost)
  BY <1>1 DEF Between
<1>3. ASSUME a # b PROVE Between(b, a) = Reverse(Between(a, b))
  <2>1. CASE <<a, b>> \in DOMAIN visualPaths
    BY <1>3, <2>1, VisualPathsAre DEF Between, IsDrawnBothWays
  <2>2. CASE <<a, b>> \notin DOMAIN visualPaths
    <3>1. <<b, a>> \notin DOMAIN visualPaths
      BY <1>3, <2>2, VisualPathsAre DEF IsDrawnBothWays
    <3>2. Between(a, b) = << >> /\ Between(b, a) = << >>
      BY <2>2, <3>1 DEF Between
    <3>3. Reverse(<< >>) = << >>
      <4>1. << >> \in Seq(Ghost) /\ Len(<< >>) = 0
        OBVIOUS
      <4>2. Reverse(<< >>) \in Seq(Ghost) /\ Len(Reverse(<< >>)) = 0
        BY <4>1, ReverseIs
      <4> QED
        BY <4>2
    <3> QED
      BY <3>2, <3>3
  <2> QED
    BY <2>1, <2>2
<1> QED
  BY <1>2, <1>3

\* What buildVisualRoute has drawn when it comes to the i-th node.
IsLine(f, p) ==
  /\ \A i \in 1 .. Len(p) : f[i] \in Seq(Nodes)
  /\ f[1] = << >>
  /\ \A i \in 2 .. Len(p) : f[i] = f[i - 1] \o <<p[i - 1]>> \o Between(p[i - 1], p[i])

LEMMA BuildVisualRouteIs ==
  ASSUME NEW p \in Seq(Nodes), p # << >>
  PROVE  \E f : IsLine(f, p) /\ BuildVisualRoute(p) = f[Len(p)] \o <<p[Len(p)]>>
<1> DEFINE n == Len(p)
           S == Seq(Nodes)
           IsFinal(g) == g = [i \in 1 .. n |->
                                IF i = 1 THEN << >>
                                ELSE g[i - 1] \o <<p[i - 1]>> \o Between(p[i - 1], p[i])]
           finalPath == CHOOSE g : IsFinal(g)
           step == [k \in Nat |-> [s \in S |->
                      IF k \in 1 .. (n - 1) THEN s \o <<p[k]>> \o Between(p[k], p[k + 1]) ELSE s]]
<1>1. n \in Nat \ {0} /\ \A i \in 1 .. n : p[i] \in Nodes
  OBVIOUS
<1>2. ASSUME NEW a \in Nodes, NEW b \in Nodes, NEW s \in S
      PROVE  s \o <<a>> \o Between(a, b) \in S
  <2>1. Between(a, b) \in Seq(Ghost)
    BY BetweenIs
  <2>2. Between(a, b) \in S
    BY <2>1, SeqMonotonic, NodesAssumption
  <2> QED
    BY <2>2
<1>3. << >> \in S
  OBVIOUS
<1> HIDE DEF n, S
<1>4. \A k \in 1 .. (n - 1) : p[k] \in Nodes /\ p[k + 1] \in Nodes
  <2>1. \A k \in 1 .. (n - 1) : k \in 1 .. n /\ k + 1 \in 1 .. n
    BY <1>1
  <2> QED
    BY <1>1, <2>1
<1>5. step \in [Nat -> [S -> S]]
  BY <1>2, <1>4
<1>6. \A k \in 1 .. (n - 1) : \A s \in S : step[k][s] = s \o <<p[k]>> \o Between(p[k], p[k + 1])
  BY <1>1
<1> HIDE DEF step
<1>7. PICK f : Iterates(f, S, << >>, step)
  BY <1>3, <1>5, Recursion
<1> DEFINE g == [i \in 1 .. n |-> f[i - 1]]
<1>8. IsFinal(g)
  <2>1. ASSUME NEW i \in 1 .. n
        PROVE  g[i] = IF i = 1 THEN << >> ELSE g[i - 1] \o <<p[i - 1]>> \o Between(p[i - 1], p[i])
    <3>1. CASE i = 1
      BY <1>7, <3>1 DEF Iterates
    <3>2. CASE i # 1
      <4> DEFINE k == i - 1
      <4>1. /\ k \in 1 .. n /\ k \in 1 .. (n - 1) /\ k \in Nat \ {0} /\ k - 1 \in Nat /\ k + 1 = i
        BY <1>1, <3>2
      <4>2. g[i] = f[k] /\ g[i - 1] = f[k - 1]
        BY <4>1
      <4>3. f[k] = step[k][f[k - 1]] /\ f[k - 1] \in S
        BY <1>7, <4>1 DEF Iterates
      <4>4. f[k] = f[k - 1] \o <<p[k]>> \o Between(p[k], p[k + 1])
        BY <1>6, <4>1, <4>3
      <4> QED
        BY <3>2, <4>1, <4>2, <4>4
    <3> QED
      BY <3>1, <3>2
  <2> QED
    BY <2>1
<1>9. IsFinal(finalPath)
  <2> HIDE DEF IsFinal, g
  <2> QED
    BY <1>8
<1>10. BuildVisualRoute(p) = finalPath[n] \o <<p[n]>>
  BY DEF BuildVisualRoute, End, Last, n
<1> HIDE DEF finalPath
<1>11. \A i \in 1 .. n :
         finalPath[i] = IF i = 1 THEN << >>
                        ELSE finalPath[i - 1] \o <<p[i - 1]>> \o Between(p[i - 1], p[i])
  BY <1>9
<1> DEFINE Odd == {i \in 1 .. n : finalPath[i] \notin S}
<1>12. Odd = {}
  <2> SUFFICES ASSUME Odd # {} PROVE FALSE
    OBVIOUS
  <2>1. PICK i \in Odd : \A j \in Odd : i <= j
    <3>1. Odd \subseteq Nat
      OBVIOUS
    <3> HIDE DEF Odd
    <3> QED
      BY <3>1, LeastNumber
  <2>2. i # 1
    BY <1>3, <1>11, <2>1
  <2>3. i \in 1 .. n /\ i - 1 \in 1 .. n /\ ~ (i <= i - 1)
    BY <1>1, <2>2
  <2>4. finalPath[i - 1] \in S
    BY <2>1, <2>3
  <2>5. finalPath[i] = finalPath[i - 1] \o <<p[i - 1]>> \o Between(p[i - 1], p[i])
    BY <1>11, <2>2, <2>3
  <2>6. finalPath[i] \in S
    BY <1>1, <1>2, <2>3, <2>4, <2>5
  <2> QED
    BY <2>6
<1>13. \A i \in 2 .. n : i \in 1 .. n /\ i # 1
  BY <1>1
<1>14. 1 \in 1 .. n
  BY <1>1
<1>15. IsLine(finalPath, p)
  BY <1>11, <1>12, <1>13, <1>14 DEF IsLine, n, S
<1> QED
  BY <1>10, <1>15 DEF n

\* The line passes the first nodes of p, those before the i-th, in their order.
Passes(line, p, i) ==
  /\ \A j \in DOMAIN line : line[j] \in Lots => \E k \in 1 .. (i - 1) : line[j] = p[k]
  /\ \A k \in 1 .. (i - 1) : \E j \in DOMAIN line : line[j] = p[k]
  /\ \A j, h \in DOMAIN line : j < h /\ line[j] \in Lots /\ line[h] \in Lots =>
       \E k, l \in 1 .. (i - 1) : k < l /\ line[j] = p[k] /\ line[h] = p[l]

LEMMA LotIsPassed ==
  ASSUME NEW p \in Seq(Lots), NEW i \in 1 .. Len(p), NEW line \in Seq(Nodes), Passes(line, p, i)
  PROVE  Passes(line \o <<p[i]>>, p, i + 1)
<1> DEFINE new == line \o <<p[i]>>
           m == Len(line)
<1>1. /\ m \in Nat /\ p[i] \in Lots /\ i \in Nat \ {0} /\ (i + 1) - 1 = i
      /\ DOMAIN line = 1 .. m
  OBVIOUS
<1>2. /\ DOMAIN new = 1 .. (m + 1) /\ new[m + 1] = p[i]
      /\ \A j \in 1 .. m : new[j] = line[j]
  BY <1>1 DEF Lots
<1> HIDE DEF new, m
<1>3. /\ \A j \in 1 .. (m + 1) : j = m + 1 \/ j \in 1 .. m
      /\ \A k \in 1 .. (i - 1) : k \in 1 .. i /\ k < i
      /\ i \in 1 .. i /\ m + 1 \in 1 .. (m + 1)
      /\ \A j \in 1 .. m : j \in 1 .. (m + 1) /\ ~ (m + 1 < j)
      /\ \A k \in 1 .. i : k = i \/ k \in 1 .. (i - 1)
  BY <1>1
<1>4. \A j \in DOMAIN new : new[j] \in Lots => \E k \in 1 .. i : new[j] = p[k]
  BY <1>1, <1>2, <1>3 DEF Passes
<1>5. \A k \in 1 .. i : \E j \in DOMAIN new : new[j] = p[k]
  BY <1>1, <1>2, <1>3 DEF Passes
<1>6. ASSUME NEW j \in DOMAIN new, NEW h \in DOMAIN new, j < h, new[j] \in Lots, new[h] \in Lots
      PROVE  \E k, l \in 1 .. i : k < l /\ new[j] = p[k] /\ new[h] = p[l]
  <2>1. j \in 1 .. m /\ new[j] = line[j]
    BY <1>1, <1>2, <1>3, <1>6
  <2>2. CASE h \in 1 .. m
    <3>1. \A x, y \in DOMAIN line : x < y /\ line[x] \in Lots /\ line[y] \in Lots =>
            \E k, l \in 1 .. (i - 1) : k < l /\ line[x] = p[k] /\ line[y] = p[l]
      BY Zenon DEF Passes
    <3>2. new[h] = line[h] /\ h \in DOMAIN line /\ j \in DOMAIN line
      BY <1>1, <1>2, <2>1, <2>2
    <3>3. \E k, l \in 1 .. (i - 1) : k < l /\ line[j] = p[k] /\ line[h] = p[l]
      BY <1>6, <2>1, <3>1, <3>2
    <3> QED
      BY <1>3, <2>1, <3>2, <3>3
  <2>3. CASE h = m + 1
    <3>1. \E k \in 1 .. (i - 1) : line[j] = p[k]
      BY <1>1, <1>6, <2>1 DEF Passes
    <3> QED
      BY <1>2, <1>3, <2>1, <2>3, <3>1
  <2> QED
    BY <1>2, <1>3, <2>2, <2>3
<1>7. Passes(new, p, i + 1)
  BY <1>1, <1>4, <1>5, <1>6 DEF Passes
<1> QED
  BY <1>7 DEF new

LEMMA PointsAreNotPassed ==
  ASSUME NEW p \in Seq(Lots), NEW i \in Nat, NEW line \in Seq(Nodes), Passes(line, p, i),
         NEW points \in Seq(Ghost)
  PROVE  Passes(line \o points, p, i)
<1> DEFINE new == line \o points
           m == Len(line)
           n == Len(points)
<1>1. /\ m \in Nat /\ n \in Nat /\ DOMAIN line = 1 .. m
      /\ \A j \in 1 .. n : points[j] \notin Lots
  BY DEF Lots
<1>2. /\ DOMAIN new = 1 .. (m + n)
      /\ \A j \in 1 .. (m + n) : new[j] = IF j <= m THEN line[j] ELSE points[j - m]
  OBVIOUS
<1> HIDE DEF new, m, n
<1>3. \A j \in DOMAIN new : new[j] \in Lots => j \in 1 .. m /\ new[j] = line[j]
  <2> SUFFICES ASSUME NEW j \in DOMAIN new, new[j] \in Lots
               PROVE  j \in 1 .. m /\ new[j] = line[j]
    OBVIOUS
  <2>1. CASE j <= m
    BY <1>1, <1>2, <2>1
  <2>2. CASE ~ (j <= m)
    <3>1. j - m \in 1 .. n
      BY <1>1, <1>2, <2>2
    <3> QED
      BY <1>1, <1>2, <2>2, <3>1
  <2> QED
    BY <2>1, <2>2
<1>4. \A j \in 1 .. m : j \in DOMAIN new /\ new[j] = line[j]
  BY <1>1, <1>2
<1>5. \A j \in DOMAIN new : new[j] \in Lots => \E k \in 1 .. (i - 1) : new[j] = p[k]
  BY <1>1, <1>3 DEF Passes
<1>6. \A k \in 1 .. (i - 1) : \E j \in DOMAIN new : new[j] = p[k]
  BY <1>1, <1>4 DEF Passes
<1>7. ASSUME NEW j \in DOMAIN new, NEW h \in DOMAIN new, j < h, new[j] \in Lots, new[h] \in Lots
      PROVE  \E k, l \in 1 .. (i - 1) : k < l /\ new[j] = p[k] /\ new[h] = p[l]
  <2>1. \A x, y \in DOMAIN line : x < y /\ line[x] \in Lots /\ line[y] \in Lots =>
          \E k, l \in 1 .. (i - 1) : k < l /\ line[x] = p[k] /\ line[y] = p[l]
    BY Zenon DEF Passes
  <2>2. j \in DOMAIN line /\ new[j] = line[j] /\ line[j] \in Lots
    BY <1>1, <1>3, <1>7
  <2>3. h \in DOMAIN line /\ new[h] = line[h] /\ line[h] \in Lots
    BY <1>1, <1>3, <1>7
  <2>4. PICK k, l \in 1 .. (i - 1) : k < l /\ line[j] = p[k] /\ line[h] = p[l]
    BY <1>7, <2>1, <2>2, <2>3, Zenon
  <2> QED
    BY <2>2, <2>3, <2>4, Zenon
<1>8. Passes(new, p, i)
  BY <1>5, <1>6, <1>7 DEF Passes
<1> QED
  BY <1>8 DEF new

\* The line drawn for nodes that are lots follows them.
LEMMA LineFollows ==
  ASSUME NEW p \in Seq(Lots), p # << >>
  PROVE  Follows(BuildVisualRoute(p), p)
<1> DEFINE n == Len(p)
<1>1. /\ n \in Nat \ {0} /\ n \in 1 .. n /\ p \in Seq(Nodes)
      /\ \A i \in 1 .. n : p[i] \in Lots /\ p[i] \in Nodes
  BY SeqMonotonic DEF Lots
<1>2. PICK f : IsLine(f, p) /\ BuildVisualRoute(p) = f[n] \o <<p[n]>>
  BY <1>1, BuildVisualRouteIs
<1> DEFINE Odd == {i \in 1 .. n : ~ Passes(f[i], p, i)}
<1>3. Odd = {}
  <2> SUFFICES ASSUME Odd # {} PROVE FALSE
    OBVIOUS
  <2>1. PICK i \in Odd : \A j \in Odd : i <= j
    <3>1. Odd \subseteq Nat
      OBVIOUS
    <3> HIDE DEF Odd
    <3> QED
      BY <3>1, LeastNumber
  <2> HIDE DEF n
  <2>2. i # 1
    <3>1. Passes(<< >>, p, 1)
      BY DEF Passes
    <3> QED
      BY <1>2, <2>1, <3>1 DEF IsLine
  <2>3. /\ i \in 1 .. n /\ i \in 2 .. n /\ i - 1 \in 1 .. n /\ ~ (i <= i - 1)
        /\ i \in Nat /\ (i - 1) + 1 = i
    BY <1>1, <2>2
  <2>4. Passes(f[i - 1], p, i - 1) /\ f[i - 1] \in Seq(Nodes)
    BY <1>2, <2>1, <2>3 DEF IsLine, n
  <2>5. Passes(f[i - 1] \o <<p[i - 1]>>, p, i)
    <3>1. i - 1 \in 1 .. Len(p)
      BY <2>3 DEF n
    <3>2. Passes(f[i - 1] \o <<p[i - 1]>>, p, (i - 1) + 1)
      BY <2>4, <3>1, LotIsPassed
    <3> QED
      BY <2>3, <3>2
  <2>6. Between(p[i - 1], p[i]) \in Seq(Ghost)
    BY <1>1, <2>3, BetweenIs
  <2>7. f[i - 1] \o <<p[i - 1]>> \in Seq(Nodes)
    BY <1>1, <2>3, <2>4
  <2>8. Passes(f[i - 1] \o <<p[i - 1]>> \o Between(p[i - 1], p[i]), p, i)
    BY <2>3, <2>5, <2>6, <2>7, PointsAreNotPassed
  <2> QED
    BY <1>2, <2>1, <2>3, <2>8 DEF IsLine, n
<1> DEFINE line == f[n] \o <<p[n]>>
<1>4. Passes(line, p, n + 1) /\ line \in Seq(Nodes)
  <2>1. Passes(f[n], p, n)
    BY <1>1, <1>3
  <2>2. f[n] \in Seq(Nodes)
    BY <1>1, <1>2 DEF IsLine
  <2> QED
    BY <1>1, <2>1, <2>2, LotIsPassed
<1>5. DOMAIN p = 1 .. n /\ (n + 1) - 1 = n
  BY <1>1
<1> HIDE DEF line, n
<1>6. \A j \in DOMAIN line : line[j] \in Lots => \E k \in DOMAIN p : line[j] = p[k]
  BY <1>4, <1>5 DEF Passes
<1>7. \A k \in DOMAIN p : p[k] \in Lots /\ \E j \in DOMAIN line : line[j] = p[k]
  BY <1>1, <1>4, <1>5 DEF Passes
<1>8. Range(line) \cap Lots = Range(p)
  BY <1>6, <1>7 DEF Range
<1>9. \A j, h \in DOMAIN line : j < h /\ line[j] \in Lots /\ line[h] \in Lots =>
        \E k, l \in DOMAIN p : k < l /\ line[j] = p[k] /\ line[h] = p[l]
  <2>1. \A j, h \in DOMAIN line : j < h /\ line[j] \in Lots /\ line[h] \in Lots =>
          \E k, l \in 1 .. ((n + 1) - 1) : k < l /\ line[j] = p[k] /\ line[h] = p[l]
    BY <1>4, Zenon DEF Passes
  <2>2. \A k \in 1 .. ((n + 1) - 1) : k \in DOMAIN p
    BY <1>5
  <2> SUFFICES ASSUME NEW j \in DOMAIN line, NEW h \in DOMAIN line,
                      j < h, line[j] \in Lots, line[h] \in Lots
               PROVE  \E k, l \in DOMAIN p : k < l /\ line[j] = p[k] /\ line[h] = p[l]
    OBVIOUS
  <2>3. PICK k, l \in 1 .. ((n + 1) - 1) : k < l /\ line[j] = p[k] /\ line[h] = p[l]
    BY <2>1, Zenon
  <2> QED
    BY <2>2, <2>3, Zenon
<1>10. Follows(line, p)
  BY <1>8, <1>9 DEF Follows
<1> QED
  BY <1>2, <1>10 DEF line

\* Four sequences, joined from the left and from the right.
FromLeft(s, t, u, v) == (s \o t \o u) \o v
FromRight(s, t, u, v) == s \o (t \o (u \o v))

LEMMA ConcatFour ==
  ASSUME NEW S, NEW s \in Seq(S), NEW t \in Seq(S), NEW u \in Seq(S), NEW v \in Seq(S)
  PROVE  FromLeft(s, t, u, v) = FromRight(s, t, u, v)
<1>1. s \o t \in Seq(S) /\ u \o v \in Seq(S)
  OBVIOUS
<1>2. ((s \o t) \o u) \o v = (s \o t) \o (u \o v)
  BY <1>1, ConcatAssociative
<1> DEFINE w == u \o v
<1>3. w \in Seq(S)
  BY <1>1
<1> HIDE DEF w
<1>4. (s \o t) \o w = s \o (t \o w)
  BY <1>3, ConcatAssociative
<1> QED
  BY <1>2, <1>4 DEF w, FromLeft, FromRight

\* A road passes from the end of the line out to the end of the line back.
FurtherOut(F, a, out, G, b) == (F \o <<a>> \o out) \o Reverse(G \o <<b>>)
FurtherBack(F, a, back, G, b) == F \o Reverse((G \o <<b>> \o back) \o <<a>>)

LEMMA OneRoadFurther ==
  ASSUME NEW F \in Seq(Nodes), NEW G \in Seq(Nodes), NEW a \in Nodes, NEW b \in Nodes,
         NEW out \in Seq(Nodes), NEW back \in Seq(Nodes), Reverse(back) = out
  PROVE  FurtherOut(F, a, out, G, b) = FurtherBack(F, a, back, G, b)
<1> DEFINE one == <<a>>
           H == G \o <<b>>
           R == Reverse(H)
<1>1. H \in Seq(Nodes) /\ one \in Seq(Nodes) /\ Reverse(one) = one
  BY ReverseOne
<1> HIDE DEF H, one
<1>2. H \o back \in Seq(Nodes) /\ R \in Seq(Nodes)
  BY <1>1, ReverseIs
<1>3. Reverse((H \o back) \o one) = one \o Reverse(H \o back)
  BY <1>1, <1>2, ReverseConcat
<1>4. Reverse(H \o back) = out \o R
  BY <1>1, ReverseConcat
<1> HIDE DEF R
<1>5. FromLeft(F, one, out, R) = FromRight(F, one, out, R)
  BY <1>1, <1>2, ConcatFour
<1>6. (F \o one \o out) \o R = F \o (one \o (out \o R))
  BY <1>5 DEF FromLeft, FromRight
<1> QED
  BY <1>3, <1>4, <1>6 DEF H, R, one, FurtherOut, FurtherBack

\* The line back is the line out, drawn from its end.
LEMMA LineBackIsLineOut ==
  ASSUME NEW p \in Seq(Lots), p # << >>, IsInjective(p)
  PROVE  BuildVisualRoute(Reverse(p)) = Reverse(BuildVisualRoute(p))
<1> DEFINE n == Len(p)
           q == Reverse(p)
<1>1. /\ n \in Nat \ {0} /\ n \in 1 .. n /\ 1 \in 1 .. n /\ p \in Seq(Nodes)
      /\ \A i \in 1 .. n : p[i] \in Nodes
      /\ \A i, j \in 1 .. n : i # j => p[i] # p[j]
  BY SeqMonotonic DEF Lots, IsInjective
<1>2. /\ q \in Seq(Nodes) /\ Len(q) = n /\ q # << >>
      /\ \A i \in 1 .. n : q[i] = p[n - i + 1]
  <2>1. /\ q \in Seq(Nodes) /\ Len(q) = n
        /\ \A i \in 1 .. n : q[i] = p[n - i + 1]
    BY <1>1, ReverseIs
  <2> HIDE DEF q
  <2> QED
    BY <1>1, <2>1
<1>3. PICK f : IsLine(f, p) /\ BuildVisualRoute(p) = f[n] \o <<p[n]>>
  BY <1>1, BuildVisualRouteIs
<1>4. PICK g : IsLine(g, q) /\ BuildVisualRoute(q) = g[n] \o <<q[n]>>
  <2> HIDE DEF q
  <2> QED
    BY <1>2, BuildVisualRouteIs
<1> DEFINE line == BuildVisualRoute(p)
           Rest(i) == g[i] \o <<q[i]>>
           Odd == {i \in 1 .. n : ~ (line = f[n - i + 1] \o Reverse(Rest(i)))}
<1>5. /\ \A i \in 1 .. n : f[i] \in Seq(Nodes) /\ g[i] \in Seq(Nodes) /\ q[i] \in Nodes
      /\ f[1] = << >> /\ g[1] = << >>
      /\ \A i \in 2 .. n : f[i] = f[i - 1] \o <<p[i - 1]>> \o Between(p[i - 1], p[i])
      /\ \A i \in 2 .. n : g[i] = g[i - 1] \o <<q[i - 1]>> \o Between(q[i - 1], q[i])
  <2>1. \A i \in 1 .. n : n - i + 1 \in 1 .. n
    BY <1>1
  <2>2. \A i \in 1 .. n : q[i] \in Nodes
    BY <1>1, <1>2, <2>1
  <2> HIDE DEF q
  <2>3. /\ \A i \in 1 .. n : f[i] \in Seq(Nodes)
        /\ f[1] = << >>
        /\ \A i \in 2 .. n : f[i] = f[i - 1] \o <<p[i - 1]>> \o Between(p[i - 1], p[i])
    BY <1>3, Zenon DEF IsLine
  <2> HIDE DEF n
  <2>4. /\ \A i \in 1 .. n : g[i] \in Seq(Nodes)
        /\ g[1] = << >>
        /\ \A i \in 2 .. n : g[i] = g[i - 1] \o <<q[i - 1]>> \o Between(q[i - 1], q[i])
    BY <1>2, <1>4, Zenon DEF IsLine
  <2> QED
    BY <2>2, <2>3, <2>4
<1>6. line = f[n] \o <<p[n]>> /\ line \in Seq(Nodes)
  BY <1>1, <1>3, <1>5
<1> HIDE DEF n, q, line
<1>7. Odd = {}
  <2> SUFFICES ASSUME Odd # {} PROVE FALSE
    OBVIOUS
  <2>1. PICK i \in Odd : \A j \in Odd : i <= j
    <3>1. Odd \subseteq 1 .. n
      BY Zenon
    <3>2. 1 .. n \subseteq Nat
      BY <1>1
    <3> HIDE DEF Odd
    <3> QED
      BY <3>1, <3>2, LeastNumber
  <2>2. i # 1
    <3>1. n - 1 + 1 = n /\ q[1] = p[n]
      BY <1>1, <1>2
    <3>2. Reverse(<< >> \o <<p[n]>>) = <<p[n]>>
      <4>1. << >> \o <<p[n]>> = <<p[n]>>
        OBVIOUS
      <4> QED
        BY <4>1, ReverseOne
    <3> QED
      BY <1>5, <1>6, <2>1, <3>1, <3>2
  <2> DEFINE m == n - i + 1
             a == p[m]
             b == p[m + 1]
  <2>3. /\ i \in 2 .. n /\ i \in 1 .. n /\ i - 1 \in 1 .. n /\ ~ (i <= i - 1)
        /\ m \in 1 .. n /\ m + 1 \in 2 .. n /\ m + 1 \in 1 .. n /\ (m + 1) - 1 = m /\ m # m + 1
        /\ n - (i - 1) + 1 = m + 1
    BY <1>1, <2>2
  <2>4. q[i] = a /\ q[i - 1] = b /\ a \in Nodes /\ b \in Nodes /\ a # b
    BY <1>1, <1>2, <2>3
  <2>5. line = f[m + 1] \o Reverse(g[i - 1] \o <<b>>)
    BY <2>1, <2>3, <2>4
  <2>6. f[m + 1] = f[m] \o <<a>> \o Between(a, b)
    BY <1>5, <2>3
  <2>7. g[i] = g[i - 1] \o <<b>> \o Between(b, a)
    BY <1>5, <2>3, <2>4
  <2>8. /\ Between(a, b) \in Seq(Nodes) /\ Between(b, a) \in Seq(Nodes)
        /\ Reverse(Between(b, a)) = Between(a, b)
    <3>1. Between(a, b) \in Seq(Ghost) /\ Between(b, a) = Reverse(Between(a, b))
          /\ Between(b, a) \in Seq(Ghost)
      BY <2>4, BetweenIs
    <3>2. Reverse(Between(b, a)) = Between(a, b)
      BY <3>1, ReverseTwice
    <3> QED
      BY <3>1, <3>2, SeqMonotonic, NodesAssumption
  <2>9. f[m] \in Seq(Nodes) /\ g[i - 1] \in Seq(Nodes) /\ ~ (line = f[m] \o Reverse(g[i] \o <<a>>))
    BY <1>5, <2>1, <2>3, <2>4
  <2> HIDE DEF m, a, b
  <2>10. (f[m] \o <<a>> \o Between(a, b)) \o Reverse(g[i - 1] \o <<b>>)
           = f[m] \o Reverse((g[i - 1] \o <<b>> \o Between(b, a)) \o <<a>>)
    <3> DEFINE F == f[m]
               G == g[i - 1]
               out == Between(a, b)
               back == Between(b, a)
    <3>1. /\ F \in Seq(Nodes) /\ G \in Seq(Nodes) /\ out \in Seq(Nodes) /\ back \in Seq(Nodes)
          /\ a \in Nodes /\ b \in Nodes /\ Reverse(back) = out
      BY <2>4, <2>8, <2>9
    <3> HIDE DEF F, G, out, back
    <3>2. FurtherOut(F, a, out, G, b) = FurtherBack(F, a, back, G, b)
      BY <3>1, OneRoadFurther
    <3> QED
      BY <3>2 DEF F, G, out, back, FurtherOut, FurtherBack
  <2>11. line = f[m] \o Reverse(g[i] \o <<a>>)
    BY <2>5, <2>6, <2>7, <2>10
  <2> QED
    BY <2>9, <2>11
<1>8. line = Reverse(Rest(n))
  <2>1. line = f[1] \o Reverse(Rest(n))
    <3>1. n - n + 1 = 1
      BY <1>1
    <3>2. line = f[n - n + 1] \o Reverse(Rest(n))
      BY <1>1, <1>7, Zenon
    <3> QED
      BY <3>1, <3>2
  <2>2. Rest(n) \in Seq(Nodes)
    BY <1>1, <1>5
  <2>3. Reverse(Rest(n)) \in Seq(Nodes)
    <3> HIDE DEF Rest
    <3> QED
      BY <2>2, ReverseIs
  <2> QED
    BY <1>5, <2>1, <2>3, ConcatEmptySeq
<1>9. Rest(n) = BuildVisualRoute(q) /\ Rest(n) \in Seq(Nodes)
  BY <1>1, <1>4, <1>5
<1>10. Reverse(line) = BuildVisualRoute(q)
  <2> HIDE DEF Rest
  <2> QED
    BY <1>8, <1>9, ReverseTwice
<1> QED
  BY <1>10 DEF line, q

LEMMA TrimmedIs ==
  ASSUME RouteInv, pc = "done", NEW k \in DOMAIN path
  PROVE  /\ Trimmed(k) \in Seq(Lots) /\ Trimmed(k) # << >>
         /\ IsInjective(Trimmed(k))
<1>1. path \in Seq(Lots) /\ RouteIsWalk
  BY DEF RouteInv, TypeOK
<1>2. k \in 1 .. Len(path) /\ Len(path) \in Nat /\ k \in Nat \ {0} /\ path # << >>
  BY <1>1
<1>3. \A i \in 1 .. k : i \in 1 .. Len(path) /\ path[i] \in Lots
  BY <1>1, <1>2
<1>4. /\ Trimmed(k) \in Seq(Lots) /\ Len(Trimmed(k)) = k
      /\ \A i \in 1 .. k : Trimmed(k)[i] = path[i]
  <2> DEFINE s == path
  <2>1. \A i \in 1 .. k : s[i] \in Lots
    BY <1>3
  <2> HIDE DEF s
  <2>2. /\ SubSeq(s, 1, k) \in Seq(Lots)
        /\ Len(SubSeq(s, 1, k)) = IF 1 <= k THEN k - 1 + 1 ELSE 0
        /\ \A i \in 1 .. (k - 1 + 1) : SubSeq(s, 1, k)[i] = s[1 + i - 1]
    BY <1>2, <2>1, SubSeqProperties
  <2>3. /\ 1 <= k /\ k - 1 + 1 = k
        /\ \A i \in 1 .. k : 1 + i - 1 = i
    BY <1>2
  <2> QED
    BY <2>2, <2>3 DEF Trimmed, s
<1>5. IsInjective(path)
  BY <1>1, <1>2 DEF RouteIsWalk
<1>6. DOMAIN Trimmed(k) = 1 .. k /\ DOMAIN path = 1 .. Len(path)
  BY <1>1, <1>4
<1>7. IsInjective(Trimmed(k))
  BY <1>3, <1>4, <1>5, <1>6 DEF IsInjective
<1> QED
  BY <1>2, <1>4, <1>7

\* The line drawn for an answer of dijkstra, whole or cut off at the lot fallen
\* back to, follows it lot by lot, whatever is drawn between the lots.
THEOREM DrawnRoutesAreRoutes == Spec => []DrawnRouteIsRoute
<1>1. RouteInv => DrawnRouteIsRoute
  <2> SUFFICES ASSUME RouteInv, pc = "done", NEW k \in DOMAIN path
               PROVE  Follows(BuildVisualRoute(Trimmed(k)), Trimmed(k))
    BY DEF DrawnRouteIsRoute
  <2>1. Trimmed(k) \in Seq(Lots) /\ Trimmed(k) # << >>
    BY TrimmedIs
  <2>2. ASSUME NEW p \in Seq(Lots), p # << >> PROVE Follows(BuildVisualRoute(p), p)
    BY <2>2, LineFollows
  <2> QED
    BY <2>1, <2>2
<1> QED
  BY <1>1, Routes, PTL

\* The line of an answer driven the other way is the same line from its end,
\* however often and in which order the roads were entered.
THEOREM ReturnsAreDrawnAlongTheWayOut == Spec => []ReturnIsDrawnAlongTheWayOut
<1>1. RouteInv => ReturnIsDrawnAlongTheWayOut
  <2> SUFFICES ASSUME RouteInv, pc = "done", NEW k \in DOMAIN path
               PROVE  BuildVisualRoute(Reverse(Trimmed(k))) = Reverse(BuildVisualRoute(Trimmed(k)))
    BY DEF ReturnIsDrawnAlongTheWayOut
  <2>1. Trimmed(k) \in Seq(Lots) /\ Trimmed(k) # << >> /\ IsInjective(Trimmed(k))
    BY TrimmedIs
  <2>2. ASSUME NEW p \in Seq(Lots), p # << >>, IsInjective(p)
        PROVE  BuildVisualRoute(Reverse(p)) = Reverse(BuildVisualRoute(p))
    BY <2>2, LineBackIsLineOut
  <2> QED
    BY <2>1, <2>2
<1> QED
  BY <1>1, Routes, PTL

=============================================================================
