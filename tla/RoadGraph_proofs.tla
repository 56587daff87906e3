-------------------------- MODULE RoadGraph_proofs --------------------------
(***************************************************************************)
(* Facts about the operators of RoadGraph, for every graph: edges and      *)
(* their lookup, routes, and DistanceFrom, which is the least length of a  *)
(* route.                                                                  *)
(***************************************************************************)
EXTENDS RoadGraph, LeastNumber, FiniteSetTheorems, TLAPS

-----------------------------------------------------------------------------
(***************************************************************************)
(* What an element of Graph gives for one of its edges.                    *)
(***************************************************************************)
LEMMA EdgeTypes ==
  ASSUME NEW g \in Graph, NEW i \in EdgeIndex
  PROVE  g[i].source \in Node /\ g[i].target \in Node /\ g[i].length \in Nat
<1>1. g[i] \in [source : Node, target : Node, length : Lengths]
  BY DEF Graph, Edge
<1>2. g[i].source \in Node /\ g[i].target \in Node /\ g[i].length \in Lengths
  BY <1>1
<1> QED
  BY <1>2, GraphAssumption

(***************************************************************************)
(* get_edge_index returns an edge of the right ends and length whenever    *)
(* there is one, and -1 only when there is none.                           *)
(***************************************************************************)
LEMMA GetEdgeIndexFinds ==
  ASSUME NEW g, NEW u, NEW v, NEW cost, EdgesOfCost(g, u, v, cost) # {}
  PROVE  /\ GetEdgeIndex(g, u, v, cost) \in EdgesOfCost(g, u, v, cost)
         /\ GetEdgeIndex(g, u, v, cost) # Absent
<1> DEFINE found == EdgesOfCost(g, u, v, cost)
<1>1. found \subseteq EdgeIndex /\ EdgeIndex \subseteq Nat
  BY GraphAssumption DEF EdgesOfCost, OutEdges, EdgeIndex
<1>2. \E i \in found : \A j \in found : i <= j
  BY <1>1, LeastElement
<1>3. GetEdgeIndex(g, u, v, cost) \in found
  BY <1>2 DEF GetEdgeIndex
<1> QED
  BY <1>1, <1>3 DEF Absent

(***************************************************************************)
(* The empty route, and a route extended by one edge.                      *)
(***************************************************************************)
LEMMA EmptyRoute ==
  ASSUME NEW g, NEW s \in Node
  PROVE  HasRoute(g, s, s, 0)
<1> DEFINE visit == [j \in 0 .. 0 |-> s]
           cost == [j \in 0 .. 0 |-> 0]
<1>1. visit \in [0 .. 0 -> Node] /\ cost \in [0 .. 0 -> Nat]
  OBVIOUS
<1>2. visit[0] = s /\ cost[0] = 0
  OBVIOUS
<1>3. IsRoute(g, s, 0, visit, cost)
  BY <1>1, <1>2 DEF IsRoute
<1> HIDE DEF visit, cost
<1> QED
  BY <1>1, <1>2, <1>3 DEF HasRoute

LEMMA ExtendedRoute ==
  ASSUME NEW g \in Graph, NEW s \in Node, NEW u, NEW d,
         HasRoute(g, s, u, d), NEW i \in OutEdges(g, u)
  PROVE  HasRoute(g, s, g[i].target, d + g[i].length)
<1>1. PICK k \in Nat :
        \E visit \in [0 .. k -> Node], cost \in [0 .. k -> Nat] :
          IsRoute(g, s, k, visit, cost) /\ visit[k] = u /\ cost[k] = d
  BY DEF HasRoute
<1>2. PICK visit \in [0 .. k -> Node], cost \in [0 .. k -> Nat] :
        IsRoute(g, s, k, visit, cost) /\ visit[k] = u /\ cost[k] = d
  BY <1>1
<1>3. g[i].target \in Node /\ g[i].length \in Nat
  BY EdgeTypes DEF OutEdges
<1> DEFINE n == [j \in 0 .. k + 1 |-> IF j = k + 1 THEN g[i].target ELSE visit[j]]
           c == [j \in 0 .. k + 1 |-> IF j = k + 1 THEN d + g[i].length ELSE cost[j]]
<1>4. n \in [0 .. k + 1 -> Node]
  BY <1>3
<1>5. c \in [0 .. k + 1 -> Nat]
  <2>1. d \in Nat
    BY <1>2
  <2> QED
    BY <1>3, <2>1
<1>6. n[0] = s /\ c[0] = 0
  BY <1>2 DEF IsRoute
<1>7. ASSUME NEW j \in 1 .. k + 1
      PROVE  \E e \in OutEdges(g, n[j - 1]) :
               g[e].target = n[j] /\ c[j] = c[j - 1] + g[e].length
  <2>1. CASE j = k + 1
    <3>1. n[j] = g[i].target /\ c[j] = d + g[i].length
      BY <2>1
    <3>2. n[j - 1] = u /\ c[j - 1] = d
      BY <1>2, <2>1
    <3> QED
      BY <3>1, <3>2
  <2>2. CASE j # k + 1
    <3>1. j \in 1 .. k /\ j - 1 \in 0 .. k
      BY <2>2
    <3>2. n[j] = visit[j] /\ n[j - 1] = visit[j - 1]
      BY <3>1
    <3>3. c[j] = cost[j] /\ c[j - 1] = cost[j - 1]
      BY <3>1
    <3> QED
      BY <1>2, <3>1, <3>2, <3>3 DEF IsRoute
  <2> QED
    BY <2>1, <2>2
<1>8. IsRoute(g, s, k + 1, n, c)
  BY <1>4, <1>5, <1>6, <1>7 DEF IsRoute
<1>9. n[k + 1] = g[i].target /\ c[k + 1] = d + g[i].length
  OBVIOUS
<1>10. k + 1 \in Nat
  OBVIOUS
<1> HIDE DEF n, c
<1>11. /\ IsRoute(g, s, k + 1, n, c)
       /\ n[k + 1] = g[i].target
       /\ c[k + 1] = d + g[i].length
  BY <1>8, <1>9
<1>12. \E m \in Nat :
         \E visit2 \in [0 .. m -> Node], cost2 \in [0 .. m -> Nat] :
           /\ IsRoute(g, s, m, visit2, cost2)
           /\ visit2[m] = g[i].target
           /\ cost2[m] = d + g[i].length
  BY <1>4, <1>5, <1>10, <1>11
<1> QED
  BY <1>12 DEF HasRoute

(***************************************************************************)
(* The length of a route so far never exceeds its whole length.            *)
(***************************************************************************)
LEMMA RouteCostsGrow ==
  ASSUME NEW g \in Graph, NEW s, NEW k \in Nat, NEW visit, NEW cost,
         IsRoute(g, s, k, visit, cost), NEW j \in 0 .. k
  PROVE  cost[j] <= cost[k]
<1> DEFINE T == {d \in 0 .. k : cost[k - d] > cost[k]}
<1>0. cost \in [0 .. k -> Nat]
  BY DEF IsRoute
<1> SUFFICES ASSUME cost[j] > cost[k] PROVE FALSE
  BY <1>0
<1>1. k - j \in T
  <2>1. k - j \in 0 .. k /\ k - (k - j) = j
    OBVIOUS
  <2> QED
    BY <2>1
<1>2. PICK d \in T : \A e \in T : d <= e
  <2>1. T \in SUBSET Nat
    OBVIOUS
  <2> HIDE DEF T
  <2> QED
    BY <1>1, <2>1, LeastElement
<1>3. d # 0 /\ d - 1 \in 0 .. k /\ d - 1 \notin T
  <2>1. d \in 0 .. k /\ cost[k - d] > cost[k]
    OBVIOUS
  <2>2. d # 0
    BY <1>0, <2>1
  <2>3. d - 1 \in 0 .. k /\ ~(d <= d - 1)
    BY <2>1, <2>2
  <2> QED
    BY <1>2, <2>2, <2>3
<1>4. cost[k - (d - 1)] <= cost[k]
  BY <1>3 DEF IsRoute
<1>5. PICK i \in OutEdges(g, visit[k - d]) :
        cost[k - d + 1] = cost[k - d] + g[i].length
  <2>1. k - d + 1 \in 1 .. k /\ k - d + 1 - 1 = k - d
    BY <1>3
  <2>2. \A m \in 1 .. k : \E i \in OutEdges(g, visit[m - 1]) :
          cost[m] = cost[m - 1] + g[i].length
    BY DEF IsRoute
  <2>4. d \in 0 .. k
    OBVIOUS
  <2> HIDE DEF T
  <2>3. \E i \in OutEdges(g, visit[(k - d + 1) - 1]) :
          cost[k - d + 1] = cost[(k - d + 1) - 1] + g[i].length
    BY <2>1, <2>2
  <2> QED
    BY <2>1, <2>3, <2>4
<1>6. g[i].length \in Nat /\ cost[k - d] \in Nat /\ cost[k] \in Nat
  BY EdgeTypes DEF OutEdges, IsRoute
<1>7. k - (d - 1) = k - d + 1
  OBVIOUS
<1> QED
  BY <1>2, <1>4, <1>5, <1>6, <1>7

-----------------------------------------------------------------------------
(***************************************************************************)
(* The distances of every round of DistanceFrom.                           *)
(***************************************************************************)
Distances == [Node -> Nat \cup {Unreachable}]

LEMMA OneMoreEdgeTypes ==
  ASSUME NEW g \in Graph, NEW d \in Distances
  PROVE  /\ OneMoreEdge(g, d) \in Distances
         /\ \A v \in Node :
              /\ WaysTo(g, d, v) \subseteq Nat
              /\ WaysTo(g, d, v) = {} => OneMoreEdge(g, d)[v] = Unreachable
              /\ WaysTo(g, d, v) # {} =>
                   /\ OneMoreEdge(g, d)[v] \in WaysTo(g, d, v)
                   /\ \A l \in WaysTo(g, d, v) : OneMoreEdge(g, d)[v] <= l
<1>1. ASSUME NEW v \in Node PROVE WaysTo(g, d, v) \subseteq Nat
  BY EdgeTypes DEF WaysTo, Distances, Unreachable
<1>2. ASSUME NEW v \in Node, WaysTo(g, d, v) # {}
      PROVE  /\ LeastOf(WaysTo(g, d, v)) \in WaysTo(g, d, v)
             /\ \A l \in WaysTo(g, d, v) : LeastOf(WaysTo(g, d, v)) <= l
  <2>1. \E l \in WaysTo(g, d, v) : \A m \in WaysTo(g, d, v) : l <= m
    BY <1>1, <1>2, LeastElement
  <2> QED
    BY <1>2, <2>1 DEF LeastOf
<1>3. ASSUME NEW v \in Node, WaysTo(g, d, v) = {}
      PROVE  LeastOf(WaysTo(g, d, v)) = Unreachable
  BY <1>3 DEF LeastOf
<1>4. \A v \in Node : OneMoreEdge(g, d)[v] = LeastOf(WaysTo(g, d, v))
  BY DEF OneMoreEdge
<1>5. \A v \in Node : LeastOf(WaysTo(g, d, v)) \in Nat \cup {Unreachable}
  BY <1>1, <1>2, <1>3
<1>6. OneMoreEdge(g, d) \in Distances
  BY <1>5 DEF OneMoreEdge, Distances
<1> QED
  BY <1>1, <1>2, <1>3, <1>4, <1>6

(***************************************************************************)
(* The recursion of DistanceFrom is well defined: there are rounds, and    *)
(* the last of them is its value.                                          *)
(***************************************************************************)
IsRounds(g, s, dist) ==
  /\ dist \in [0 .. NumNodes - 1 -> Distances]
  /\ dist[0] = NoEdges(s)
  /\ \A k \in 1 .. NumNodes - 1 : dist[k] = OneMoreEdge(g, dist[k - 1])

LEMMA RoundsTyped ==
  ASSUME NEW g \in Graph, NEW s \in Node, NEW dist,
         dist[0] = NoEdges(s),
         \A k \in 1 .. NumNodes - 1 : dist[k] = OneMoreEdge(g, dist[k - 1])
  PROVE  \A k \in 0 .. NumNodes - 1 : dist[k] \in Distances
<1> DEFINE n == NumNodes - 1
<1>1. n \in Nat /\ 0 \in 0 .. n
  BY GraphAssumption
<1>2. NoEdges(s) \in Distances
  BY DEF NoEdges, Distances
<1> DEFINE T == {k \in 0 .. n : dist[k] \notin Distances}
<1> SUFFICES ASSUME T # {} PROVE FALSE
  OBVIOUS
<1>3. T \in SUBSET Nat
  OBVIOUS
<1>4. PICK k \in T : \A m \in T : k <= m
  <2> HIDE DEF T
  <2> QED
    BY <1>3, LeastElement
<1>5. k \in 0 .. n /\ dist[k] \notin Distances
  OBVIOUS
<1>6. k \in 1 .. n /\ k - 1 \in 0 .. n /\ ~ (k <= k - 1)
  BY <1>1, <1>2, <1>5
<1>7. dist[k - 1] \in Distances
  BY <1>4, <1>6
<1> HIDE DEF T
<1> QED
  BY <1>5, <1>6, <1>7, OneMoreEdgeTypes

LEMMA RoundsUnfold ==
  ASSUME NEW g \in Graph, NEW s \in Node, NEW dist,
         dist = [k \in 0 .. NumNodes - 1 |->
                   IF k = 0 THEN NoEdges(s) ELSE OneMoreEdge(g, dist[k - 1])]
  PROVE  IsRounds(g, s, dist)
<1>1. NumNodes - 1 \in Nat /\ 0 \in 0 .. NumNodes - 1
  BY GraphAssumption
<1>2. dist \in [0 .. NumNodes - 1 ->
                {IF k = 0 THEN NoEdges(s) ELSE OneMoreEdge(g, dist[k - 1]) :
                 k \in 0 .. NumNodes - 1}]
  OBVIOUS
<1>3. dist[0] = NoEdges(s)
  BY <1>1
<1>4. \A k \in 1 .. NumNodes - 1 : dist[k] = OneMoreEdge(g, dist[k - 1])
  BY <1>1
<1>5. \A k \in 0 .. NumNodes - 1 : dist[k] \in Distances
  BY <1>3, <1>4, RoundsTyped, Zenon
<1>6. dist \in [0 .. NumNodes - 1 -> Distances]
  BY <1>2, <1>5, Zenon
<1> QED
  BY <1>3, <1>4, <1>6, Zenon DEF IsRounds

LEMMA DistanceRounds ==
  ASSUME NEW g \in Graph, NEW s \in Node
  PROVE  \E dist : IsRounds(g, s, dist) /\ DistanceFrom(g, s) = dist[NumNodes - 1]
<1> DEFINE n == NumNodes - 1
           Body(f) == [k \in 0 .. n |-> IF k = 0 THEN NoEdges(s)
                                        ELSE OneMoreEdge(g, f[k - 1])]
           dist == CHOOSE f : f = Body(f)
           step == [k \in 1 .. n |-> [d \in Distances |-> OneMoreEdge(g, d)]]
<1>1. n \in Nat
  BY GraphAssumption
<1>2. NoEdges(s) \in Distances
  BY DEF NoEdges, Distances
<1>3. step \in [1 .. n -> [Distances -> Distances]]
  BY OneMoreEdgeTypes
<1>4. PICK f \in [0 .. n -> Distances] :
        f[0] = NoEdges(s) /\ \A k \in 1 .. n : f[k] = step[k][f[k - 1]]
  <2>1. StepsWithin(n, Distances, step)
    BY <1>3 DEF StepsWithin
  <2> HIDE DEF step, n
  <2>2. \E f : Recurs(f, n, Distances, NoEdges(s), step)
    BY <1>1, <1>2, <2>1, RecursionExists
  <2> QED
    BY <2>2 DEF Recurs
<1>5. ASSUME NEW k \in 1 .. n PROVE f[k] = OneMoreEdge(g, f[k - 1])
  <2>1. k - 1 \in 0 .. n
    BY <1>1
  <2> QED
    BY <1>4, <2>1
<1>6. f = Body(f)
  <2>1. \A k \in 0 .. n : f[k] = Body(f)[k]
    <3> SUFFICES ASSUME NEW k \in 0 .. n PROVE f[k] = Body(f)[k]
      OBVIOUS
    <3>1. CASE k = 0
      BY <1>4, <3>1
    <3>2. CASE k # 0
      BY <1>5, <3>2
    <3> QED
      BY <3>1, <3>2
  <2> QED
    BY <2>1
<1>7. dist = Body(dist)
  <2> HIDE DEF Body
  <2> QED
    BY <1>6
<1>8. DistanceFrom(g, s) = dist[n]
  BY DEF DistanceFrom
<1> HIDE DEF dist
<1>9. IsRounds(g, s, dist)
  BY <1>7, RoundsUnfold
<1> QED
  BY <1>8, <1>9

(***************************************************************************)
(* What a round knows is the length of a route.                            *)
(***************************************************************************)
LEMMA RoundsAreRoutes ==
  ASSUME NEW g \in Graph, NEW s \in Node, NEW dist, IsRounds(g, s, dist),
         NEW k \in 0 .. NumNodes - 1, NEW v \in Node, dist[k][v] # Unreachable
  PROVE  HasRoute(g, s, v, dist[k][v])
<1> DEFINE n == NumNodes - 1
           Wrong(m) == \E w \in Node : /\ dist[m][w] # Unreachable
                                       /\ ~ HasRoute(g, s, w, dist[m][w])
           T == {m \in 0 .. n : Wrong(m)}
<1>0. n \in Nat
  BY GraphAssumption
<1> SUFFICES ASSUME T # {} PROVE FALSE
  OBVIOUS
<1>1. T \in SUBSET Nat
  OBVIOUS
<1>2. PICK m \in T : \A l \in T : m <= l
  <2> HIDE DEF T
  <2> QED
    BY <1>1, LeastElement
<1>3. PICK w \in Node : dist[m][w] # Unreachable /\ ~ HasRoute(g, s, w, dist[m][w])
  OBVIOUS
<1>4. m # 0
  <2>1. dist[0][w] = IF w = s THEN 0 ELSE Unreachable
    BY DEF IsRounds, NoEdges
  <2> QED
    BY <1>3, <2>1, EmptyRoute
<1>5. m \in 1 .. n /\ m - 1 \in 0 .. n /\ ~ Wrong(m - 1)
  <2>1. m \in 0 .. n
    OBVIOUS
  <2>2. m \in 1 .. n /\ m - 1 \in 0 .. n /\ ~ (m <= m - 1)
    BY <1>0, <1>4, <2>1
  <2>3. m - 1 \notin T
    BY <1>2, <2>2
  <2> HIDE DEF Wrong
  <2> QED
    BY <2>2, <2>3
<1> DEFINE d == dist[m - 1]
<1>6. d \in Distances /\ dist[m] = OneMoreEdge(g, d)
  BY <1>5 DEF IsRounds
<1>7. dist[m][w] \in WaysTo(g, d, w)
  BY <1>3, <1>6, OneMoreEdgeTypes
<1>8. CASE dist[m][w] = d[w] /\ d[w] # Unreachable
  BY <1>3, <1>5, <1>8
<1>9. CASE \E i \in EdgeIndex : /\ g[i].target = w
                               /\ d[g[i].source] # Unreachable
                               /\ dist[m][w] = d[g[i].source] + g[i].length
  <2> PICK i \in EdgeIndex : /\ g[i].target = w
                             /\ d[g[i].source] # Unreachable
                             /\ dist[m][w] = d[g[i].source] + g[i].length
    BY <1>9
  <2>1. g[i].source \in Node
    BY EdgeTypes
  <2>2. HasRoute(g, s, g[i].source, d[g[i].source])
    BY <1>5, <2>1
  <2>3. i \in OutEdges(g, g[i].source)
    BY DEF OutEdges
  <2>4. HasRoute(g, s, g[i].target, d[g[i].source] + g[i].length)
    BY <2>2, <2>3, ExtendedRoute
  <2> QED
    BY <1>3, <2>4
<1> QED
  BY <1>7, <1>8, <1>9 DEF WaysTo

(***************************************************************************)
(* The beginning of a route is a route.                                    *)
(***************************************************************************)
LEMMA BeginningIsRoute ==
  ASSUME NEW g, NEW s, NEW k \in Nat, NEW visit, NEW cost,
         IsRoute(g, s, k, visit, cost), NEW j \in 0 .. k
  PROVE  IsRoute(g, s, j, [m \in 0 .. j |-> visit[m]], [m \in 0 .. j |-> cost[m]])
<1> DEFINE n == [m \in 0 .. j |-> visit[m]]
           c == [m \in 0 .. j |-> cost[m]]
<1>1. visit \in [0 .. k -> Node] /\ cost \in [0 .. k -> Nat]
  BY DEF IsRoute
<1>2. n \in [0 .. j -> Node] /\ c \in [0 .. j -> Nat]
  BY <1>1
<1>3. \A m \in 0 .. j : n[m] = visit[m] /\ c[m] = cost[m]
  OBVIOUS
<1>4. n[0] = s /\ c[0] = 0
  BY <1>3 DEF IsRoute
<1>5. ASSUME NEW m \in 1 .. j
      PROVE  \E i \in OutEdges(g, n[m - 1]) :
               g[i].target = n[m] /\ c[m] = c[m - 1] + g[i].length
  <2>1. m \in 1 .. k /\ m \in 0 .. j /\ m - 1 \in 0 .. j
    OBVIOUS
  <2>2. \E i \in OutEdges(g, visit[m - 1]) :
          g[i].target = visit[m] /\ cost[m] = cost[m - 1] + g[i].length
    BY <2>1 DEF IsRoute
  <2> HIDE DEF n, c
  <2> QED
    BY <1>3, <2>1, <2>2
<1> HIDE DEF n, c
<1>6. IsRoute(g, s, j, n, c)
  BY <1>2, <1>4, <1>5 DEF IsRoute
<1> QED
  BY <1>6 DEF n, c

(***************************************************************************)
(* The length so far of a route grows all along it.                        *)
(***************************************************************************)
LEMMA RouteCostsWithin ==
  ASSUME NEW g \in Graph, NEW s, NEW k \in Nat, NEW visit, NEW cost,
         IsRoute(g, s, k, visit, cost),
         NEW a \in 0 .. k, NEW b \in 0 .. k, a <= b
  PROVE  cost[a] <= cost[b]
<1> DEFINE n == [m \in 0 .. b |-> visit[m]]
           c == [m \in 0 .. b |-> cost[m]]
<1>1. IsRoute(g, s, b, n, c)
  BY BeginningIsRoute
<1>2. b \in Nat /\ a \in 0 .. b /\ b \in 0 .. b
  OBVIOUS
<1>3. c[a] <= c[b]
  <2> HIDE DEF n, c
  <2> QED
    BY <1>1, <1>2, RouteCostsGrow
<1> QED
  BY <1>2, <1>3

(***************************************************************************)
(* A route of k edges to v, and its last edge.                             *)
(***************************************************************************)
HasRouteOf(g, s, k, v, l) ==
  \E visit \in [0 .. k -> Node], cost \in [0 .. k -> Nat] :
    IsRoute(g, s, k, visit, cost) /\ visit[k] = v /\ cost[k] = l

LEMMA LastEdge ==
  ASSUME NEW g \in Graph, NEW s, NEW k \in Nat \ {0}, NEW v, NEW l,
         HasRouteOf(g, s, k, v, l)
  PROVE  \E u \in Node, m \in Nat : \E i \in OutEdges(g, u) :
           /\ HasRouteOf(g, s, k - 1, u, m)
           /\ g[i].target = v
           /\ l = m + g[i].length
<1>1. PICK visit \in [0 .. k -> Node], cost \in [0 .. k -> Nat] :
        IsRoute(g, s, k, visit, cost) /\ visit[k] = v /\ cost[k] = l
  BY DEF HasRouteOf
<1>2. k \in 1 .. k /\ k - 1 \in 0 .. k /\ k \in Nat /\ k - 1 \in Nat
  OBVIOUS
<1>3. PICK i \in OutEdges(g, visit[k - 1]) :
        g[i].target = visit[k] /\ cost[k] = cost[k - 1] + g[i].length
  BY <1>1, <1>2 DEF IsRoute
<1>4. HasRouteOf(g, s, k - 1, visit[k - 1], cost[k - 1])
  <2> DEFINE n == [m \in 0 .. k - 1 |-> visit[m]]
             c == [m \in 0 .. k - 1 |-> cost[m]]
  <2>1. IsRoute(g, s, k - 1, n, c)
    BY <1>1, <1>2, BeginningIsRoute
  <2>2. n[k - 1] = visit[k - 1] /\ c[k - 1] = cost[k - 1]
    BY <1>2
  <2>3. n \in [0 .. k - 1 -> Node] /\ c \in [0 .. k - 1 -> Nat]
    BY <2>1 DEF IsRoute
  <2> HIDE DEF n, c
  <2> QED
    BY <2>1, <2>2, <2>3 DEF HasRouteOf
<1>5. visit[k - 1] \in Node /\ cost[k - 1] \in Nat
  BY <1>2
<1> QED
  BY <1>1, <1>3, <1>4, <1>5

LEMMA RouteOfType ==
  ASSUME NEW g, NEW s, NEW k \in Nat, NEW v, NEW l, HasRouteOf(g, s, k, v, l)
  PROVE  v \in Node /\ l \in Nat /\ (k = 0 => v = s /\ l = 0)
BY DEF HasRouteOf, IsRoute

(***************************************************************************)
(* A route with an edge put in front of it.                                *)
(***************************************************************************)
LEMMA PrependedRoute ==
  ASSUME NEW g \in Graph, NEW s \in Node, NEW i \in OutEdges(g, s), NEW v, NEW l,
         HasRoute(g, g[i].target, v, l)
  PROVE  HasRoute(g, s, v, g[i].length + l)
<1> DEFINE u == g[i].target
           Fails(k) == \E w \in Node, d \in Nat :
                         /\ HasRouteOf(g, u, k, w, d)
                         /\ ~ HasRoute(g, s, w, g[i].length + d)
           T == {k \in Nat : Fails(k)}
<1>0. u \in Node /\ g[i].length \in Nat
  BY EdgeTypes DEF OutEdges
<1>1. PICK k0 \in Nat : HasRouteOf(g, u, k0, v, l)
  BY DEF HasRoute, HasRouteOf
<1>2. v \in Node /\ l \in Nat
  BY <1>1, RouteOfType
<1> SUFFICES ASSUME T # {} PROVE FALSE
  BY <1>1, <1>2
<1>3. PICK k \in T : \A m \in T : k <= m
  <2>1. T \in SUBSET Nat
    OBVIOUS
  <2> HIDE DEF T
  <2> QED
    BY <2>1, LeastElement
<1>4. k \in Nat /\ Fails(k)
  OBVIOUS
<1>5. PICK w \in Node, d \in Nat :
        HasRouteOf(g, u, k, w, d) /\ ~ HasRoute(g, s, w, g[i].length + d)
  BY <1>4
<1>6. k # 0
  <2> SUFFICES ASSUME k = 0 PROVE FALSE
    OBVIOUS
  <2>1. w = u /\ d = 0
    BY <1>4, <1>5, RouteOfType
  <2>2. HasRoute(g, s, u, 0 + g[i].length)
    BY EmptyRoute, ExtendedRoute
  <2>3. 0 + g[i].length = g[i].length + d
    BY <1>0, <2>1
  <2> QED
    BY <1>5, <2>1, <2>2, <2>3
<1>7. k \in Nat \ {0} /\ k - 1 \in Nat /\ ~ (k <= k - 1)
  BY <1>4, <1>6
<1>8. ~ Fails(k - 1)
  <2>1. k - 1 \notin T
    BY <1>3, <1>7
  <2> HIDE DEF Fails
  <2> QED
    BY <1>7, <2>1
<1> HIDE DEF T, u
<1>9. PICK x \in Node, m \in Nat : \E j \in OutEdges(g, x) :
        HasRouteOf(g, u, k - 1, x, m) /\ g[j].target = w /\ d = m + g[j].length
  BY <1>5, <1>7, LastEdge
<1>10. PICK j \in OutEdges(g, x) :
        HasRouteOf(g, u, k - 1, x, m) /\ g[j].target = w /\ d = m + g[j].length
  BY <1>9
<1>11. HasRoute(g, s, x, g[i].length + m)
  BY <1>8, <1>10
<1>12. HasRoute(g, s, w, (g[i].length + m) + g[j].length)
  BY <1>10, <1>11, ExtendedRoute
<1>13. g[j].length \in Nat
  BY EdgeTypes DEF OutEdges
<1>14. (g[i].length + m) + g[j].length = g[i].length + d
  BY <1>0, <1>10, <1>13
<1> QED
  BY <1>5, <1>12, <1>14

(***************************************************************************)
(* Round m knows every route of at most m edges, or a shorter one.         *)
(***************************************************************************)
LEMMA RoundsCoverRoutes ==
  ASSUME NEW g \in Graph, NEW s \in Node, NEW dist, IsRounds(g, s, dist),
         NEW k \in 0 .. NumNodes - 1, NEW v, NEW l, HasRouteOf(g, s, k, v, l)
  PROVE  dist[NumNodes - 1][v] # Unreachable /\ dist[NumNodes - 1][v] <= l
<1> DEFINE n == NumNodes - 1
           Covers(m) ==
             \A j \in 0 .. m : \A w, c : HasRouteOf(g, s, j, w, c) =>
               dist[m][w] # Unreachable /\ dist[m][w] <= c
           T == {m \in 0 .. n : ~ Covers(m)}
<1>0. n \in Nat /\ k \in 0 .. n /\ n \in 0 .. n
  BY GraphAssumption
<1> SUFFICES ASSUME T # {} PROVE FALSE
  BY <1>0
<1>1. T \in SUBSET Nat
  OBVIOUS
<1>2. PICK m \in T : \A x \in T : m <= x
  <2> HIDE DEF T
  <2> QED
    BY <1>1, LeastElement
<1>3. m \in 0 .. n /\ ~ Covers(m)
  OBVIOUS
<1>4. PICK j \in 0 .. m, w \in Node, c \in Nat :
        /\ HasRouteOf(g, s, j, w, c)
        /\ ~ (dist[m][w] # Unreachable /\ dist[m][w] <= c)
  BY <1>3, RouteOfType
<1>5. w \in Node /\ c \in Nat /\ (j = 0 => w = s /\ c = 0)
  BY <1>3, <1>4, RouteOfType
<1>6. m # 0
  <2>1. dist[0][s] = 0
    BY DEF IsRounds, NoEdges
  <2> QED
    BY <1>4, <1>5, <2>1 DEF Unreachable
<1>7. m \in 1 .. n /\ m - 1 \in 0 .. n /\ Covers(m - 1)
  <2>1. m \in 1 .. n /\ m - 1 \in 0 .. n /\ ~ (m <= m - 1)
    BY <1>0, <1>3, <1>6
  <2>2. m - 1 \notin T
    BY <1>2, <2>1
  <2> HIDE DEF Covers
  <2> QED
    BY <2>1, <2>2
<1> DEFINE d == dist[m - 1]
<1>8. d \in Distances /\ dist[m] = OneMoreEdge(g, d)
  BY <1>7 DEF IsRounds
<1>9. \E x \in WaysTo(g, d, w) : x <= c
  <2>1. CASE j # m
    <3>1. j \in 0 .. m - 1
      BY <1>7, <2>1
    <3>2. d[w] # Unreachable /\ d[w] <= c
      BY <1>4, <1>7, <3>1
    <3>3. d[w] \in WaysTo(g, d, w)
      BY <3>2 DEF WaysTo
    <3> QED
      BY <3>2, <3>3
  <2>2. CASE j = m
    <3>0. PICK u \in Node, b \in Nat :
            \E i \in OutEdges(g, u) :
              /\ HasRouteOf(g, s, m - 1, u, b)
              /\ g[i].target = w
              /\ c = b + g[i].length
      <4>1. m \in Nat \ {0}
        BY <1>7
      <4> QED
        BY <1>4, <2>2, <4>1, LastEdge
    <3>1. PICK i \in OutEdges(g, u) :
            /\ HasRouteOf(g, s, m - 1, u, b)
            /\ g[i].target = w
            /\ c = b + g[i].length
      BY <3>0
    <3>2. m - 1 \in 0 .. m - 1
      BY <1>7
    <3>3. d[u] # Unreachable /\ d[u] <= b
      BY <1>7, <3>1, <3>2
    <3>4. d[u] \in Nat
      BY <1>8, <3>3 DEF Distances
    <3>5. i \in EdgeIndex /\ g[i].source = u /\ g[i].length \in Nat
      BY EdgeTypes DEF OutEdges
    <3>6. d[u] + g[i].length \in WaysTo(g, d, w)
      BY <3>1, <3>3, <3>5 DEF WaysTo
    <3> QED
      BY <3>1, <3>3, <3>4, <3>5, <3>6
  <2> QED
    BY <2>1, <2>2
<1>10. PICK x \in WaysTo(g, d, w) : x <= c
  BY <1>9
<1>11. x \in Nat /\ dist[m][w] \in Nat /\ dist[m][w] <= x
  BY <1>5, <1>8, OneMoreEdgeTypes
<1> QED
  BY <1>4, <1>5, <1>10, <1>11 DEF Unreachable

(***************************************************************************)
(* A route that comes back to a node it has visited may leave the loop     *)
(* out: it is shorter in edges and no longer.                              *)
(***************************************************************************)
LEMMA RouteWithoutLoop ==
  ASSUME NEW g \in Graph, NEW s, NEW k \in Nat, NEW visit, NEW cost,
         IsRoute(g, s, k, visit, cost),
         NEW a \in 0 .. k, NEW b \in 0 .. k, a < b, visit[a] = visit[b]
  PROVE  \E l \in Nat :
           l <= cost[k] /\ HasRouteOf(g, s, k - (b - a), visit[k], l)
<1> DEFINE h == k - (b - a)
           n == [m \in 0 .. h |-> IF m <= a THEN visit[m] ELSE visit[m + (b - a)]]
           c == [m \in 0 .. h |-> IF m <= a THEN cost[m]
                                   ELSE cost[m + (b - a)] - (cost[b] - cost[a])]
<1>1. visit \in [0 .. k -> Node] /\ cost \in [0 .. k -> Nat]
  BY DEF IsRoute
<1>2. h \in Nat /\ a \in 0 .. h /\ h <= k /\ h # k
  OBVIOUS
<1>3. cost[a] \in Nat /\ cost[b] \in Nat
  BY <1>1
<1>4. ASSUME NEW m \in 0 .. k, m >= b PROVE cost[b] <= cost[m]
  BY <1>4, RouteCostsWithin
<1>5. cost[a] <= cost[b]
  BY RouteCostsWithin
<1>6. ASSUME NEW m \in 0 .. h, ~ (m <= a)
      PROVE  m + (b - a) \in 0 .. k /\ m + (b - a) >= b
  BY <1>2, <1>6
<1>7. n \in [0 .. h -> Node]
  BY <1>1, <1>2, <1>6
<1>8. c \in [0 .. h -> Nat]
  <2>1. ASSUME NEW m \in 0 .. h, ~ (m <= a)
        PROVE  cost[m + (b - a)] - (cost[b] - cost[a]) \in Nat
    <3>1. cost[m + (b - a)] \in Nat /\ cost[b] <= cost[m + (b - a)]
      BY <1>1, <1>4, <1>6, <2>1
    <3> QED
      BY <1>3, <1>5, <3>1
  <2>2. ASSUME NEW m \in 0 .. h, m <= a PROVE cost[m] \in Nat
    BY <1>1, <1>2, <2>2
  <2> HIDE DEF h
  <2> QED
    BY <2>1, <2>2
<1>9. n[0] = s /\ c[0] = 0
  BY <1>2 DEF IsRoute
<1>10. ASSUME NEW m \in 1 .. h
       PROVE  \E i \in OutEdges(g, n[m - 1]) :
                g[i].target = n[m] /\ c[m] = c[m - 1] + g[i].length
  <2>1. m \in 0 .. h /\ m - 1 \in 0 .. h
    BY <1>2
  <2>2. CASE m <= a
    <3>1. m \in 1 .. k /\ m - 1 <= a
      BY <2>2
    <3>2. \E i \in OutEdges(g, visit[m - 1]) :
            g[i].target = visit[m] /\ cost[m] = cost[m - 1] + g[i].length
      BY <3>1 DEF IsRoute
    <3>3. /\ n[m] = visit[m] /\ n[m - 1] = visit[m - 1]
          /\ c[m] = cost[m] /\ c[m - 1] = cost[m - 1]
      BY <2>1, <2>2, <3>1
    <3> HIDE DEF n, c
    <3> QED
      BY <3>2, <3>3
  <2>3. CASE ~ (m <= a)
    <3> DEFINE x == m + (b - a)
    <3>1. x \in 1 .. k /\ x - 1 \in 0 .. k /\ x >= b /\ x \in 0 .. k
      BY <1>2, <1>6, <2>3
    <3>2. PICK i \in OutEdges(g, visit[x - 1]) :
            g[i].target = visit[x] /\ cost[x] = cost[x - 1] + g[i].length
      BY <3>1 DEF IsRoute
    <3>3. n[m] = visit[x] /\ c[m] = cost[x] - (cost[b] - cost[a])
      BY <2>1, <2>3
    <3>4. n[m - 1] = visit[x - 1] /\ c[m - 1] = cost[x - 1] - (cost[b] - cost[a])
      <4>1. CASE m - 1 <= a
        <5>1. m - 1 = a /\ x - 1 = b
          BY <2>3, <4>1
        <5>2. n[m - 1] = visit[a] /\ c[m - 1] = cost[a]
          BY <2>1, <5>1
        <5> QED
          BY <1>3, <5>1, <5>2
      <4>2. CASE ~ (m - 1 <= a)
        <5>1. (m - 1) + (b - a) = x - 1
          OBVIOUS
        <5> QED
          BY <2>1, <4>2, <5>1
      <4> QED
        BY <4>1, <4>2
    <3>5. g[i].length \in Nat /\ cost[x] \in Nat /\ cost[x - 1] \in Nat
      BY <1>1, <3>1, EdgeTypes DEF OutEdges
    <3> HIDE DEF n, c, x
    <3>6. c[m] = c[m - 1] + g[i].length
      BY <1>3, <3>2, <3>3, <3>4, <3>5
    <3> QED
      BY <3>2, <3>3, <3>4, <3>6
  <2> QED
    BY <2>2, <2>3
<1>11. n[h] = visit[k] /\ c[h] \in Nat /\ c[h] <= cost[k]
  <2>1. h \in 0 .. h /\ k \in 0 .. k /\ h + (b - a) = k
    BY <1>2
  <2>2. cost[k] \in Nat
    BY <1>1, <2>1
  <2>3. CASE h <= a
    <3>1. h = a /\ b = k
      BY <1>2, <2>3
    <3> QED
      BY <1>3, <1>5, <2>1, <3>1
  <2>4. CASE ~ (h <= a)
    <3>1. n[h] = visit[k] /\ c[h] = cost[k] - (cost[b] - cost[a])
      BY <2>1, <2>4
    <3>2. c[h] \in Nat
      BY <1>8, <2>1
    <3> HIDE DEF n, c, h
    <3> QED
      BY <1>3, <1>5, <2>2, <3>1, <3>2
  <2> QED
    BY <2>3, <2>4
<1> HIDE DEF n, c
<1>12. IsRoute(g, s, h, n, c)
  BY <1>7, <1>8, <1>9, <1>10 DEF IsRoute
<1>13. HasRouteOf(g, s, h, visit[k], c[h])
  BY <1>7, <1>8, <1>11, <1>12 DEF HasRouteOf
<1> QED
  BY <1>11, <1>13

(***************************************************************************)
(* For every route there is one of fewer than NumNodes edges that is no    *)
(* longer: one with more edges visits a node twice.                        *)
(***************************************************************************)
LEMMA ShortRoute ==
  ASSUME NEW g \in Graph, NEW s \in Node, NEW v, NEW d, HasRoute(g, s, v, d)
  PROVE  \E k \in 0 .. NumNodes - 1, l \in Nat :
           l <= d /\ HasRouteOf(g, s, k, v, l)
<1> DEFINE T == {k \in Nat : \E l \in Nat : l <= d /\ HasRouteOf(g, s, k, v, l)}
<1>1. T # {}
  <2>1. PICK k \in Nat : HasRouteOf(g, s, k, v, d)
    BY DEF HasRoute, HasRouteOf
  <2>2. d \in Nat
    BY <2>1, RouteOfType
  <2> QED
    BY <2>1, <2>2
<1>2. PICK k \in T : \A m \in T : k <= m
  <2>1. T \in SUBSET Nat
    OBVIOUS
  <2> HIDE DEF T
  <2> QED
    BY <1>1, <2>1, LeastElement
<1>3. k \in Nat /\ \E l \in Nat : l <= d /\ HasRouteOf(g, s, k, v, l)
  OBVIOUS
<1>4. PICK l \in Nat : l <= d /\ HasRouteOf(g, s, k, v, l)
  BY <1>3
<1>5. NumNodes \in Nat
  BY GraphAssumption
<1>6. ASSUME k >= NumNodes PROVE FALSE
  <2>1. PICK visit \in [0 .. k -> Node], cost \in [0 .. k -> Nat] :
          IsRoute(g, s, k, visit, cost) /\ visit[k] = v /\ cost[k] = l
    BY <1>4 DEF HasRouteOf
  <2>2. PICK a, b \in 0 .. k : a # b /\ visit[a] = visit[b]
    <3>1. IsFiniteSet(0 .. k) /\ Cardinality(0 .. k) = k + 1
      BY <1>3, FS_Interval
    <3>2. IsFiniteSet(Node) /\ Cardinality(Node) = NumNodes
      BY <1>5, FS_Interval, GraphAssumption DEF Node
    <3>3. Cardinality(Node) < Cardinality(0 .. k)
      BY <1>3, <1>5, <1>6, <3>1, <3>2
    <3> QED
      BY <2>1, <3>1, <3>2, <3>3, FS_PigeonHole
  <2>3. \E x, y \in 0 .. k : x < y /\ visit[x] = visit[y]
    BY <1>3, <2>2
  <2>4. PICK x \in 0 .. k, y \in 0 .. k : x < y /\ visit[x] = visit[y]
    BY <2>3
  <2>5. PICK m \in Nat : m <= cost[k] /\ HasRouteOf(g, s, k - (y - x), visit[k], m)
    BY <1>3, <2>1, <2>4, RouteWithoutLoop
  <2>6. k - (y - x) \in Nat /\ ~ (k <= k - (y - x))
    BY <1>3, <2>4
  <2>7. m <= d
    <3>1. d \in Nat
      BY RouteOfType DEF HasRoute, HasRouteOf
    <3> QED
      BY <1>4, <2>1, <2>5, <3>1
  <2>8. k - (y - x) \in T
    BY <2>1, <2>5, <2>6, <2>7
  <2> HIDE DEF T
  <2> QED
    BY <1>2, <2>6, <2>8
<1>7. k \in 0 .. NumNodes - 1
  BY <1>3, <1>5, <1>6
<1> QED
  BY <1>4, <1>7

(***************************************************************************)
(* DistanceFrom is the distance: the least length of a route where there   *)
(* is one, Unreachable where there is none.                                *)
(***************************************************************************)
THEOREM DistanceIsLeast ==
  ASSUME NEW g \in Graph, NEW s \in Node, NEW v \in Node
  PROVE  /\ DistanceFrom(g, s)[v] \in Nat \cup {Unreachable}
         /\ DistanceFrom(g, s)[v] # Unreachable =>
              HasRoute(g, s, v, DistanceFrom(g, s)[v])
         /\ \A l : HasRoute(g, s, v, l) =>
              /\ l \in Nat
              /\ DistanceFrom(g, s)[v] # Unreachable
              /\ DistanceFrom(g, s)[v] <= l
<1>1. PICK dist : IsRounds(g, s, dist) /\ DistanceFrom(g, s) = dist[NumNodes - 1]
  BY DistanceRounds
<1>2. NumNodes - 1 \in 0 .. NumNodes - 1
  BY GraphAssumption
<1>3. dist[NumNodes - 1][v] \in Nat \cup {Unreachable}
  BY <1>1, <1>2 DEF IsRounds, Distances
<1>4. ASSUME NEW l, HasRoute(g, s, v, l)
      PROVE  l \in Nat /\ dist[NumNodes - 1][v] # Unreachable /\ dist[NumNodes - 1][v] <= l
  <2>1. l \in Nat
    BY <1>4, RouteOfType DEF HasRoute, HasRouteOf
  <2>2. PICK k \in 0 .. NumNodes - 1, m \in Nat : m <= l /\ HasRouteOf(g, s, k, v, m)
    BY <1>4, ShortRoute
  <2>3. dist[NumNodes - 1][v] # Unreachable /\ dist[NumNodes - 1][v] <= m
    BY <1>1, <2>2, RoundsCoverRoutes
  <2> QED
    BY <1>3, <2>1, <2>2, <2>3
<1> QED
  BY <1>1, <1>2, <1>3, <1>4, RoundsAreRoutes

-----------------------------------------------------------------------------
(***************************************************************************)
(* The length of a path grows by the length of the edge put behind it or    *)
(* before it.                                                              *)
(***************************************************************************)
AreTotals(g, p, f) ==
  /\ f[0] = 0
  /\ \A k \in 1 .. Len(p) : f[k] = f[k - 1] + g[p[k]].length

LEMMA PathTotals ==
  ASSUME NEW g \in Graph, NEW p \in Seq(EdgeIndex)
  PROVE  \E f : AreTotals(g, p, f) /\ PathLength(g, p) = f[Len(p)]
<1> DEFINE n == Len(p)
           Body(f) == [k \in 0 .. n |-> IF k = 0 THEN 0
                                        ELSE f[k - 1] + g[p[k]].length]
           total == CHOOSE f : f = Body(f)
           lengths == [k \in 1 .. n |-> g[p[k]].length]
<1>1. n \in Nat /\ lengths \in [1 .. n -> Nat]
  <2>1. \A k \in 1 .. n : p[k] \in EdgeIndex
    OBVIOUS
  <2> QED
    BY <2>1, EdgeTypes
<1>2. PICK f \in [0 .. n -> Nat] :
        f[0] = 0 /\ \A k \in 1 .. n : f[k] = f[k - 1] + lengths[k]
  <2> HIDE DEF n, lengths
  <2> QED
    BY <1>1, TotalsExist
<1>5. f = Body(f)
  <2>1. \A k \in 0 .. n : f[k] = Body(f)[k]
    BY <1>2
  <2> QED
    BY <2>1
<1>6. total = Body(total)
  <2> HIDE DEF Body
  <2> QED
    BY <1>5
<1>7. PathLength(g, p) = total[n]
  BY DEF PathLength
<1>8. total[0] = 0 /\ \A k \in 1 .. n : total[k] = total[k - 1] + g[p[k]].length
  <2> HIDE DEF total
  <2>1. 0 \in 0 .. n /\ \A k \in 1 .. n : k \in 0 .. n /\ k # 0
    BY <1>1
  <2> QED
    BY <1>6, <2>1
<1> HIDE DEF total
<1> QED
  BY <1>7, <1>8 DEF AreTotals

\* After a edges p has the n edges of q.
HasInside(p, a, q, n) ==
  a + n <= Len(p) /\ n <= Len(q) /\ \A k \in 1 .. n : p[k + a] = q[k]

LEMMA TotalsAgree ==
  ASSUME NEW g \in Graph, NEW p \in Seq(EdgeIndex), NEW q \in Seq(EdgeIndex),
         NEW f, NEW h, AreTotals(g, p, f), AreTotals(g, q, h),
         NEW a \in Nat, NEW n \in Nat, HasInside(p, a, q, n), f[a] \in Nat
  PROVE  f[a + n] = f[a] + h[n] /\ h[n] \in Nat
<1> DEFINE T == {k \in 0 .. n : ~ (f[a + k] = f[a] + h[k] /\ h[k] \in Nat)}
<1> SUFFICES ASSUME T # {} PROVE FALSE
  OBVIOUS
<1>1. PICK k \in T : \A m \in T : k <= m
  <2>1. T \in SUBSET Nat
    OBVIOUS
  <2> HIDE DEF T
  <2> QED
    BY <2>1, LeastElement
<1>2. k \in 0 .. n /\ ~ (f[a + k] = f[a] + h[k] /\ h[k] \in Nat)
  OBVIOUS
<1>3. k # 0
  <2>1. a + 0 = a
    OBVIOUS
  <2> QED
    BY <1>2, <2>1 DEF AreTotals
<1>4. k \in 1 .. n /\ k - 1 \in 0 .. n /\ ~ (k <= k - 1)
  BY <1>2, <1>3
<1>5. f[a + (k - 1)] = f[a] + h[k - 1] /\ h[k - 1] \in Nat
  BY <1>1, <1>4
<1>6. k \in 1 .. Len(q) /\ a + k \in 1 .. Len(p) /\ p[a + k] = q[k]
      /\ (a + k) - 1 = a + (k - 1)
  BY <1>4 DEF HasInside
<1>7. q[k] \in EdgeIndex
  BY <1>6
<1>8. g[q[k]].length \in Nat
  BY <1>7, EdgeTypes
<1> HIDE DEF T
<1>9. f[a + k] = f[a + (k - 1)] + g[p[a + k]].length /\ h[k] = h[k - 1] + g[q[k]].length
  BY <1>6 DEF AreTotals
<1>10. h[k] \in Nat
  <2> DEFINE y == h[k - 1]
             z == g[q[k]].length
  <2>1. y \in Nat /\ z \in Nat /\ h[k] = y + z
    BY <1>5, <1>8, <1>9
  <2> HIDE DEF y, z
  <2> QED
    BY <2>1
<1>11. f[a + k] = (f[a] + h[k - 1]) + g[q[k]].length
  BY <1>5, <1>6, <1>9
<1>12. f[a + k] = f[a] + h[k]
  <2> DEFINE x == f[a]
             y == h[k - 1]
             z == g[q[k]].length
  <2>1. x \in Nat /\ y \in Nat /\ z \in Nat /\ f[a + k] = (x + y) + z /\ h[k] = y + z
    BY <1>5, <1>8, <1>9, <1>11
  <2> HIDE DEF x, y, z
  <2>2. (x + y) + z = x + (y + z)
    BY <2>1
  <2>3. f[a + k] = x + h[k]
    BY <2>1, <2>2
  <2> QED
    BY <2>3 DEF x
<1> QED
  BY <1>2, <1>10, <1>12

LEMMA NoPathLength ==
  ASSUME NEW g \in Graph
  PROVE  PathLength(g, <<>>) = 0
<1>1. <<>> \in Seq(EdgeIndex)
  OBVIOUS
<1>2. PICK z : AreTotals(g, <<>>, z) /\ PathLength(g, <<>>) = z[Len(<<>>)]
  BY <1>1, PathTotals
<1> QED
  BY <1>2 DEF AreTotals

LEMMA PathLengthGrows ==
  ASSUME NEW g \in Graph, NEW p \in Seq(EdgeIndex), NEW e \in EdgeIndex
  PROVE  /\ PathLength(g, p) \in Nat
         /\ PathLength(g, Append(p, e)) = PathLength(g, p) + g[e].length
<1> DEFINE q == Append(p, e)
<1>1. q \in Seq(EdgeIndex)
  OBVIOUS
<1>2. PICK f : AreTotals(g, p, f) /\ PathLength(g, p) = f[Len(p)]
  BY PathTotals
<1>3. PICK h : AreTotals(g, q, h) /\ PathLength(g, q) = h[Len(q)]
  BY <1>1, PathTotals
<1>5. /\ Len(p) \in Nat /\ Len(q) = Len(p) + 1
      /\ \A k \in 1 .. Len(p) : p[k] = q[k]
      /\ q[Len(p) + 1] = e
  OBVIOUS
<1>6. h[Len(p)] = f[Len(p)] /\ f[Len(p)] \in Nat
  <2>1. Len(p) <= Len(p) /\ Len(p) <= Len(q)
    BY <1>5
  <2> HIDE DEF q
  <2> QED
    <3>1. PICK a \in Nat : a = 0
      OBVIOUS
    <3>2. HasInside(q, a, p, Len(p))
      BY <1>5, <3>1 DEF HasInside
    <3>3. h[a] = 0 /\ h[a] \in Nat
      BY <1>3, <3>1 DEF AreTotals
    <3>4. h[a + Len(p)] = h[a] + f[Len(p)] /\ f[Len(p)] \in Nat
      BY <1>1, <1>2, <1>3, <1>5, <3>2, <3>3, TotalsAgree
    <3> QED
      BY <1>5, <3>1, <3>3, <3>4
<1>7. h[Len(p) + 1] = h[Len(p)] + g[e].length
  <2>1. Len(p) + 1 \in 1 .. Len(q) /\ (Len(p) + 1) - 1 = Len(p)
    BY <1>5
  <2> HIDE DEF q
  <2> QED
    BY <1>3, <1>5, <2>1 DEF AreTotals
<1> HIDE DEF q
<1>9. PathLength(g, q) = PathLength(g, p) + g[e].length
  BY <1>2, <1>3, <1>5, <1>6, <1>7
<1> QED
  BY <1>2, <1>6, <1>9 DEF q

LEMMA PathLengthBefore ==
  ASSUME NEW g \in Graph, NEW p \in Seq(EdgeIndex), NEW e \in EdgeIndex
  PROVE  PathLength(g, << e >> \o p) = g[e].length + PathLength(g, p)
<1> DEFINE q == << e >> \o p
<1>1. q \in Seq(EdgeIndex) /\ g[e].length \in Nat
  BY EdgeTypes
<1>2. PICK f : AreTotals(g, p, f) /\ PathLength(g, p) = f[Len(p)]
  BY PathTotals
<1>3. PICK h : AreTotals(g, q, h) /\ PathLength(g, q) = h[Len(q)]
  BY <1>1, PathTotals
<1>4. /\ Len(p) \in Nat /\ Len(q) = 1 + Len(p) /\ q[1] = e
      /\ \A k \in 1 .. Len(p) : q[k + 1] = p[k]
  OBVIOUS
<1> HIDE DEF q
<1>5. h[1] = g[e].length
  <2>1. 1 \in 1 .. Len(q) /\ 1 - 1 = 0
    BY <1>4
  <2> QED
    BY <1>1, <1>3, <1>4, <2>1 DEF AreTotals
<1>6. h[1 + Len(p)] = h[1] + f[Len(p)] /\ f[Len(p)] \in Nat
  <2>1. HasInside(q, 1, p, Len(p))
    BY <1>4 DEF HasInside
  <2> QED
    BY <1>1, <1>2, <1>3, <1>4, <1>5, <2>1, TotalsAgree
<1> QED
  BY <1>2, <1>3, <1>4, <1>5, <1>6 DEF q
=============================================================================
