----------------------------- MODULE RoadGraph -----------------------------
(***************************************************************************)
(* The routable road graph that every routing and matching component of    *)
(* FMM shares: NetworkGraph builds it from the edges of Network            *)
(* (network/network.cpp, network/network_graph.cpp).                       *)
(*                                                                         *)
(* A graph is a function from edge indices to edges.  Node and edge        *)
(* indices are the ones the code assigns (0, 1, 2, ...).  Lengths are      *)
(* natural numbers in a unit far above the 1e-6 tolerance the code uses    *)
(* when it compares a length with a difference of two distances, so that   *)
(* comparison is an equality here.                                         *)
(***************************************************************************)
EXTENDS Integers, Sequences

CONSTANTS
  NumNodes,   \* number of nodes of the network
  NumEdges,   \* number of edges of the network
  Lengths     \* the edge lengths a network may have

ASSUME GraphAssumption ==
  /\ NumNodes \in Nat \ {0}
  /\ NumEdges \in Nat
  /\ Lengths \subseteq Nat

Node == 0 .. NumNodes - 1
EdgeIndex == 0 .. NumEdges - 1
Edge == [source : Node, target : Node, length : Lengths]
Graph == [EdgeIndex -> Edge]

\* Stands for "no entry": a key a map lacks, an edge index not found (-1 in
\* the code), a node that is not in the heap.
Absent == -1

OutEdges(g, u) == {i \in EdgeIndex : g[i].source = u}

(***************************************************************************)
(* read_ogr_file numbers a node when an edge first mentions it, the source *)
(* of the edge before its target.  Slot 2i is the source of edge i, slot   *)
(* 2i+1 its target.                                                        *)
(***************************************************************************)
Mentioned(g, slot) ==
  IF slot % 2 = 0 THEN g[slot \div 2].source ELSE g[slot \div 2].target

NumberedAsRead(g) ==
  \A n \in Node :
    \E slot \in 0 .. 2 * NumEdges - 1 :
      /\ Mentioned(g, slot) = n
      /\ \A earlier \in 0 .. slot - 1 : Mentioned(g, earlier) < n

(***************************************************************************)
(* get_edge_index(source, target, cost): the first out edge of u, in the   *)
(* order the edges were added, that leads to v and has length cost.        *)
(***************************************************************************)
EdgesOfCost(g, u, v, cost) ==
  {i \in OutEdges(g, u) : g[i].target = v /\ g[i].length = cost}

GetEdgeIndex(g, u, v, cost) ==
  LET found == EdgesOfCost(g, u, v, cost)
  IN  IF found = {} THEN Absent
      ELSE CHOOSE i \in found : \A j \in found : i <= j

(***************************************************************************)
(* A route of k edges from s: the nodes it visits and its length so far at *)
(* each of them.  HasRoute says that v can be reached from s at length d.  *)
(***************************************************************************)
IsRoute(g, s, k, visit, cost) ==
  /\ visit \in [0 .. k -> Node]
  /\ cost \in [0 .. k -> Nat]
  /\ visit[0] = s
  /\ cost[0] = 0
  /\ \A j \in 1 .. k :
       \E i \in OutEdges(g, visit[j - 1]) :
         /\ g[i].target = visit[j]
         /\ cost[j] = cost[j - 1] + g[i].length

HasRoute(g, s, v, d) ==
  \E k \in Nat : \E visit \in [0 .. k -> Node], cost \in [0 .. k -> Nat] :
    IsRoute(g, s, k, visit, cost) /\ visit[k] = v /\ cost[k] = d

\* The length of a path, a sequence of edges.
PathLength(g, edges) ==
  LET upTo[k \in 0 .. Len(edges)] ==
        IF k = 0 THEN 0 ELSE upTo[k - 1] + g[edges[k]].length
  IN  upTo[Len(edges)]

-----------------------------------------------------------------------------
(***************************************************************************)
(* Reference definition of distance, independent of any search: dist[k][v] *)
(* is the least length of a walk from s to v that has at most k edges      *)
(* (Bellman-Ford).  NumNodes - 1 edges are enough as no length is          *)
(* negative.                                                               *)
(***************************************************************************)
Unreachable == -1

LeastOf(lengths) ==
  IF lengths = {} THEN Unreachable
  ELSE CHOOSE l \in lengths : \A m \in lengths : l <= m

\* What d, the distances so far, gives for v with at most one more edge.
WaysTo(g, d, v) ==
  (IF d[v] = Unreachable THEN {} ELSE {d[v]})
    \cup {d[g[i].source] + g[i].length :
           i \in {e \in EdgeIndex : /\ g[e].target = v
                                    /\ d[g[e].source] # Unreachable}}

OneMoreEdge(g, d) == [v \in Node |-> LeastOf(WaysTo(g, d, v))]

NoEdges(s) == [v \in Node |-> IF v = s THEN 0 ELSE Unreachable]

DistanceFrom(g, s) ==
  LET dist[k \in 0 .. NumNodes - 1] ==
        IF k = 0 THEN NoEdges(s) ELSE OneMoreEdge(g, dist[k - 1])
  IN  dist[NumNodes - 1]
=============================================================================
