------------------------- MODULE UpperboundDijkstra -------------------------
(***************************************************************************)
(* NetworkGraph::single_source_upperbound_dijkstra                         *)
(* (network/network_graph.cpp) with the heap of network/heap.hpp: the      *)
(* search that fills the upper-bounded origin-destination table.           *)
(*                                                                         *)
(* One action per turn of a loop of the code: Pop for the body of the      *)
(* outer while up to the inner for, one of the Relax actions per out edge. *)
(* The graph, the source and the bound are chosen in the initial state, so *)
(* one run covers every network of the bound.                              *)
(***************************************************************************)
EXTENDS RoadGraph

CONSTANT Deltas   \* the bounds a caller may pass (the API accepts any value)

ASSUME DeltasAssumption == Deltas \subseteq Int

VARIABLES
  graph,    \* the road graph, never changed
  source,   \* argument s
  delta,    \* argument delta
  heap,     \* heap[v] is the value of v in Q, Absent if v is not in Q
  dmap,     \* the distance map, Absent where it has no key
  pmap,     \* the predecessor map, Absent where it has no key
  node,     \* the HeapNode being expanded: [index, value]
  todo,     \* out edges of node.index that the inner loop has yet to visit
  pc        \* "search" inside the outer loop, "done" after the return

vars == <<graph, source, delta, heap, dmap, pmap, node, todo, pc>>

Settled == {v \in Node : dmap[v] # Absent /\ heap[v] = Absent}
Queued == {v \in Node : heap[v] # Absent}

\* Fault seeds, each a slip the code could have made in the definition after
\* it: the heap compares node indices only.
HeapLessByIndex(u, v) == u < v

\* HeapNode::operator<, on the nodes in Q.
HeapLess(u, v) == heap[u] < heap[v] \/ (heap[u] = heap[v] /\ u < v)
IsTop(u) == u \in Queued /\ \A v \in Queued \ {u} : HeapLess(u, v)

-----------------------------------------------------------------------------
Empty == [v \in Node |-> Absent]

Init ==
  /\ graph \in Graph
  /\ NumberedAsRead(graph)
  /\ source \in Node
  /\ delta \in Deltas
  /\ heap = [Empty EXCEPT ![source] = 0]
  /\ dmap = [Empty EXCEPT ![source] = 0]
  /\ pmap = [Empty EXCEPT ![source] = source]
  /\ node = [index |-> source, value |-> 0]
  /\ todo = {}
  /\ pc = "search"

\* Q.top(), Q.pop(), and the break when the value passes the bound.
Pop ==
  /\ pc = "search"
  /\ todo = {}
  /\ \E u \in Node :
       /\ IsTop(u)
       /\ node' = [index |-> u, value |-> heap[u]]
       /\ heap' = [heap EXCEPT ![u] = Absent]
       /\ IF heap[u] > delta
            THEN pc' = "done" /\ todo' = {}
            ELSE pc' = "search" /\ todo' = OutEdges(graph, u)
  /\ UNCHANGED <<graph, source, delta, dmap, pmap>>

\* The outer loop ends when Q is empty.
Exhausted ==
  /\ pc = "search"
  /\ todo = {}
  /\ Queued = {}
  /\ pc' = "done"
  /\ UNCHANGED <<graph, source, delta, heap, dmap, pmap, node, todo>>

\* The inner loop visits the out edges in the order they were added.
IsNextEdge(i) == i \in todo /\ \A j \in todo : i <= j

TempDist(i) == node.value + graph[i].length

\* Fault seeds: a bound that excludes delta, and an overwrite on equality.
BelowBound(i) == TempDist(i) < delta
NoLonger(v, i) == dmap[v] # Absent /\ dmap[v] >= TempDist(i)

InBound(i) == TempDist(i) <= delta

\* dmap contains v and a smaller distance is found.
IsShorter(v, i) == dmap[v] # Absent /\ dmap[v] > TempDist(i)

\* Both maps and the heap take the new distance of v.
Record(v, d) ==
  /\ heap' = [heap EXCEPT ![v] = d]
  /\ pmap' = [pmap EXCEPT ![v] = node.index]
  /\ dmap' = [dmap EXCEPT ![v] = d]

\* Overwrite both maps and decrease the key of v in the heap.
RelaxShorter ==
  /\ pc = "search"
  /\ \E i \in todo :
       /\ IsNextEdge(i)
       /\ IsShorter(graph[i].target, i)
       /\ Record(graph[i].target, TempDist(i))
       /\ todo' = todo \ {i}
  /\ UNCHANGED <<graph, source, delta, node, pc>>

\* dmap does not contain v, which is within the bound: push and insert.
RelaxFirst ==
  /\ pc = "search"
  /\ \E i \in todo :
       /\ IsNextEdge(i)
       /\ dmap[graph[i].target] = Absent
       /\ InBound(i)
       /\ Record(graph[i].target, TempDist(i))
       /\ todo' = todo \ {i}
  /\ UNCHANGED <<graph, source, delta, node, pc>>

\* Neither: v is known at no greater distance, or is beyond the bound.
RelaxNothing ==
  /\ pc = "search"
  /\ \E i \in todo :
       LET v == graph[i].target IN
       /\ IsNextEdge(i)
       /\ ~IsShorter(v, i)
       /\ dmap[v] = Absent => ~InBound(i)
       /\ todo' = todo \ {i}
  /\ UNCHANGED <<graph, source, delta, heap, dmap, pmap, node, pc>>

\* After the return nothing changes.
Returned == pc = "done" /\ UNCHANGED vars

Search == Pop \/ Exhausted \/ RelaxShorter \/ RelaxFirst \/ RelaxNothing

Next == Search \/ Returned

Spec == Init /\ [][Next]_vars

\* The search is straight-line code of one thread: it runs until it returns.
FairSpec == Spec /\ WF_vars(Search)

-----------------------------------------------------------------------------
TypeOK ==
  /\ graph \in Graph
  /\ source \in Node
  /\ delta \in Deltas
  /\ heap \in [Node -> Nat \cup {Absent}]
  /\ dmap \in [Node -> Nat \cup {Absent}]
  /\ pmap \in [Node -> Node \cup {Absent}]
  /\ node \in [index : Node, value : Nat]
  /\ todo \subseteq EdgeIndex
  /\ pc \in {"search", "done"}

(***************************************************************************)
(* When the search returns, dmap holds exactly the nodes within the bound, *)
(* each with its true shortest distance (the source always, even for a     *)
(* negative bound).                                                        *)
(***************************************************************************)
ExactWhenDone ==
  pc = "done" =>
    LET dist == DistanceFrom(graph, source) IN
    \A v \in Node \ {source} :
      dmap[v] = IF dist[v] # Unreachable /\ dist[v] <= delta
                THEN dist[v] ELSE Absent

(***************************************************************************)
(* At every moment each known node other than the source has a settled     *)
(* predecessor, and get_edge_index finds an edge between the two whose     *)
(* length is the difference of their distances: the edge lookup of the     *)
(* table writer and of back_track cannot fail with -1.                     *)
(***************************************************************************)
PredecessorsHaveEdges ==
  \A v \in Node \ {source} :
    dmap[v] # Absent =>
      /\ pmap[v] \in Settled
      /\ GetEdgeIndex(graph, pmap[v], v, dmap[v] - dmap[pmap[v]]) # Absent

(***************************************************************************)
(* The predecessor relation has no cycle: every set of known nodes other   *)
(* than the source has a member whose predecessor is outside the set.      *)
(* Without it the first-hop loop of the table writer, which follows pmap   *)
(* until it meets the source, would not end.                               *)
(***************************************************************************)
NoPredecessorCycle ==
  \A S \in SUBSET {v \in Node \ {source} : dmap[v] # Absent} :
    S # {} => \E v \in S : pmap[v] \notin S

(***************************************************************************)
(* A distance is lowered only while the node is still in the heap.  The    *)
(* code relies on it: Heap::decrease_key of a popped node would dereference*)
(* a null handle.                                                          *)
(***************************************************************************)
LoweredOnlyWhileQueued ==
  [][\A v \in Node :
       dmap[v] # Absent /\ dmap'[v] # dmap[v] => heap[v] # Absent]_vars

\* Nodes leave the heap in order of distance.
PopsInOrder == [][node'.value >= node.value]_vars

\* The search returns, whatever the graph (cycles, parallel edges, loops and
\* edges of length zero included).
Terminates == <>(pc = "done")

(***************************************************************************)
(* The inductive invariant: the properties above follow from it.           *)
(***************************************************************************)
\* The two maps have the same keys, the heap holds the recorded distances,
\* and the source keeps distance zero and itself as predecessor.
MapsAgree ==
  /\ \A v \in Node : heap[v] # Absent => heap[v] = dmap[v]
  /\ \A v \in Node : dmap[v] = Absent <=> pmap[v] = Absent
  /\ dmap[source] = 0 /\ pmap[source] = source

\* A node other than the source is known only within the bound.
WithinBound ==
  \A v \in Node \ {source} : dmap[v] # Absent => dmap[v] <= delta

\* What is settled is no farther than the node being expanded, what is
\* queued no nearer.
FrontierOrdered ==
  /\ \A v \in Settled : dmap[v] <= node.value
  /\ \A v \in Queued : node.value <= heap[v]

\* Edges remain to be relaxed only while a settled node is expanded.
Expanding ==
  todo # {} => /\ pc = "search"
               /\ node.index \in Settled
               /\ dmap[node.index] = node.value
               /\ todo \subseteq OutEdges(graph, node.index)

\* Every edge out of a settled node has been relaxed, but those in todo.
SettledRelaxed ==
  \A u \in Settled : dmap[u] <= delta =>
    \A i \in OutEdges(graph, u) \ todo :
      LET v == graph[i].target IN
      IF dmap[v] = Absent THEN dmap[u] + graph[i].length > delta
                          ELSE dmap[v] <= dmap[u] + graph[i].length

\* A known node other than the source hangs from a settled predecessor by an
\* edge whose length is the difference of the distances.
PredecessorsTight ==
  \A v \in Node \ {source} :
    dmap[v] # Absent =>
      /\ pmap[v] \in Settled
      /\ EdgesOfCost(graph, pmap[v], v, dmap[v] - dmap[pmap[v]]) # {}

\* The search has returned only if nothing within the bound is queued.
NothingLeft ==
  pc = "done" => \A v \in Queued : heap[v] > delta

IInv ==
  /\ TypeOK
  /\ MapsAgree
  /\ WithinBound
  /\ FrontierOrdered
  /\ Expanding
  /\ SettledRelaxed
  /\ PredecessorsTight
  /\ NothingLeft
=============================================================================
