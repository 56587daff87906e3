----------------------------- MODULE PathSearch -----------------------------
(***************************************************************************)
(* The searches from one node to another: shortest_path_dijkstra and       *)
(* shortest_path_astar (network/network_graph.cpp), and                    *)
(* shortest_path_bidirectional_dijkstra                                    *)
(* (network/bidirectional_network_graph.cpp), which works from both ends   *)
(* in turn until both have taken the same node one after the other; and    *)
(* its searches within a distance: single_target_upperbound_dijkstra, and  *)
(* search_edges_within_dist_ft_edge with its two sweeps, here from source  *)
(* and to target (the edge asked for leads from target to source).  A      *)
(* front is the heap, the distances and the predecessors (successors, seen *)
(* from the target) of one end.                                            *)
(*                                                                         *)
(* The points of the nodes lie on a line, on which the straight distance   *)
(* of two points is a whole number.                                        *)
(***************************************************************************)
EXTENDS RoadGraph

CONSTANTS
  Networks,    \* road graphs considered
  Placements,  \* where the nodes lie
  Deltas       \* distances within which is searched

ASSUME SearchAssumption ==
  Networks \subseteq Graph /\ Placements \subseteq [Node -> Nat] /\ Deltas \subseteq Nat

VARIABLES
  graph, place,
  method,         \* which of the searches is called
  source, target, delta,
  front, back,    \* the front from the source, and from the target
  forward,        \* forward_search_flag
  prev_node,      \* the node taken last, Absent before the first
  pc,             \* "search", then "track" and "follow", or "to", then "done"
  at,             \* the node the path is tracked back from, or forth
  path,
  found           \* the edges reported within the distance

vars == <<graph, place, method, source, target, delta, front, back, forward,
          prev_node, pc, at, path, found>>

inputs == <<graph, place, method, source, target, delta>>

Unknown == [v \in Node |-> Absent]

\* calc_heuristic_dist to the target; the other searches have none.
Heuristic(v) ==
  IF method # "astar" THEN 0
  ELSE IF place[v] < place[target] THEN place[target] - place[v]
  ELSE place[v] - place[target]

FrontAt(v, value) ==
  [heap |-> [Unknown EXCEPT ![v] = value],
   dmap |-> [Unknown EXCEPT ![v] = 0],
   via |-> [Unknown EXCEPT ![v] = v]]

PathMethods == {"dijkstra", "astar", "bidirectional"}
WithinMethods == {"single_target", "within"}

\* Where a search has no use for an input, one value of it is enough.
Inputs ==
  /\ graph \in Networks
  /\ method \in PathMethods \cup WithinMethods
  /\ place \in IF method = "astar" THEN Placements ELSE {[v \in Node |-> 0]}
  /\ target \in Node
  /\ source \in IF method = "single_target" THEN {target} ELSE Node
  /\ delta \in IF method \in WithinMethods THEN Deltas ELSE {0}

Init ==
  /\ Inputs
  /\ front = FrontAt(source, Heuristic(source))
  /\ back = FrontAt(target, 0)
  /\ forward = TRUE /\ prev_node = Absent
  /\ pc = IF method \in PathMethods /\ source = target THEN "done" ELSE "search"
  /\ at = source /\ path = <<>> /\ found = {}

-----------------------------------------------------------------------------
InQueue(f) == { v \in Node : f.heap[v] # Absent }

\* Fault seed: the heap compares the nodes alone.
BeforeByIndex(f, u, v) == u <= v

\* HeapNode::operator<
Before(f, u, v) == f.heap[u] < f.heap[v] \/ (f.heap[u] = f.heap[v] /\ u <= v)

Top(f) == CHOOSE u \in InQueue(f) : \A v \in InQueue(f) : Before(f, u, v)

\* The lengths of the edges to relax, by the node at their other end: the
\* out edges of u, or its in edges, of which get_edge_index takes the
\* shortest from each node.
LengthsTo(u, v) == { graph[e].length : e \in { i \in OutEdges(graph, u) : graph[i].target = v } }

Least(S) == CHOOSE l \in S : \A other \in S : l <= other

\* Fault seed: a node is recorded once.
ImprovesNothing(f, v, d) == f.dmap[v] = Absent

Improves(f, v, d) == f.dmap[v] = Absent \/ f.dmap[v] > d

\* Fault seed: the heap orders the nodes by distance alone.
KeyWithout(v, d) == d

Key(v, d) == d + Heuristic(v)

\* Fault seed: a node taken goes to the end of the heap.
LeftBehind(f, u) == f.dmap[u] + 1

Popped(f, u) == Absent

(***************************************************************************)
(* The front after one turn of the loop of a search: u leaves the heap and *)
(* the nodes on its edges take a smaller distance.  lengths[v] are those   *)
(* of the edges between u and v.                                           *)
(***************************************************************************)
Expanded(f, u, lengths) ==
  LET dist(v) == f.dmap[u] + Least(lengths[v])
      better == { v \in Node : lengths[v] # {} /\ Improves(f, v, dist(v)) } IN
  [heap |-> [v \in Node |-> IF v \in better THEN Key(v, dist(v))
                            ELSE IF v = u THEN Popped(f, u) ELSE f.heap[v]],
   dmap |-> [v \in Node |-> IF v \in better THEN dist(v) ELSE f.dmap[v]],
   via |-> [v \in Node |-> IF v \in better THEN u ELSE f.via[v]]]

\* u is taken off the heap and nothing else is done.
Taken(f, u) == [f EXCEPT !.heap[u] = Absent]

\* back_track and forward_track follow the predecessors of v, if it is known.
Track(v) ==
  /\ at' = v
  /\ pc' = "track"

ExpandOneWay ==
  /\ pc = "search" /\ method \in {"dijkstra", "astar"}
  /\ InQueue(front) # {}
  /\ LET u == Top(front) IN
     IF u = target
     THEN /\ front' = Taken(front, u)
          /\ Track(target)
     ELSE /\ front' = Expanded(front, u, [v \in Node |-> LengthsTo(u, v)])
          /\ UNCHANGED <<pc, at>>
  /\ UNCHANGED <<inputs, back, forward, prev_node, path, found>>

ExhaustedOneWay ==
  /\ pc = "search" /\ method \in {"dijkstra", "astar"}
  /\ InQueue(front) = {}
  /\ Track(target)
  /\ UNCHANGED <<inputs, front, back, forward, prev_node, path, found>>

InTurn == method = "bidirectional" /\ InQueue(front) # {} /\ InQueue(back) # {}

ExpandForward ==
  /\ pc = "search" /\ InTurn /\ forward
  /\ LET u == Top(front) IN
     IF u = prev_node
     THEN /\ front' = Taken(front, u)
          /\ Track(u)
          /\ UNCHANGED <<forward, prev_node>>
     ELSE /\ front' = Expanded(front, u, [v \in Node |-> LengthsTo(u, v)])
          /\ forward' = FALSE /\ prev_node' = u
          /\ UNCHANGED <<pc, at>>
  /\ UNCHANGED <<inputs, back, path, found>>

ExpandBackward ==
  /\ pc = "search" /\ InTurn /\ ~ forward
  /\ LET u == Top(back) IN
     IF u = prev_node
     THEN /\ back' = Taken(back, u)
          /\ Track(u)
          /\ UNCHANGED <<forward, prev_node>>
     ELSE /\ back' = Expanded(back, u, [v \in Node |-> LengthsTo(v, u)])
          /\ forward' = TRUE /\ prev_node' = u
          /\ UNCHANGED <<pc, at>>
  /\ UNCHANGED <<inputs, front, path, found>>

ExhaustedInTurn ==
  /\ pc = "search" /\ method = "bidirectional" /\ ~ InTurn
  /\ Track(prev_node)
  /\ UNCHANGED <<inputs, front, back, forward, prev_node, path, found>>

-----------------------------------------------------------------------------
\* The length of the edge between two nodes of a path of the front.
Between(f, from, to) == f.dmap[to] - f.dmap[from]

\* What is tracked back ends at the source, or is nothing.
TrackDone ==
  IF method = "bidirectional" THEN pc' = "follow" /\ at' = prev_node
                              ELSE pc' = "done" /\ UNCHANGED at

\* One turn of the loop of back_track.
TrackBack ==
  /\ pc = "track"
  /\ IF front.dmap[at] # Absent /\ at # source
       THEN LET u == front.via[at] IN
            /\ path' = << GetEdgeIndex(graph, u, at, Between(front, u, at)) >> \o path
            /\ at' = u
            /\ UNCHANGED pc
       ELSE TrackDone /\ UNCHANGED path
  /\ UNCHANGED <<inputs, front, back, forward, prev_node, found>>

\* One turn of the loop of forward_track.
TrackForward ==
  /\ pc = "follow"
  /\ IF back.dmap[at] # Absent /\ at # target
       THEN LET v == back.via[at] IN
            /\ path' = Append(path, GetEdgeIndex(graph, at, v, Between(back, v, at)))
            /\ at' = v
            /\ UNCHANGED pc
       ELSE pc' = "done" /\ UNCHANGED <<path, at>>
  /\ UNCHANGED <<inputs, front, back, forward, prev_node, found>>

-----------------------------------------------------------------------------
\* The top of a heap ends a search within a distance, or there is none.
Beyond(f) == InQueue(f) = {} \/ f.heap[Top(f)] > delta

Rest == IF Beyond(back) /\ InQueue(back) # {} THEN Taken(back, Top(back)) ELSE back

\* single_target_upperbound_dijkstra; nodes beyond delta may get a distance.
ExpandToTarget ==
  /\ pc = "search" /\ method = "single_target"
  /\ IF Beyond(back)
     THEN back' = Rest /\ pc' = "done"
     ELSE /\ back' = LET u == Top(back) IN Expanded(back, u, [v \in Node |-> LengthsTo(v, u)])
          /\ UNCHANGED pc
  /\ UNCHANGED <<inputs, front, forward, prev_node, at, path, found>>

\* Fault seed: the edge that crosses the bound is reported.
ReachedOver(dist, lengths) == IF dist < delta THEN lengths ELSE {}

\* The lengths that do not lead beyond delta.
Reached(dist, lengths) == { l \in lengths : dist + l <= delta }

\* One turn of the loop of search_edges_within_dist_from_node.
SweepFrom ==
  /\ pc = "search" /\ method = "within"
  /\ IF Beyond(front)
     THEN pc' = "to" /\ UNCHANGED <<front, found>>
     ELSE LET u == Top(front)
              lengths == [v \in Node |-> Reached(front.dmap[u], LengthsTo(u, v))] IN
          /\ front' = Expanded(front, u, lengths)
          /\ found' = found \cup {e \in OutEdges(graph, u) : graph[e].length \in lengths[graph[e].target]}
          /\ UNCHANGED pc
  /\ UNCHANGED <<inputs, back, forward, prev_node, at, path>>

\* get_edge_index without a cost: the last of the shortest edges.
ShortestEdge(u, v) ==
  CHOOSE e \in OutEdges(graph, u) :
    /\ graph[e].target = v
    /\ \A i \in OutEdges(graph, u) :
         graph[i].target = v => \/ graph[e].length < graph[i].length
                                \/ graph[e].length = graph[i].length /\ i <= e

\* One turn of the loop of search_edges_within_dist_to_node, which asks for
\* one edge from every node with an edge to v.
SweepTo ==
  /\ pc = "to"
  /\ IF Beyond(back)
     THEN pc' = "done" /\ UNCHANGED <<back, found>>
     ELSE LET v == Top(back)
              shortest(u) == IF LengthsTo(u, v) = {} THEN {} ELSE {Least(LengthsTo(u, v))}
              lengths == [u \in Node |-> Reached(back.dmap[v], shortest(u))] IN
          /\ back' = Expanded(back, v, lengths)
          /\ found' = found \cup {ShortestEdge(u, v) : u \in {w \in Node : lengths[w] # {}}}
          /\ UNCHANGED pc
  /\ UNCHANGED <<inputs, front, forward, prev_node, at, path>>

Search ==
  \/ ExpandToTarget \/ SweepFrom \/ SweepTo
  \/ ExpandOneWay \/ ExhaustedOneWay
  \/ ExpandForward \/ ExpandBackward \/ ExhaustedInTurn
  \/ TrackBack \/ TrackForward

Returned == pc = "done" /\ UNCHANGED vars

Next == Search \/ Returned

\* Straight-line code of one thread: it runs until it returns.
Spec == Init /\ [][Next]_vars /\ WF_vars(Search)

-----------------------------------------------------------------------------
Front ==
  [heap : [Node -> Nat \cup {Absent}], dmap : [Node -> Nat \cup {Absent}],
   via : [Node -> Node \cup {Absent}]]

\* The type invariant, with the agreement of the three maps of a front.
TypeOK ==
  /\ graph \in Networks /\ place \in [Node -> Nat]
  /\ source \in Node /\ target \in Node /\ at \in Node
  /\ front \in Front /\ back \in Front
  /\ forward \in BOOLEAN /\ prev_node \in Node \cup {Absent}
  /\ pc \in {"search", "track", "follow", "to", "done"}
  /\ delta \in Deltas \cup {0} /\ found \subseteq EdgeIndex
  /\ path \in Seq(EdgeIndex \cup {Absent})
  /\ \A v \in InQueue(front) : front.heap[v] = front.dmap[v] + Heuristic(v)
  /\ \A v \in InQueue(back) : back.heap[v] = back.dmap[v]

\* No edge is shorter than the straight distance of its ends, as it is where
\* the lines of a network end at the points of its nodes.
Straight(e) ==
  /\ place[graph[e].source] - place[graph[e].target] <= graph[e].length
  /\ place[graph[e].target] - place[graph[e].source] <= graph[e].length

Sound == method = "astar" => \A e \in EdgeIndex : Straight(e)

LeadsFrom(s, p) ==
  /\ p \in Seq(EdgeIndex)
  /\ p # <<>> => graph[p[1]].source = s
  /\ \A k \in 1 .. Len(p) - 1 : graph[p[k]].target = graph[p[k + 1]].source

EndOf(p) == IF p = <<>> THEN source ELSE graph[p[Len(p)]].target

Shortest ==
  LET dist == DistanceFrom(graph, source)[target] IN
  IF dist = Unreachable THEN path = <<>>
  ELSE LeadsFrom(source, path) /\ EndOf(path) = target /\ PathLength(graph, path) = dist

EdgesJoin ==
  \/ path = <<>>
  \/ /\ LeadsFrom(graph[path[1]].source, path)
     /\ graph[path[1]].source = source \/ EndOf(path) = target

(***************************************************************************)
(* dijkstra and astar (on a network with straight distances below the      *)
(* lengths) return a path of the least length, and none only if there is   *)
(* no way.  The bidirectional search joins its halves: what it returns is  *)
(* connected and begins at the source, or else ends at the target.  None   *)
(* of them looks an edge up in vain (never -1).                            *)
(***************************************************************************)
ShortestFound ==
  pc = "done" /\ method \in PathMethods /\ Sound =>
    IF method = "bidirectional" THEN EdgesJoin ELSE Shortest

\* Whether the way from u to v over an edge of this length more is short enough.
InReach(u, v, length) ==
  LET dist == DistanceFrom(graph, u)[v] IN dist # Unreachable /\ dist + length <= delta

(***************************************************************************)
(* single_target_upperbound_dijkstra gives every node its distance to the  *)
(* target if that is within delta, and no node a smaller one.  The edges   *)
(* search_edges_within_dist_ft_edge reports are within dist of the edge,   *)
(* to their far end, on ways behind it or before it.  It reports all that  *)
(* are behind; of edges before it that join the same nodes it may report a *)
(* shorter one alone.                                                      *)
(***************************************************************************)
WithinDistance ==
  pc = "done" =>
    /\ method = "single_target" =>
         \A v \in Node :
           IF InReach(v, target, 0) THEN back.dmap[v] = DistanceFrom(graph, v)[target]
           ELSE back.dmap[v] = Absent \/ back.dmap[v] > delta
    /\ method = "within" =>
         LET behind == {e \in EdgeIndex : InReach(source, graph[e].source, graph[e].length)}
             before == {e \in EdgeIndex : InReach(graph[e].target, target, graph[e].length)} IN
         /\ behind \subseteq found /\ found \subseteq behind \cup before
         /\ \A e \in before : \E i \in found :
              /\ graph[i].source = graph[e].source /\ graph[i].target = graph[e].target
              /\ graph[i].length <= graph[e].length

(***************************************************************************)
(* A distance is lowered only for a node in the heap, of which decrease_key*)
(* has a handle.  With straight distances below the lengths the branch of  *)
(* shortest_path_astar that pushes a node again (it is "unsure if v is     *)
(* still in Q or not") is never taken.                                     *)
(***************************************************************************)
Lowered(f, after) == { v \in Node : f.dmap[v] # Absent /\ after.dmap[v] < f.dmap[v] }

LoweredWhileQueued ==
  [][Sound => /\ Lowered(front, front') \subseteq InQueue(front)
              /\ Lowered(back, back') \subseteq InQueue(back)]_vars

\* Every search returns, wherever the nodes lie.
Terminates == <>(pc = "done")

-----------------------------------------------------------------------------
\* test/network_graph_test.cpp requires of the bidirectional search what
\* shortest_path_dijkstra returns.
BidirectionalAgrees ==
  pc = "done" /\ method = "bidirectional" =>
    LET dist == DistanceFrom(graph, source)[target] IN
    IF dist = Unreachable THEN path = <<>>
    ELSE LeadsFrom(source, path) /\ EndOf(path) = target /\ PathLength(graph, path) = dist
=============================================================================
