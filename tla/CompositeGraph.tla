--------------------------- MODULE CompositeGraph ---------------------------
(***************************************************************************)
(* The composite graph of STMATCH (mm/composite_graph.cpp): the road graph *)
(* and, over it, a dummy graph with a node for every candidate of the      *)
(* trajectory.  A candidate is entered from the source of its edge and     *)
(* left for the target; the candidate of the point before on the same edge *)
(* is a neighbour of its own, the only way to move along an edge without   *)
(* leaving it.                                                             *)
(*                                                                         *)
(* Parallel dummy edges of one length are one arc here: they relax a node  *)
(* to the same distance.                                                   *)
(***************************************************************************)
EXTENDS RoadGraph

CONSTANTS
  Tolerance,   \* reverse_tolerance, in parts of TolUnit
  TolUnit

Arc(u, v, cost) == [source |-> u, target |-> v, cost |-> cost]

\* search_tr_cs_knn numbers the candidates, point after point, after the
\* nodes of the network (get_dummy_node_start_index).
CandidateNode(tc, i, b) ==
  LET before[k \in 0 .. Len(tc)] == IF k = 0 THEN 0 ELSE before[k - 1] + Len(tc[k])
  IN  NumNodes + before[i - 1] + b - 1

Candidates(tc) ==
  UNION { {[at |-> i, of |-> b] : b \in DOMAIN tc[i]} : i \in DOMAIN tc }

CompNode(tc) ==
  Node \cup { CandidateNode(tc, c.at, c.of) : c \in Candidates(tc) }

\* cur_cmap keeps the first candidate of a point on an edge.
FirstOn(pcs, e) ==
  { a \in DOMAIN pcs : pcs[a].edge = e /\ \A first \in 1 .. a - 1 : pcs[first].edge # e }

\* Fault seed: a movement back along the edge is one forth.
AlongEither(g, from, to) ==
  {IF from.offset <= to.offset THEN to.offset - from.offset ELSE from.offset - to.offset}

\* What it costs to move along their edge from one candidate to the next,
\* if it is possible: forth, or back within the tolerance.
Along(g, from, to) ==
  IF from.offset <= to.offset THEN {to.offset - from.offset}
  ELSE IF TolUnit * (from.offset - to.offset) < Tolerance * g[from.edge].length THEN {0}
  ELSE {}

\* The dummy edges the constructor adds for candidate b of point i.
ArcsOf(g, tc, i, b) ==
  LET c == tc[i][b]
      n == CandidateNode(tc, i, b) IN
  { Arc(g[c.edge].source, n, c.offset),
    Arc(n, g[c.edge].target, g[c.edge].length - c.offset) }
  \cup UNION { { Arc(CandidateNode(tc, i - 1, a), n, cost) : cost \in Along(g, tc[i - 1][a], c) } :
                 a \in IF i = 1 THEN {} ELSE FirstOn(tc[i - 1], c.edge) }

DummyArcs(g, tc) == UNION { ArcsOf(g, tc, c.at, c.of) : c \in Candidates(tc) }

\* out_edges: the dummy edges that leave u, then the edges of the network.
OutArcs(g, tc, u) ==
  { r \in DummyArcs(g, tc) : r.source = u }
  \cup { Arc(u, g[e].target, g[e].length) : e \in OutEdges(g, u) }
=============================================================================
