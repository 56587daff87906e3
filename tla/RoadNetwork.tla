---------------------------- MODULE RoadNetwork ----------------------------
(***************************************************************************)
(* Network (network/network.cpp): the road network in memory.  It is read  *)
(* edge by edge from a file that names nodes and edges by any integers;    *)
(* indices are assigned in the order of mention.  The matchers then ask it *)
(* for the candidates of a trajectory (search_tr_cs_knn) and for the       *)
(* geometry of a matched path (complete_path_to_geometry).                 *)
(*                                                                         *)
(* add_edge extends a network in memory, and leaves num_vertices and the   *)
(* rtree, which points into the vector of edges, as they were.             *)
(***************************************************************************)
EXTENDS LineGeometry, FiniteSets

CONSTANTS
  Files,     \* network files: sequences of features
  Extra,     \* features add_edge may add, each once (bound of the model)
  Trajs,     \* trajectories: sequences of points
  Ks,        \* numbers of candidates asked for
  Radii,     \* search radii
  MaxPath    \* most edges of a path whose geometry is asked for (bound)

Feature == [id : Int, source : Int, target : Int, geom : Line]

ASSUME NetworkAssumption ==
  /\ \A layer \in Files : layer \in Seq(Feature)
  /\ Extra \subseteq Feature
  /\ Ks \subseteq Nat \ {0} /\ Radii \subseteq Nat /\ MaxPath \in Nat
  /\ Trajs \subseteq Seq(Int \X Int) \ {<<>>}

VARIABLES
  features,       \* the features of the file not read yet
  edges,          \* edges[i + 1] is the edge with index i
  node_id_vec,    \* node_id_vec[n + 1] is the id of the node with index n
  node_map,       \* node id |-> node index
  edge_map,       \* edge id |-> edge index
  vertex_points,
  num_vertices,   \* set when the file is read
  rtree,          \* the items: a box and the index of its edge
  added,          \* the features add_edge has added
  moved,          \* push_back has moved the edges the rtree points to
  pc,             \* "read", "ready", "search", "returned" or "crashed"
  request,        \* arguments of the search: trajectory, k and radius
  tr_cs,          \* the candidates found so far, point by point
  next_index,     \* current_candidate_index
  mgeom           \* path, trajectory and result of complete_path_to_geometry

store == <<edges, node_id_vec, node_map, edge_map, vertex_points>>
network_vars == <<features, store, num_vertices, rtree, added, moved, pc, request,
          tr_cs, next_index, mgeom>>

NoRequest == [geom |-> <<>>, k |-> 0, radius |-> 0]
NoGeometry == [path |-> <<>>, traj |-> <<>>, line |-> <<>>]

NetworkInit ==
  /\ features \in Files
  /\ edges = <<>> /\ node_id_vec = <<>> /\ vertex_points = <<>>
  /\ node_map = <<>> /\ edge_map = <<>>
  /\ num_vertices = 0 /\ rtree = {} /\ added = {} /\ moved = FALSE
  /\ pc = "read"
  /\ request = NoRequest /\ tr_cs = <<>> /\ next_index = 0 /\ mgeom = NoGeometry

-----------------------------------------------------------------------------
\* The nodes in order of mention, with the points they take.
Mentions(f) == << <<f.source, f.geom[1]>>, <<f.target, f.geom[Len(f.geom)]>> >>

\* Fault seed: a node takes a new index with every mention.
IsNewAnyway(ids, id) == TRUE

IsNew(ids, id) == \A n \in DOMAIN ids : ids[n] # id

\* The mentions whose nodes are not known yet: of two of one new node the first.
NewMentions(f) ==
  LET source == IF IsNew(node_id_vec, f.source) THEN << Mentions(f)[1] >> ELSE <<>>
      target == IF IsNew(node_id_vec \o << f.source >>, f.target)
                THEN << Mentions(f)[2] >> ELSE <<>>
  IN  source \o target

\* unordered_map::insert keeps the value of a key it has.
Inserted(map, key, value) ==
  [k \in DOMAIN map \cup {key} |-> IF k \in DOMAIN map THEN map[k] ELSE value]

\* The body of the loop of read_ogr_file, which add_edge repeats.
Store(f) ==
  LET new == NewMentions(f)
      ids == node_id_vec \o [m \in DOMAIN new |-> new[m][1]]
      index(id) == CHOOSE n \in 0 .. Len(ids) - 1 : ids[n + 1] = id IN
  /\ node_id_vec' = ids
  /\ vertex_points' = vertex_points \o [m \in DOMAIN new |-> new[m][2]]
  /\ node_map' = [id \in ToSet(ids) |-> IF id \in DOMAIN node_map THEN node_map[id] ELSE index(id)]
  /\ edges' = Append(edges, [id |-> f.id, source |-> node_map'[f.source],
                             target |-> node_map'[f.target], geom |-> f.geom])
  /\ edge_map' = Inserted(edge_map, f.id, Len(edges))

ReadFeature ==
  /\ pc = "read" /\ features # <<>>
  /\ Store(Head(features))
  /\ features' = Tail(features)
  /\ UNCHANGED <<num_vertices, rtree, added, moved, pc, request, tr_cs, next_index, mgeom>>

\* build_rtree_index
Items == { [box |-> BoundingBox(edges[i].geom), edge |-> i - 1] : i \in DOMAIN edges }

\* The end of read_ogr_file.
EndRead ==
  /\ pc = "read" /\ features = <<>>
  /\ num_vertices' = Len(node_id_vec)
  /\ rtree' = Items
  /\ pc' = "ready"
  /\ UNCHANGED <<features, store, added, moved, request, tr_cs, next_index, mgeom>>

\* push_back may find no room and move the edges.
AddEdge ==
  /\ pc = "ready"
  /\ \E f \in Extra \ added : Store(f) /\ added' = added \cup {f}
  /\ moved' \in {moved, TRUE}
  /\ UNCHANGED <<features, num_vertices, rtree, pc, request, tr_cs, next_index, mgeom>>

-----------------------------------------------------------------------------
BeginSearch ==
  /\ pc = "ready"
  /\ \E line \in Trajs, k \in Ks, radius \in Radii :
       request' = [geom |-> line, k |-> k, radius |-> radius]
  /\ pc' = "search"
  /\ tr_cs' = <<>>
  /\ next_index' = num_vertices
  /\ UNCHANGED <<features, store, num_vertices, rtree, added, moved, mgeom>>

Square(p, radius) ==
  [x1 |-> p[1] - radius, y1 |-> p[2] - radius, x2 |-> p[1] + radius, y2 |-> p[2] + radius]

CandidateOn(p, e) ==
  LET found == LinearReferencing(p, edges[e + 1].geom) IN
  [edge |-> e, offset |-> found.offset, dist2 |-> found.dist2, point |-> found.point]

\* What the rtree finds in the square, within the radius.
WithinRadius(p, radius) ==
  { c \in { CandidateOn(p, item.edge) :
              item \in { i \in rtree : Overlap(i.box, Square(p, radius)) } } :
      c.dist2 <= radius * radius }

\* candidate_compare
CandidateCompare(a, b) == a.dist2 < b.dist2 \/ (a.dist2 = b.dist2 /\ a.edge < b.edge)

\* Up to k candidates stay in the order of the rtree, which is any order;
\* of more, partial_sort_copy takes the k first by candidate_compare, in order.
Chosen(pcs, k) ==
  IF Cardinality(pcs) <= k THEN SetToSeqs(pcs)
  ELSE { cs \in [1 .. k -> pcs] :
           /\ \A m, n \in 1 .. k : m < n => CandidateCompare(cs[m], cs[n])
           /\ \A c \in pcs \ ToSet(cs) : CandidateCompare(cs[k], c) }

\* Fault seed: every point numbers its candidates anew.
NextIndexStays(n) == next_index

NextIndex(n) == next_index + n

Numbered(cs) == [m \in DOMAIN cs |-> [index |-> next_index + m - 1, c |-> cs[m]]]

\* One turn of the loop over the points.  Without a candidate the search is
\* over, and returns none for any point.
SearchPoint ==
  /\ pc = "search" /\ Len(tr_cs) < Len(request.geom)
  /\ LET pcs == WithinRadius(request.geom[Len(tr_cs) + 1], request.radius) IN
     IF pcs = {}
     THEN pc' = "returned" /\ tr_cs' = <<>> /\ UNCHANGED next_index
     ELSE /\ \E cs \in Chosen(pcs, request.k) :
               /\ tr_cs' = Append(tr_cs, Numbered(cs))
               /\ next_index' = NextIndex(Len(cs))
          /\ UNCHANGED pc
  /\ UNCHANGED <<features, store, num_vertices, rtree, added, moved, request, mgeom>>

\* The edges of the rtree are read where they were: anything may happen, of
\* which the end of the program and the intact copy are considered.
SearchMoved ==
  /\ pc = "search" /\ moved
  /\ pc' = "crashed"
  /\ UNCHANGED <<features, store, num_vertices, rtree, added, moved, request,
                 tr_cs, next_index, mgeom>>

EndSearch ==
  /\ pc = "search" /\ Len(tr_cs) = Len(request.geom)
  /\ pc' = "returned"
  /\ UNCHANGED <<features, store, num_vertices, rtree, added, moved, request,
                 tr_cs, next_index, mgeom>>

-----------------------------------------------------------------------------
GetEdgeGeom(id) == edges[edge_map[id] + 1].geom

\* append_segs_to_line with offset 1
AppendSegs(line, segs) == line \o Tail(segs)

\* complete_path_to_geometry
CompletePathToGeometry(traj, path) ==
  LET first == GetEdgeGeom(path[1])
      last == GetEdgeGeom(path[Len(path)])
      from == LinearReferencing(traj[1], first).offset
      to == LinearReferencing(traj[Len(traj)], last).offset
      through[i \in 0 .. Len(path) - 2] ==
        IF i = 0 THEN CutFrom(first, from)
        ELSE AppendSegs(through[i - 1], GetEdgeGeom(path[i + 1]))
  IN  IF Len(path) = 1 THEN CutoffsegUnique(first, from, to)
      ELSE AppendSegs(through[Len(path) - 2], CutTo(last, to))

\* The matcher asks for the geometry of a connected path of edge ids.
IsPath(path) ==
  \A i \in 1 .. Len(path) - 1 : edges[path[i] + 1].target = edges[path[i + 1] + 1].source

ToGeometry ==
  /\ pc = "ready"
  /\ \E line \in Trajs, n \in 1 .. MaxPath : \E path \in [1 .. n -> 0 .. Len(edges) - 1] :
       /\ IsPath(path)
       /\ LET ids == [i \in 1 .. n |-> edges[path[i] + 1].id] IN
          mgeom' = [path |-> path, traj |-> line, line |-> CompletePathToGeometry(line, ids)]
  /\ pc' = "returned"
  /\ UNCHANGED <<features, store, num_vertices, rtree, added, moved, request, tr_cs, next_index>>

\* The candidates or the geometry are with the caller.
Returned ==
  /\ pc = "returned"
  /\ pc' = "ready"
  /\ request' = NoRequest /\ tr_cs' = <<>> /\ next_index' = 0 /\ mgeom' = NoGeometry
  /\ UNCHANGED <<features, store, num_vertices, rtree, added, moved>>

\* Nothing follows a crash.
Crashed == pc = "crashed" /\ UNCHANGED network_vars

NetworkNext ==
  \/ ReadFeature \/ EndRead \/ AddEdge
  \/ BeginSearch \/ SearchPoint \/ SearchMoved \/ EndSearch
  \/ ToGeometry \/ Returned \/ Crashed

NetworkSpec == NetworkInit /\ [][NetworkNext]_network_vars

-----------------------------------------------------------------------------
NodesSoFar == 0 .. Len(node_id_vec) - 1
EdgesSoFar == 0 .. Len(edges) - 1

(***************************************************************************)
(* The containers agree: ids and indices of nodes are one to one, an edge  *)
(* id leads to the first edge that carries it, and the point of a node is  *)
(* an end of an edge there.                                                *)
(***************************************************************************)
Edge == [id : Int, source : Nat, target : Nat, geom : Line]

Containers ==
  /\ edges \in Seq(Edge) /\ node_id_vec \in Seq(Int) /\ vertex_points \in Seq(Int \X Int)
  /\ DOMAIN node_map = ToSet(node_id_vec)
  /\ \A n \in NodesSoFar : node_map[node_id_vec[n + 1]] = n
  /\ DOMAIN edge_map = { edges[i].id : i \in DOMAIN edges }
  /\ \A id \in DOMAIN edge_map :
       /\ edge_map[id] \in EdgesSoFar /\ edges[edge_map[id] + 1].id = id
       /\ \A i \in 1 .. edge_map[id] : edges[i].id # id
  /\ \A i \in DOMAIN edges : {edges[i].source, edges[i].target} \subseteq NodesSoFar
  /\ DOMAIN vertex_points = DOMAIN node_id_vec
  /\ \A n \in NodesSoFar : \E i \in DOMAIN edges :
       \/ edges[i].source = n /\ edges[i].geom[1] = vertex_points[n + 1]
       \/ edges[i].target = n /\ edges[i].geom[Len(edges[i].geom)] = vertex_points[n + 1]

\* The type invariant, with the agreement of the containers.
NetworkTypeOK ==
  /\ pc \in {"read", "ready", "search", "returned", "crashed"}
  /\ features \in Seq(Feature) /\ added \subseteq Extra /\ moved \in BOOLEAN
  /\ num_vertices \in 0 .. Len(node_id_vec) /\ next_index \in Nat
  /\ Containers

\* How far an edge is from a point, squared.
DistanceTo(p, e) == Least({ Dist2(p, q.point) : q \in PointsOf(edges[e + 1].geom) })

\* The offset of a candidate is where its point lies on the edge; no point
\* of the edge is closer and none as close comes before.
OffsetsLocate ==
  \A i \in DOMAIN tr_cs : \A m \in DOMAIN tr_cs[i] :
    LET c == tr_cs[i][m].c
        on == PointsOf(edges[c.edge + 1].geom)
        closest == { q \in on : Dist2(request.geom[i], q.point) = c.dist2 } IN
    /\ [point |-> c.point, offset |-> c.offset] \in closest
    /\ c.offset = Least({ q.offset : q \in closest })
    /\ c.dist2 = DistanceTo(request.geom[i], c.edge)

(***************************************************************************)
(* The candidates of a point are the k nearest of the edges read from the  *)
(* file, or all within the radius if they are fewer, whatever the sign of  *)
(* the coordinates (boundingbox_geometry seeks the greatest of them among  *)
(* positive numbers only); the search returns no candidates only if some   *)
(* point has no edge within the radius.  All points of a line count, and   *)
(* each candidate is located at the closest.                               *)
(***************************************************************************)
Before(p, e, other) ==
  \/ DistanceTo(p, e) < DistanceTo(p, other)
  \/ DistanceTo(p, e) = DistanceTo(p, other) /\ e < other

Near(p) ==
  { e \in 0 .. Cardinality(rtree) - 1 : DistanceTo(p, e) <= request.radius * request.radius }

NearestChosen ==
  /\ OffsetsLocate
  /\ \A i \in DOMAIN tr_cs :
       LET p == request.geom[i]
           found == { tr_cs[i][m].c.edge : m \in DOMAIN tr_cs[i] } IN
       /\ found \subseteq Near(p) /\ Cardinality(found) = Len(tr_cs[i])
       /\ Len(tr_cs[i]) = Least({request.k, Cardinality(Near(p))})
       /\ \A e \in found, other \in Near(p) \ found : Before(p, e, other)
  /\ pc = "returned" /\ tr_cs = <<>> =>
       mgeom # NoGeometry \/ \E i \in DOMAIN request.geom : Near(request.geom[i]) = {}

(***************************************************************************)
(* The indices of the candidates count on from point to point, and on a    *)
(* network as read none of them is the index of a node: the composite      *)
(* graph of STMATCH tells candidates from nodes by their index alone.      *)
(***************************************************************************)
CandidatesNumbered ==
  \A i \in DOMAIN tr_cs :
    /\ tr_cs[i] # <<>>
    /\ tr_cs[i][1].index =
         IF i = 1 THEN num_vertices ELSE tr_cs[i - 1][Len(tr_cs[i - 1])].index + 1
    /\ \A m \in 2 .. Len(tr_cs[i]) : tr_cs[i][m].index = tr_cs[i][m - 1].index + 1
    /\ added = {} => \A m \in DOMAIN tr_cs[i] : tr_cs[i][m].index \notin NodesSoFar

(***************************************************************************)
(* The geometry of a path runs without a gap from the point of its first   *)
(* edge closest to the first GPS point to the point of its last edge       *)
(* closest to the last one, and is as long as the parts of the edges in    *)
(* between.  Edges meet in the points of their nodes and ids are unique;   *)
(* a path of one edge is not driven backwards.                             *)
(***************************************************************************)
Geom(i) == edges[mgeom.path[i] + 1].geom

Joined ==
  LET n == Len(mgeom.path) IN
  /\ \A i \in 1 .. n : edge_map[edges[mgeom.path[i] + 1].id] = mgeom.path[i]
  /\ \A i \in 1 .. n - 1 : Geom(i)[Len(Geom(i))] = Geom(i + 1)[1]

GeometryRunsAlong ==
  mgeom # NoGeometry /\ Joined =>
    LET n == Len(mgeom.path)
        from == LinearReferencing(mgeom.traj[1], Geom(1))
        to == LinearReferencing(mgeom.traj[Len(mgeom.traj)], Geom(n))
        upTo[i \in 0 .. n - 1] == IF i = 0 THEN 0 ELSE upTo[i - 1] + LineLength(Geom(i))
    IN  n > 1 \/ from.offset <= to.offset =>
          /\ mgeom.line # <<>> /\ IsLine(mgeom.line)
          /\ mgeom.line[1] = from.point /\ mgeom.line[Len(mgeom.line)] = to.point
          /\ LineLength(mgeom.line) = upTo[n - 1] + to.offset - from.offset
=============================================================================
