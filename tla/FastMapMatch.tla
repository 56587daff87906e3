---------------------------- MODULE FastMapMatch ----------------------------
(***************************************************************************)
(* FastMapMatch::match_traj (mm/fmm/fmm_algorithm.cpp): the candidates of  *)
(* a trajectory become a transition graph, get_sp_dist asks the network    *)
(* and the UBODT how far apart two candidates are, backtrack picks a most  *)
(* likely path, and UBODT::construct_complete_path (mm/fmm/ubodt.cpp)      *)
(* fills it up to a connected path on the network.                         *)
(*                                                                         *)
(* The search of the candidates is left to the environment: a point has    *)
(* any of the Points given, none when nothing is within the radius.        *)
(***************************************************************************)
EXTENDS RoadGraph, TransitionGraph

CONSTANTS
  Networks,    \* networks considered
  Delta,       \* bound of their UBODT
  Points,      \* the candidates a point may have, a sequence each
  EuDists,     \* straight distances between two points
  Tolerance,   \* reverse_tolerance, in parts of TolUnit
  TolUnit,
  TrajId       \* id of the trajectory in its file

Candidate == [edge : EdgeIndex, offset : Nat, ep : Cost]

ASSUME MatchAssumption ==
  /\ Networks \subseteq Graph
  /\ Delta \in Nat
  /\ \A p \in Points : p \in Seq(Candidate)
  /\ EuDists \subseteq Nat
  /\ TolUnit \in Nat \ {0} /\ Tolerance \in 0 .. TolUnit
  /\ TrajId \in Nat \ {0}

(***************************************************************************)
(* The table UBODTGen writes for a network whose shortest paths are        *)
(* unique: cost and look_sp_path of every pair of nodes within the bound.  *)
(***************************************************************************)
NoRow == [cost |-> Absent, path |-> <<>>]

TableOf(g) ==
  LET dist == [s \in Node |-> DistanceFrom(g, s)]
      nextEdge(s, t) ==
        CHOOSE e \in OutEdges(g, s) :
          /\ dist[g[e].target][t] # Unreachable
          /\ g[e].length + dist[g[e].target][t] = dist[s][t]
      path[hops \in 0 .. NumNodes] ==
        [s \in Node |-> [t \in Node |->
           IF s = t \/ hops = 0 THEN <<>>
           ELSE LET e == nextEdge(s, t) IN <<e>> \o path[hops - 1][g[e].target][t]]]
  IN  [s \in Node |-> [t \in Node |->
         IF s = t \/ dist[s][t] = Unreachable \/ dist[s][t] > Delta THEN NoRow
         ELSE [cost |-> dist[s][t], path |-> path[NumNodes][s][t]]]]

Tables == [g \in Networks |-> TableOf(g)]

\* A way from s to t over the network, or no way at all.
IsWay(g, s, t, way) ==
  /\ way \in Seq(EdgeIndex)
  /\ way # <<>> =>
       /\ g[way[1]].source = s
       /\ g[way[Len(way)]].target = t
       /\ \A k \in 1 .. Len(way) - 1 : g[way[k]].target = g[way[k + 1]].source

\* What this module takes from UBODTGen: every row leads from its origin to
\* its destination, another node, over a path as long as its cost.
ASSUME UbodtAssumption ==
  \A g \in Networks : \A s, t \in Node :
    LET r == Tables[g][s][t] IN
    /\ r.cost \in Int /\ IsWay(g, s, t, r.path)
    /\ r # NoRow => s # t /\ r.path # <<>> /\ PathLength(g, r.path) = r.cost

VARIABLES
  network, ubodt,
  tc,        \* Traj_Candidates: the candidates of every point
  eu_dists,
  stage,     \* "match", then "complete", then "done"
  cpath,     \* edges of the complete path
  indices,   \* indices[i]: where in cpath, from 0, the edge of point i is
  result_id  \* id of the MatchResult returned

matchVars == <<network, ubodt, tc, eu_dists, stage, cpath, indices, result_id>>
fmmVars == <<tgVars, matchVars>>

-----------------------------------------------------------------------------
\* Fault seed: the row from the destination to the origin.
LookUpBack(s, t) == ubodt[t][s]

LookUp(s, t) == ubodt[s][t]
LookSpPath(s, t) == ubodt[s][t].path

FMMInit ==
  /\ TGInit
  /\ network \in Networks
  /\ ubodt = Tables[network]
  /\ tc = <<>> /\ eu_dists = <<>>
  /\ stage = "match" /\ cpath = <<>> /\ indices = <<>>
  /\ result_id = 0

-----------------------------------------------------------------------------
\* How far back b lies behind a on their edge, compared with the tolerance.
BackBy(a, b) == TolUnit * (a.offset - b.offset)
Allowed(a) == Tolerance * network[a.edge].length

DistanceOver(a, b, way) == way + network[a.edge].length - a.offset + b.offset

GetSpDist(a, b) ==
  LET from == network[a.edge].target
      to == network[b.edge].source IN
  IF a.edge = b.edge /\ a.offset <= b.offset THEN b.offset - a.offset
  ELSE IF a.edge = b.edge /\ BackBy(a, b) < Allowed(a) THEN 0
  ELSE IF from = to THEN DistanceOver(a, b, 0)
  ELSE IF LookUp(from, to) = NoRow THEN Unreachable
  ELSE DistanceOver(a, b, LookUp(from, to).cost)

(***************************************************************************)
(* The cost of the transition probability min(1, eu_dist / sp_dist): 0 for *)
(* a probability of 1, Impossible for 0, and the more the further sp_dist  *)
(* exceeds eu_dist (their difference stands for the log of the quotient).  *)
(***************************************************************************)
CalcTp(sp_dist, eu_dist) ==
  IF sp_dist = Unreachable THEN Impossible
  ELSE IF eu_dist >= sp_dist THEN 0
  ELSE IF eu_dist = 0 THEN Impossible
  ELSE sp_dist - eu_dist

\* search_tr_cs_knn and the constructor of the transition graph, or the
\* early return when a point has no candidate: MatchResult{} has id 0.
SearchCandidates ==
  /\ stage = "match" /\ pc = "start"
  /\ \E n \in 1 .. MaxLayers :
       /\ tc' \in [1 .. n -> Points]
       /\ eu_dists' \in [1 .. n - 1 -> EuDists]
  /\ \A i \in DOMAIN tc' : \A b \in DOMAIN tc'[i] :
       tc'[i][b].offset <= network[tc'[i][b].edge].length
  /\ IF \E i \in DOMAIN tc' : tc'[i] = <<>>
       THEN /\ stage' = "done" /\ result_id' = 0
            /\ UNCHANGED tgVars
       ELSE /\ Construct([i \in DOMAIN tc' |-> [b \in DOMAIN tc'[i] |-> tc'[i][b].ep]])
            /\ UNCHANGED <<stage, result_id>>
  /\ UNCHANGED <<network, ubodt, cpath, indices>>

Transition ==
  [a \in Layer(level) |-> [b \in Layer(level + 1) |->
     CalcTp(GetSpDist(tc[level][a], tc[level + 1][b]), eu_dists[level])]]

MatchLayers ==
  /\ stage = "match"
  /\ \/ level < N /\ UpdateLayer(Transition)
     \/ Backtrack
     \/ TrackBack
  /\ UNCHANGED matchVars

-----------------------------------------------------------------------------
Matched(i) == tc[i][opath[i].at]

BeginComplete ==
  /\ stage = "match" /\ pc = "done"
  /\ result_id' = TrajId
  /\ IF opath = <<>>
       THEN stage' = "done" /\ UNCHANGED <<cpath, indices>>
       ELSE /\ stage' = "complete"
            /\ cpath' = << Matched(1).edge >>
            /\ indices' = <<0>>
  /\ UNCHANGED <<tgVars, network, ubodt, tc, eu_dists>>

\* Fault seed: every pair of points on one edge stays on it.
MovesAnyhow(a, b) == a.edge # b.edge

\* The vehicle leaves the edge of a to reach b.
Moves(a, b) == a.edge # b.edge \/ BackBy(a, b) > Allowed(a)

\* Fault seed: the edge that ends the way is not counted.
IndexBefore(path) == Len(path) - 2

\* current_idx: the index of the last edge of the path.
CurrentIdx(path) == Len(path) - 1

\* One turn of the loop of construct_complete_path, for a point and the next.
CompletePair ==
  /\ stage = "complete"
  /\ Len(indices) < N
  /\ LET a == Matched(Len(indices))
         b == Matched(Len(indices) + 1)
         from == network[a.edge].target
         to == network[b.edge].source
         segs == LookSpPath(from, to) IN
     IF Moves(a, b) /\ segs = <<>> /\ from # to
     THEN cpath' = <<>> /\ indices' = <<>> /\ stage' = "done"
     ELSE /\ cpath' = IF Moves(a, b) THEN cpath \o segs \o << b.edge >> ELSE cpath
          /\ indices' = Append(indices, CurrentIdx(cpath'))
          /\ UNCHANGED stage
  /\ UNCHANGED <<tgVars, network, ubodt, tc, eu_dists, result_id>>

Return ==
  /\ stage = "complete" /\ Len(indices) = N
  /\ stage' = "done"
  /\ UNCHANGED <<tgVars, network, ubodt, tc, eu_dists, cpath, indices, result_id>>

Returned == stage = "done" /\ UNCHANGED fmmVars

FMMNext ==
  \/ SearchCandidates \/ MatchLayers
  \/ BeginComplete \/ CompletePair \/ Return \/ Returned

FMMSpec == FMMInit /\ [][FMMNext]_fmmVars

-----------------------------------------------------------------------------
(***************************************************************************)
(* The inductive invariant: the transitions kept by the graph are those    *)
(* get_sp_dist scored, and what is completed so far is a connected path in *)
(* which indices finds the points it has passed.                           *)
(***************************************************************************)
CandidatesOK ==
  pc # "start" =>
    /\ tc \in Seq(Seq(Candidate)) /\ Len(tc) = N
    /\ \A i \in 1 .. N : Len(tc[i]) = Len(ep[i])
    /\ eu_dists \in [1 .. N - 1 -> Nat]

Scored ==
  pc # "start" =>
    \A i \in 1 .. level - 1 : \A a \in Layer(i), b \in Layer(i + 1) :
      tps[i][a][b] = CalcTp(GetSpDist(tc[i][a], tc[i + 1][b]), eu_dists[i])

Completing == stage = "complete" \/ (stage = "done" /\ opath # <<>>)

Connected(way) ==
  \A k \in 1 .. Len(way) - 1 : network[way[k]].target = network[way[k + 1]].source

\* From the edge of a, at i in path, to that of b, at j: the path stays on
\* it, or takes the way of the table.
Follows(path, a, b, i, j) ==
  LET from == network[a.edge].target
      to == network[b.edge].source
      way == LookSpPath(from, to) IN
  IF Moves(a, b)
    THEN i < j /\ SubSeq(path, i + 2, j) = way /\ (way # <<>> \/ from = to)
    ELSE i = j

PathSoFar ==
  /\ cpath \in Seq(EdgeIndex) /\ Connected(cpath)
  /\ indices \in Seq(Nat) /\ Len(indices) \in 1 .. N
  /\ \A i \in 1 .. Len(indices) :
       indices[i] + 1 \in DOMAIN cpath /\ cpath[indices[i] + 1] = Matched(i).edge
  /\ \A i \in 1 .. Len(indices) - 1 :
       /\ indices[i] <= indices[i + 1]
       /\ Follows(cpath, Matched(i), Matched(i + 1), indices[i], indices[i + 1])
  /\ indices[1] = 0 /\ indices[Len(indices)] + 1 = Len(cpath)

FMMInv ==
  /\ TGIInv
  /\ network \in Networks /\ ubodt = Tables[network]
  /\ stage \in {"match", "complete", "done"}
  /\ CandidatesOK /\ Scored
  /\ Completing => pc = "done" /\ opath # <<>> /\ PathSoFar
  /\ stage = "done" /\ opath # <<>> => Len(indices) = N

\* A path was inferred, and its completion has ended.
IsMatched == stage = "done" /\ opath # <<>>

(***************************************************************************)
(* Every matched trajectory gets a complete path: where get_sp_dist found  *)
(* b within reach of a, construct_complete_path finds the way.             *)
(***************************************************************************)
MatchedIsCompleted == IsMatched => cpath # <<>>

\* The complete path is connected (mm_type.hpp: "a sequence of
\* topologically connected edges").
CompletePathConnected == IsMatched => Connected(cpath)

\* indices finds the edge matched to every point in the complete path, in
\* order, from its first edge to its last.
IndicesLocatePoints ==
  IsMatched =>
    /\ Len(indices) = N
    /\ \A i \in 1 .. N : indices[i] + 1 \in DOMAIN cpath
                         /\ cpath[indices[i] + 1] = Matched(i).edge
    /\ \A i \in 1 .. N - 1 : indices[i] <= indices[i + 1]
    /\ indices[1] = 0 /\ indices[N] + 1 = Len(cpath)

(***************************************************************************)
(* The distance get_sp_dist scored between two points is the distance the  *)
(* complete path drives between them: from the offset on the first edge,   *)
(* over the edges between, to the offset on the last.  A reverse movement  *)
(* of exactly the tolerance is left out: get_sp_dist (<) scores the way    *)
(* out of the edge and back, the complete path (>) stays on the edge.      *)
(***************************************************************************)
Driven(i) ==
  LET first == indices[i] + 1
      last == indices[i + 1] + 1
      a == Matched(i)
      b == Matched(i + 1) IN
  IF first # last
    THEN network[cpath[first]].length - a.offset
           + PathLength(network, SubSeq(cpath, first + 1, last - 1)) + b.offset
    ELSE IF a.offset <= b.offset THEN b.offset - a.offset ELSE 0

AtTolerance(a, b) == a.edge = b.edge /\ a.offset > b.offset /\ BackBy(a, b) = Allowed(a)

ScoredAsDriven ==
  IsMatched /\ cpath # <<>> =>
    \A i \in 1 .. N - 1 :
      \/ AtTolerance(Matched(i), Matched(i + 1))
      \/ GetSpDist(Matched(i), Matched(i + 1)) = Driven(i)
=============================================================================
