------------------------------- MODULE StMatch -------------------------------
(***************************************************************************)
(* STMATCH::match_traj (mm/stmatch/stmatch_algorithm.cpp).  It shares with *)
(* FastMapMatch the candidates, the transition graph and the completion of *)
(* the path (build_cpath is construct_complete_path with a Dijkstra search *)
(* where that asks the UBODT: the ubodt of this module holds every pair).  *)
(* It differs in the distance of two candidates, which it searches in the  *)
(* composite graph up to a bound derived from the timestamps, or from the  *)
(* straight distance of the points where there are none.                   *)
(***************************************************************************)
EXTENDS FastMapMatch

CONSTANTS
  Durations,    \* seconds between two points, negative ones included
  Reach,        \* factor * vmax: metres per second
  Stretch,      \* factor * 4: metres per metre between the points
  Remote        \* cost of the probability eu_dist / DBL_MAX

ASSUME StMatchAssumption ==
  /\ Durations \subseteq Int
  /\ Reach \in Nat /\ Stretch \in Nat /\ Remote \in Nat
  /\ \A g \in Networks : \A s, t \in Node :
       DistanceFrom(g, s)[t] # Unreachable => DistanceFrom(g, s)[t] <= Delta

\* search_tr_cs_knn looks at every edge once for a point.
ASSUME OneCandidateAnEdge ==
  \A p \in Points : \A x, y \in DOMAIN p : p[x].edge = p[y].edge => x = y

CG == INSTANCE CompositeGraph

VARIABLES
  durations,  \* between the points, <<>> if their number differs from them
  rows,       \* the distances to the next layer from the candidates so far
  search      \* the locals of shortest_path_upperbound, NoSearch outside

stVars == <<fmmVars, durations, rows, search>>

NoSearch == [unreached |-> {}, heap |-> <<>>, dmap |-> <<>>, over |-> TRUE]

StInit == FMMInit /\ durations = <<>> /\ rows = <<>> /\ search = NoSearch

StSearchCandidates ==
  /\ SearchCandidates
  /\ durations' \in {<<>>} \cup [1 .. Len(tc') - 1 -> Durations]
  /\ UNCHANGED <<rows, search>>

\* delta of update_tg.
Bound(i) == IF durations = <<>> THEN Stretch * eu_dists[i] ELSE Reach * durations[i]

-----------------------------------------------------------------------------
Targets == { CG!CandidateNode(tc, level + 1, b) : b \in Layer(level + 1) }
Unknown == [v \in CG!CompNode(tc) |-> Absent]

\* update_layer calls shortest_path_upperbound for the next candidate.
StartSearch ==
  /\ stage = "match" /\ pc = "update" /\ level < N
  /\ search = NoSearch /\ Len(rows) < Len(ep[level])
  /\ LET source == CG!CandidateNode(tc, level, Len(rows) + 1) IN
     search' = [unreached |-> Targets,
                heap |-> [Unknown EXCEPT ![source] = 0],
                dmap |-> [Unknown EXCEPT ![source] = 0],
                over |-> FALSE]
  /\ UNCHANGED <<fmmVars, durations, rows>>

InQueue == { v \in DOMAIN search.heap : search.heap[v] # Absent }

\* Fault seed: the heap compares node indices only.
BeforeByIndex(u, v) == u <= v

\* HeapNode::operator<
Before(u, v) ==
  search.heap[u] < search.heap[v] \/ (search.heap[u] = search.heap[v] /\ u <= v)

Searching == search # NoSearch /\ ~ search.over /\ InQueue # {} /\ search.unreached # {}

\* A known node takes a smaller distance, a new one a distance in bound.
Shortened(v, d) ==
  IF \/ search.dmap[v] # Absent /\ search.dmap[v] > d
     \/ search.dmap[v] = Absent /\ d <= Bound(level)
  THEN d ELSE search.dmap[v]

\* The distance of v after the loop over the out edges of u.
RelaxedTo(u, v) ==
  LET arcs == CG!OutArcs(network, tc, u)
      costs == { r.cost : r \in {arc \in arcs : arc.target = v} }
      nearest == CHOOSE c \in costs : \A other \in costs : c <= other IN
  IF costs = {} THEN search.dmap[v] ELSE Shortened(v, search.heap[u] + nearest)

Relaxed(u) == [v \in DOMAIN search.dmap |-> RelaxedTo(u, v)]

\* One turn of the loop of shortest_path_upperbound.
Expand ==
  /\ Searching
  /\ \E u \in InQueue :
       /\ \A v \in InQueue : Before(u, v)
       /\ IF search.heap[u] > Bound(level)
            THEN search' = [search EXCEPT !.unreached = @ \ {u}, !.heap[u] = Absent,
                                          !.over = TRUE]
            ELSE search' =
                   [search EXCEPT
                      !.unreached = @ \ {u},
                      !.dmap = Relaxed(u),
                      !.heap = [v \in DOMAIN @ |->
                                  IF Relaxed(u)[v] # search.dmap[v] THEN Relaxed(u)[v]
                                  ELSE IF v = u THEN Absent ELSE @[v]]]
  /\ UNCHANGED <<fmmVars, durations, rows>>

\* The distances of the targets, DBL_MAX for those not reached.
EndSearch ==
  /\ search # NoSearch /\ ~ Searching
  /\ rows' = Append(rows, [b \in Layer(level + 1) |->
                LET d == search.dmap[CG!CandidateNode(tc, level + 1, b)] IN
                IF d = Absent THEN Unreachable ELSE d])
  /\ search' = NoSearch
  /\ UNCHANGED <<fmmVars, durations>>

\* Fault seed: what is not reached is at no distance.
TransitionCostOfNone(sp_dist, eu_dist) == IF sp_dist = Unreachable THEN 0 ELSE CalcTp(sp_dist, eu_dist)

\* calc_tp: the distance DBL_MAX leaves a probability that is not 0.
TransitionCost(sp_dist, eu_dist) ==
  IF sp_dist = Unreachable /\ eu_dist > 0 THEN Remote ELSE CalcTp(sp_dist, eu_dist)

\* The costs update_layer gives the candidates of the next layer.  Unlike
\* FMM's, update_tg goes on where no candidate was reached.
StUpdateLayer ==
  /\ stage = "match" /\ search = NoSearch /\ level < N
  /\ Len(rows) = Len(ep[level])
  /\ RunLayer([a \in Layer(level) |-> [b \in Layer(level + 1) |->
                 TransitionCost(rows[a][b], eu_dists[level])]])
  /\ rows' = <<>>
  /\ UNCHANGED <<matchVars, durations, search>>

StBacktrack ==
  /\ stage = "match"
  /\ (level = N /\ Backtrack) \/ TrackBack
  /\ UNCHANGED <<matchVars, durations, rows, search>>

BuildCPath ==
  /\ BeginComplete \/ CompletePair \/ Return
  /\ UNCHANGED <<durations, rows, search>>

StReturned == stage = "done" /\ UNCHANGED stVars

Match ==
  \/ StSearchCandidates \/ StartSearch \/ Expand \/ EndSearch \/ StUpdateLayer
  \/ StBacktrack \/ BuildCPath

StNext == Match \/ StReturned

StSpec == StInit /\ [][StNext]_stVars

-----------------------------------------------------------------------------
SearchState ==
  [unreached : SUBSET Targets,
   heap : [CG!CompNode(tc) -> Nat \cup {Absent}],
   dmap : [CG!CompNode(tc) -> Nat \cup {Absent}],
   over : BOOLEAN]

Seconds == {<<>>} \cup [1 .. Len(tc) - 1 -> Int]

StTypeOK ==
  /\ TGIInv
  /\ network \in Networks /\ ubodt = Tables[network]
  /\ stage \in {"match", "complete", "done"}
  /\ CandidatesOK
  /\ durations \in Seconds
  /\ rows # <<>> => rows \in Seq([Layer(level + 1) -> Nat \cup {Unreachable}])
  /\ search # NoSearch => search \in SearchState

\* search_tr_cs_knn finds candidates on their edges.
OnTheirEdges ==
  pc # "start" =>
    \A i \in 1 .. N : \A b \in DOMAIN tc[i] : tc[i][b].offset <= network[tc[i][b].edge].length

\* The heap holds the recorded distances, and what was taken from it is no
\* farther than what it holds.
TakenFirst ==
  search # NoSearch =>
    /\ \A v \in InQueue : search.heap[v] = search.dmap[v]
    /\ \A v \in DOMAIN search.dmap \ InQueue : search.dmap[v] # Absent =>
         \A w \in InQueue : search.dmap[v] <= search.heap[w]

\* The graph is that of TransitionGraph whatever the searches return, distances
\* are kept while a layer is updated and no longer, and the path so far is
\* connected and located, unless build_cpath has given up on it.
StCore ==
  /\ StTypeOK /\ OnTheirEdges /\ TakenFirst
  /\ rows # <<>> \/ search # NoSearch => stage = "match" /\ pc = "update" /\ level < N
  /\ stage = "complete" => pc = "done" /\ opath # <<>> /\ PathSoFar
  /\ IsMatched => IF cpath = <<>> THEN indices = <<>> ELSE PathSoFar /\ Len(indices) = N

\* Over the road, a way of length x or less leads from candidate a to node v.
ByRoad(g, a, v, x) ==
  LET d == DistanceFrom(g, g[a.edge].target)[v] IN
  d # Unreachable /\ g[a.edge].length - a.offset + d <= x

\* ... to candidate c of point i: over the road, or along the edge of
\* candidate a of point from without leaving it.
ToCandidate(g, from, a, i, c, x) ==
  \/ ByRoad(g, a, g[c.edge].source, x - c.offset)
  \/ /\ c.edge = a.edge /\ x >= 0
     /\ \/ i = from
        \/ i = from + 1 /\ \E cost \in CG!Along(g, a, c) : cost <= x
        \/ i > from + 1 /\ c.offset - a.offset <= x

\* ... to node v of the composite graph, whatever it stands for.
Reaches(g, t, from, n, v, x) ==
  /\ v \in Node => ByRoad(g, t[from][n], v, x)
  /\ \A i \in DOMAIN t : \A b \in DOMAIN t[i] :
       v = CG!CandidateNode(t, i, b) => ToCandidate(g, from, t[from][n], i, t[i][b], x)

\* No arc within the bound that leaves u leads farther than it has to.
ArcsRelaxed(g, t, bound, dmap, u) ==
  \A r \in CG!OutArcs(g, t, u) :
    dmap[u] + r.cost <= bound =>
      dmap[r.target] # Absent /\ dmap[r.target] <= dmap[u] + r.cost

(***************************************************************************)
(* What the search s from candidate n of a point knows: every distance is  *)
(* that of a way to the node, and within the bound; the arcs of the nodes  *)
(* taken are relaxed; it is over early only when all that is left lies     *)
(* beyond the bound, or every target has been taken.                       *)
(***************************************************************************)
Finds(g, t, from, n, bound, s) ==
  LET source == CG!CandidateNode(t, from, n)
      known == { v \in DOMAIN s.dmap : s.dmap[v] # Absent }
      taken == { v \in known : s.heap[v] = Absent } IN
  /\ n \in DOMAIN t[from]
  /\ source \in known /\ s.dmap[source] = 0
  /\ \A v \in known : Reaches(g, t, from, n, v, s.dmap[v])
  /\ \A v \in known \ {source} : s.dmap[v] <= bound
  /\ \A u \in taken : ArcsRelaxed(g, t, bound, s.dmap, u)
  /\ s.over => \A v \in known \ taken : s.heap[v] > bound
  /\ \A b \in DOMAIN t[from + 1] :
       CG!CandidateNode(t, from + 1, b) \in s.unreached \cup taken

Within(d, bound) == IF d # Unreachable /\ d <= bound THEN d ELSE Unreachable

\* The distances found are those FMM computes, up to the bound.
RowsExact ==
  \A a \in 1 .. Len(rows) : \A b \in Layer(level + 1) :
    rows[a][b] = Within(GetSpDist(tc[level][a], tc[level + 1][b]), Bound(level))

\* They make the transitions of the layers before.
SearchesScored ==
  pc # "start" =>
    \A i \in 1 .. level - 1 : \A a \in Layer(i), b \in Layer(i + 1) :
      tps[i][a][b] =
        TransitionCost(Within(GetSpDist(tc[i][a], tc[i + 1][b]), Bound(i)), eu_dists[i])

OneOnAnEdge ==
  pc # "start" =>
    \A i \in 1 .. N : \A x, y \in DOMAIN tc[i] : tc[i][x].edge = tc[i][y].edge => x = y

\* build_cpath gives up where the table, too, has no way.
GaveUp ==
  IsMatched /\ cpath = <<>> =>
    pc = "done" /\ \E i \in 1 .. N - 1 : GetSpDist(Matched(i), Matched(i + 1)) = Unreachable

(***************************************************************************)
(* The inductive invariant: the searches go by the road, and find the      *)
(* distances that make the transitions.                                    *)
(***************************************************************************)
StInv ==
  /\ StCore /\ OneOnAnEdge
  /\ search # NoSearch => Finds(network, tc, level, Len(rows) + 1, Bound(level), search)
  /\ RowsExact /\ SearchesScored /\ GaveUp

\* Heap::decrease_key is called only for a node still in the heap: no node
\* known and taken gets a smaller distance from the next one.
TakenStays ==
  Searching =>
    \A u \in InQueue : (\A v \in InQueue : Before(u, v)) =>
      \A v \in DOMAIN search.dmap \ InQueue :
        search.dmap[v] # Absent => Relaxed(u)[v] = search.dmap[v]

(***************************************************************************)
(* The search over the composite graph, dummy nodes of all points          *)
(* included, finds the distance FMM computes from the ends of the edges,   *)
(* up to the bound: an early stop on the last target leaves no distance    *)
(* that is not final, no way along a dummy edge is shorter, and no node    *)
(* taken off the heap is lowered.                                          *)
(***************************************************************************)
DistancesAgree == TakenStays /\ RowsExact

(***************************************************************************)
(* Transitions beyond the bound are as unlikely as they can be and still   *)
(* possible.  build_cpath, which searches without a bound, therefore gives *)
(* up on a trajectory only when there is no choice of candidates likelier  *)
(* than such a transition alone.                                           *)
(***************************************************************************)
GivesUpOnlyBeyondBound ==
  IsMatched /\ cpath = <<>> =>
    \A choice \in [1 .. N -> 1 .. MaxCandidates] :
      IsChoice(choice, N) => ~ Likelier(CostOf(choice, N), Remote)

\* A path that is returned is connected, and indices finds the points in it;
\* without a path there are no indices.
PathLocatesPoints ==
  IsMatched =>
    IF cpath = <<>> THEN indices = <<>> ELSE Connected(cpath) /\ IndicesLocatePoints
=============================================================================
