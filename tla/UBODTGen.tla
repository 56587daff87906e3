------------------------------ MODULE UBODTGen ------------------------------
(***************************************************************************)
(* Generation and use of the upper-bounded origin-destination table        *)
(* (UBODT): precompute_ubodt_single_thead and precompute_ubodt_omp run the *)
(* bounded search from every node and write_result_csv turns its two maps  *)
(* into rows (mm/fmm/ubodt_gen_algorithm.cpp); look_sp_path later stitches *)
(* a path together from rows of DIFFERENT searches (mm/fmm/ubodt.cpp),     *)
(* which is where the searches have to agree with one another.             *)
(*                                                                         *)
(* The threads of precompute_ubodt_omp share the network, which nobody     *)
(* changes, and the stream, to which a critical section writes the rows of *)
(* one source together.  Whatever they do at the same time, the file is    *)
(* that of one search after the other, with the sources in any order.      *)
(*                                                                         *)
(* The table is the map from origin and destination to a row that          *)
(* UBODTTable shows the hash table of the code to implement.  Costs are    *)
(* small enough that the six digits the csv writer prints are exact.       *)
(***************************************************************************)
EXTENDS UpperboundDijkstra

CONSTANT SharedNetworks   \* networks that several threads generate, too

VARIABLES
  use_omp,  \* several threads share the sources out
  waiting,  \* the sources whose search has not begun
  table,    \* table[s][t] is the row from s to t, NoRow if there is none
  phase,    \* "generate", then "serve" once every source is written
  query     \* the look_sp_path call in progress, or the last one

genVars == <<vars, use_omp, waiting, table, phase, query>>

NoRow == [first_n |-> Absent, prev_n |-> Absent, next_e |-> Absent, cost |-> Absent]
EmptyTable == [s \in Node |-> [t \in Node |-> NoRow]]
NoQuery == [from |-> 0, to |-> 0, at |-> 0, edges |-> <<>>, state |-> "idle"]

Least(sources) == CHOOSE s \in sources : \A u \in sources : s <= u

\* The loop over the sources, shared out among threads or not.
NextSources(sources) == IF use_omp THEN sources ELSE {Least(sources)}

GenInit ==
  /\ Init
  /\ use_omp \in BOOLEAN
  /\ use_omp => graph \in SharedNetworks
  /\ source \in NextSources(Node)
  /\ waiting = Node \ {source}
  /\ table = EmptyTable
  /\ phase = "generate"
  /\ query = NoQuery

-----------------------------------------------------------------------------
\* The keys of pmap.
Known == {v \in Node : pmap[v] # Absent}

\* Fault seed: the row starts with the last hop instead of the first.
LastHop(t) == pmap[t]

\* Follow the predecessors of t until the next one is the source.
FirstHop(t) ==
  LET walk[v \in Known] == IF pmap[v] = source THEN v ELSE walk[pmap[v]]
  IN  walk[t]

\* Fault seed: the edge is looked up by the cost of the whole row.
RowByRowCost(t) ==
  [first_n |-> FirstHop(t), prev_n |-> pmap[t],
   next_e |-> GetEdgeIndex(graph, source, FirstHop(t), dmap[t]),
   cost |-> dmap[t]]

Row(t) ==
  [first_n |-> FirstHop(t), prev_n |-> pmap[t],
   next_e |-> GetEdgeIndex(graph, source, FirstHop(t), dmap[FirstHop(t)]),
   cost |-> dmap[t]]

\* write_result: one row for every key of pmap but the source.
Rows ==
  [t \in Node |-> IF t \in Known \ {source} THEN Row(t) ELSE NoRow]

\* Begin the search of the next source with fresh maps.
StartSearch(s) ==
  /\ source' = s
  /\ heap' = [Empty EXCEPT ![s] = 0]
  /\ dmap' = [Empty EXCEPT ![s] = 0]
  /\ pmap' = [Empty EXCEPT ![s] = s]
  /\ node' = [index |-> s, value |-> 0]
  /\ todo' = {}
  /\ pc' = "search"
  /\ waiting' = waiting \ {s}
  /\ UNCHANGED <<graph, delta>>

\* Fault seed: the loop over the sources stops one short.
AllButLastTaken == waiting \subseteq {NumNodes - 1}

AllTaken == waiting = {}

SearchStep ==
  /\ phase = "generate"
  /\ Search
  /\ UNCHANGED <<use_omp, waiting, table, phase, query>>

WriteSource ==
  /\ phase = "generate"
  /\ pc = "done"
  /\ table' = [table EXCEPT ![source] = Rows]
  /\ \/ AllTaken /\ phase' = "serve" /\ UNCHANGED <<vars, waiting>>
     \/ /\ ~ AllTaken
        /\ \E s \in NextSources(waiting) : StartSearch(s)
        /\ UNCHANGED phase
  /\ UNCHANGED <<use_omp, query>>

-----------------------------------------------------------------------------
LookUp(s, t) == table[s][t]

\* look_sp_path(s, t), up to its loop.
BeginQuery ==
  /\ phase = "serve"
  /\ query.state = "idle"
  /\ \E s, t \in Node :
       query' = [from |-> s, to |-> t, at |-> s, edges |-> <<>>,
                 state |-> IF s = t \/ LookUp(s, t) = NoRow
                           THEN "returned" ELSE "walking"]
  /\ UNCHANGED <<vars, use_omp, waiting, table, phase>>

MoveTo(r) == r.first_n

\* One turn of the loop, or the last push and the return.  The row of the
\* loop is dereferenced without a test: its absence is a crash, for good.
FollowRow ==
  /\ phase = "serve"
  /\ query.state \in {"walking", "crashed"}
  /\ LET r == LookUp(query.at, query.to) IN
     query' =
       IF r = NoRow THEN [query EXCEPT !.state = "crashed"]
       ELSE [query EXCEPT !.edges = Append(@, r.next_e), !.at = MoveTo(r),
                          !.state = IF MoveTo(r) = query.to
                                    THEN "returned" ELSE "walking"]
  /\ UNCHANGED <<vars, use_omp, waiting, table, phase>>

\* The path is with the caller, who may ask for another.
EndQuery ==
  /\ query.state = "returned"
  /\ query' = NoQuery
  /\ UNCHANGED <<vars, use_omp, waiting, table, phase>>

GenNext == SearchStep \/ WriteSource \/ BeginQuery \/ FollowRow \/ EndQuery

\* Generation runs to its end and a call of look_sp_path runs until it
\* returns; nobody has to make a call.
GenSpec ==
  /\ GenInit
  /\ [][GenNext]_genVars
  /\ WF_genVars(SearchStep \/ WriteSource)
  /\ WF_genVars(FollowRow)

-----------------------------------------------------------------------------
\* The file is closed and nobody has asked for a path yet: the rows are
\* those of any later state.
Closed == phase = "serve" /\ query = NoQuery

(***************************************************************************)
(* The rows of the closed file are exact and locally right, whatever the   *)
(* order of the sources: there is a row precisely for each node within the *)
(* bound, its cost is the shortest distance, it starts with an edge of the *)
(* graph from the origin to first_n, and ends with one from prev_n.        *)
(***************************************************************************)
RowIsExact(s, t, r) ==
  LET dist == DistanceFrom(graph, s) IN
  IF dist[t] = Unreachable \/ dist[t] > delta THEN r = NoRow
  ELSE /\ r.cost = dist[t]
       /\ r.next_e \in OutEdges(graph, s)
       /\ graph[r.next_e].target = r.first_n
       /\ \E i \in OutEdges(graph, r.prev_n) :
            graph[i].target = t /\ dist[r.prev_n] + graph[i].length = dist[t]

RowsAreExact ==
  Closed => \A s \in Node : \A t \in Node \ {s} : RowIsExact(s, t, table[s][t])

(***************************************************************************)
(* Rows of different origins fit together: after the first hop of a row    *)
(* there is a row for the rest of the way, and its cost is what is left.   *)
(* look_sp_path dereferences that row without testing it.                  *)
(***************************************************************************)
RowsAreClosed ==
  Closed =>
    \A s, t \in Node :
      LET r == table[s][t] IN
      r # NoRow /\ r.first_n # t =>
        /\ r.next_e \in EdgeIndex
        /\ table[r.first_n][t] # NoRow
        /\ table[r.first_n][t].cost = r.cost - graph[r.next_e].length

(***************************************************************************)
(* What look_sp_path returns is a path of the graph from origin to         *)
(* destination whose length is the cost of the row; it is empty only for   *)
(* equal nodes or a pair without a row.  The walk passes no node twice,    *)
(* edges of length zero included, so it is at most NumNodes - 1 rows long. *)
(***************************************************************************)
LeadsTo(p, u, v) ==
  /\ p # <<>>
  /\ \A k \in 1 .. Len(p) : p[k] \in EdgeIndex
  /\ graph[p[1]].source = u
  /\ graph[p[Len(p)]].target = v
  /\ \A k \in 1 .. Len(p) - 1 : graph[p[k]].target = graph[p[k + 1]].source

PathIsRight ==
  query.state = "returned" =>
    LET p == query.edges
        r == table[query.from][query.to] IN
    IF query.from = query.to \/ r = NoRow THEN p = <<>>
    ELSE LeadsTo(p, query.from, query.to) /\ PathLength(graph, p) = r.cost

NoNodeTwice == Len(query.edges) < NumNodes

ReturnsThePath == NoNodeTwice /\ PathIsRight

\* Every call of look_sp_path returns: it neither walks for ever nor
\* dereferences a missing row, which is the end of it.
QueriesReturn == (query.state = "walking") ~> (query.state = "returned")

(***************************************************************************)
(* What the invariant behind these properties has beside that of the       *)
(* search itself: an absent row is never dereferenced, the rows written so *)
(* far are right, and the walk of the call in progress adds up.            *)
(***************************************************************************)
RowType ==
  [first_n : Node \cup {Absent}, prev_n : Node \cup {Absent},
   next_e : EdgeIndex \cup {Absent}, cost : Nat \cup {Absent}]

GenTypeOK ==
  /\ waiting \subseteq Node \ {source}
  /\ table \in [Node -> [Node -> RowType]]
  /\ phase \in {"generate", "serve"}
  /\ phase = "serve" => waiting = {}
  /\ query \in [from : Node, to : Node, at : Node, edges : Seq(EdgeIndex),
                state : {"idle", "walking", "returned"}]

Written == IF phase = "serve" THEN Node ELSE Node \ (waiting \cup {source})

\* What is left after the first edge of a row is the distance from first_n.
RowFits(t, r) ==
  r # NoRow =>
    /\ graph[r.next_e].length <= r.cost
    /\ DistanceFrom(graph, r.first_n)[t] = r.cost - graph[r.next_e].length

RowsRight ==
  \A s \in Written, t \in Node :
    IF t = s THEN table[s][t] = NoRow
    ELSE RowIsExact(s, t, table[s][t]) /\ RowFits(t, table[s][t])

\* The walk stands where a row leads on to the destination, and what it has
\* gone and what is left add up.
WalkRight ==
  LET left(u) == table[u][query.to]
      p == query.edges IN
  /\ query.state # "idle" => phase = "serve"
  /\ query.state = "walking" =>
       /\ query.at # query.to
       /\ query.from # query.to
       /\ left(query.from) # NoRow
       /\ left(query.at) # NoRow
       /\ \/ p = <<>> /\ query.at = query.from
          \/ LeadsTo(p, query.from, query.at)
       /\ PathLength(graph, p) + left(query.at).cost = left(query.from).cost
=============================================================================
