# A TLA+ model of FMM

FMM (fast map matching) turns GPS trajectories into paths on a road network.
This directory holds TLA+ modules that model its algorithms and its parallel
batch loop, TLC configurations that check them on small instances, and theorems
about them that the TLAPS proof system checks. Source paths below are relative
to `src/src/` of the repository.

Run everything from this directory: `tlc -config X.cfg M` for the runs listed
below, `tlapm M_proofs.tla` for the proofs.

## 1. The system

| component | source | state it keeps | operations |
|---|---|---|---|
| road network | `network/network.cpp` | `edges`, `node_id_vec`, `node_map`, `edge_map`, `vertex_points`, `num_vertices`, `rtree` | `read_ogr_file`, `add_edge`, `build_rtree_index`, `search_tr_cs_knn`, `complete_path_to_geometry`, `route2geometry`, getters |
| line geometry | `algorithm/geom_algorithm.cpp` | none | `linear_referencing`, `closest_point_on_segment`, `cutoffseg`, `boundingbox_geometry`, `locate_point_by_offset`, interpolation, splitting |
| network graph | `network/network_graph.cpp`, `network/heap.hpp` | a boost adjacency list; per call a heap, a distance map and a predecessor map | `single_source_upperbound_dijkstra`, `shortest_path_dijkstra`, `shortest_path_astar`, `back_track`, `get_edge_index` |
| bidirectional graph | `network/bidirectional_network_graph.cpp` | the same with inverted indices; two fronts per call | `shortest_path_bidirectional_dijkstra`, `single_target_upperbound_dijkstra`, `search_edges_within_dist` |
| UBODT generation | `mm/fmm/ubodt_gen_algorithm.cpp` | the output file | `precompute_ubodt_single_thead`, `precompute_ubodt_omp`, `write_result_csv`, `write_result_binary` |
| UBODT | `mm/fmm/ubodt.cpp` | buckets of chained records, `num_rows`, `delta` | `read_ubodt_csv`, `read_ubodt_binary`, `insert`, `look_up`, `look_sp_path`, `construct_complete_path` |
| transition graph | `mm/transition_graph.cpp` | layers of candidates with `cumu_prob` and `prev` | construction, `reset_layer`, `update_layer` (in the matchers), `backtrack` |
| FMM | `mm/fmm/fmm_algorithm.cpp` | the locals of `match_traj` | `match_traj`, `match_wkt`, `get_sp_dist`, `update_tg`, `match_gps_file` |
| composite graph | `mm/composite_graph.cpp` | the dummy graph of one trajectory | construction, `out_edges` |
| STMATCH | `mm/stmatch/stmatch_algorithm.cpp` | the locals of `match_traj` | `match_traj`, `shortest_path_upperbound`, `build_cpath`, `match_gps_file` |
| H3MM | `mm/h3mm/` | the locals of `match_traj`, a writer of its own | `match_traj`, `hexpath`, `match_gps_file` |
| GPS readers | `io/gps_reader.cpp` | file cursor, `prev_line` | `has_next_trajectory`, `read_next_trajectory`, `read_next_N_trajectories`, `reset_cursor`, `close` |
| result writer | `io/mm_writer.cpp` | an output stream | `write_result` |
| applications, configuration | `mm/*/*_app*.cpp`, `config/`, `app/` | option values | parse, validate, `run` |
| bindings, utilities, core types | `python/`, `util/`, `core/` | none | conversions |

How they interact. `Network` reads the roads and numbers nodes and edges;
`NetworkGraph` is built from its edges. `UBODTGenAlgorithm` runs the bounded
search from every node and writes one row per reached node. `UBODT` reads these
rows into a hash table. `FastMapMatch::match_traj` asks `Network` for candidates
of every point, builds a `TransitionGraph`, scores transitions with the UBODT,
backtracks, and completes the path with the UBODT. `STMATCH` does the same
without a table: it searches a `CompositeGraph` laid over the road graph, and
`NetworkGraph` for the completion. `match_gps_file` (and the `run` of the
applications) reads batches of trajectories from a reader, shares each batch out among
OpenMP threads and writes every result through one `CSVMatchResultWriter`; without
`use_omp`, which the library sets unless told otherwise, a batch is one trajectory.
The network, graph and table are read-only while matching; the threads share the
writer's stream and the counters.

What is hard:

* the searches: ties, edges of length zero, parallel edges and loops, the exact
  bound, and `decrease_key`, which may be called only for a queued node;
* rows written from different searches have to fit together, because
  `look_sp_path` follows them without a test;
* the matchers compute the same distance twice in different ways (table or
  composite graph against the completed path) and disagree if the two differ;
* the parallel loop with its single unnamed lock, its barrier and its
  unsynchronised counters;
* the read-ahead of the point reader against the end of file and a reset;
* a job fails at many places, before and after it has emptied its result file;
* an option has two names, two loaders and two defaults, and a row two lists of
  columns;
* indices: candidates are numbered after the nodes, points are located in the
  path by indices, nodes are numbered by first mention.

What makes each component correct is stated by the properties of section 4.
`PROJECT.json` lists the hazards with their source lines, and the properties
aimed at each.

## 2. Modules

| module | models |
|---|---|
| `RoadGraph` | the graph of `NetworkGraph`, numbering of nodes, `get_edge_index`, routes, and a reference distance (Bellman-Ford) |
| `UpperboundDijkstra` | `single_source_upperbound_dijkstra`, one action per turn of a loop |
| `UBODTGen` | extends it: `precompute_ubodt_single_thead`, `precompute_ubodt_omp`, `write_result_csv`, then calls of `look_sp_path` over the rows |
| `OriginDestinationMap` | abstract specification: a map from an origin and a destination to the row put last |
| `UBODTTable` | the hash table and its reader, an implementation of that map |
| `TransitionGraph` | layers, `update_layer`, `backtrack`; the distances are a parameter |
| `FastMapMatch` | extends `RoadGraph` and `TransitionGraph`: `match_traj`, `get_sp_dist`, `construct_complete_path` |
| `CompositeGraph` | the composite graph as operators of a trajectory's candidates |
| `StMatch` | extends `FastMapMatch`, instantiates `CompositeGraph`: the bounded searches of STMATCH and its completion |
| `PathSearch` | `shortest_path_dijkstra`, `shortest_path_astar`, `shortest_path_bidirectional_dijkstra` with their path tracking, `single_target_upperbound_dijkstra`, `search_edges_within_dist_ft_edge` |
| `TrajectoryRuns` | abstract specification: a reader returns the runs of rows with one id, in order, to the end |
| `PointReader` | `CSVPointReader` with its read-ahead and reset; implements `TrajectoryRuns` where the code does |
| `ParallelMatch` | the batch loop with its threads, lock, barrier, writer and counters |
| `JobConfig` | the options of `fmm`, `stmatch`, `h3mm` and `ubodt_gen`: XML and argument loaders, defaults, validation |
| `ResultRow` | the headers and rows of both writers: which columns, in which order, taken from what |
| `HexMatch` | `match_traj` of H3MM and `hexpath`, over any grid |
| `MatchJob` | extends the three and `PointReader`: a job from its options to its result file, with the three trajectory readers |
| `LineGeometry` | linear referencing, cutting, bounding boxes on a unit grid |
| `RoadNetwork` | extends it: reading and extending the network, candidate search, geometry of a path |
| `LeastNumber` | least elements of sets of naturals, induction and recursion over `0 .. n`, for the proofs |
| `RoadGraph_proofs` | routes and the reference distance |
| `UBODTGen_proofs` | theorems about `UpperboundDijkstra` and `UBODTGen` |
| `Matchers_proofs` | theorems about `TransitionGraph`, `FastMapMatch` and `StMatch` |
| `Stores_proofs` | theorems about `UBODTTable`, `LineGeometry` and `RoadNetwork` |
| other `*_proofs` | theorems and proofs about the module they are named after |
| `MC*` | values of the constants for TLC |

Composition: `UBODTGen` takes every step of `UpperboundDijkstra`;
`FastMapMatch` drives `TransitionGraph` (its `Construct`, `UpdateLayer`,
`Backtrack` and `TrackBack` are conjuncts of the matcher's actions); `StMatch`
drives both and the composite graph. `FastMapMatch` uses the table as the
function `UBODTGen` shows it to be, which is the map `UBODTTable` shows the hash
table to implement. `MatchJob` takes the steps of `PointReader` for files of
points, writes results that `FastMapMatch` and `StMatch` allow, and goes through the
file batch by batch; `ParallelMatch` has what the threads of a batch do to each other.
The candidates of the matchers are any of a set given to them; what the real candidates
are is the subject of `RoadNetwork`.

### State and code

* `UpperboundDijkstra`: `heap`, `dmap` and `pmap` are the local heap and maps, as
  functions with `Absent` where the map has no key. `todo` is the rest of the
  inner loop. The heap is ordered as `HeapNode::operator<`.
* `UBODTGen`: `waiting` holds the sources whose search has not begun, `table`
  collects the rows of the file, `query` the locals of `look_sp_path`. A dereference of a missing row is the state `"crashed"`.
* `UBODTTable`: `hashtable[h]` is the chain of bucket `h`, head first. One
  `Insert` is one row parsed and linked. The size of the file goes through an
  `int` of `IntRange` values.
* `TransitionGraph`: a probability is its cost `-log p`, a natural number or
  `Impossible`; `cumu_prob` holds sums, `prev` the predecessor's number or 0.
* `FastMapMatch`: `stage` and `pc` are where `match_traj` is; `cpath` and
  `indices` are the results. `CalcTp` keeps what the code's quotient does to the
  order: 0 for a probability of 1, `Impossible` for 0, growing with the detour.
* `StMatch`: `search` holds the locals of `shortest_path_upperbound`, `rows` the
  distances from the candidates searched so far. A target not reached is at
  `DBL_MAX`, whose probability is tiny but positive: the cost `Remote`.
* `PathSearch`: a front is a heap, distances and predecessors; `forward` and
  `prev_node` are the variables of the bidirectional search.
* `PointReader`: a row stands for its number; `prev_line` is 0 for the empty
  string; `call` holds the locals of `read_next_trajectory`.
* `ParallelMatch`: `pc[t]` names the statement a thread is at. A row is written
  in two halves and an increment is a read and a store, so that interleavings
  of either are seen.
* `JobConfig`: a document (XML file, argument list or the objects a caller of the
  library builds) is a function from the options it sets to values.
* `ResultRow`: a cell is the attribute it shows and the positions it takes it
  from: points, edges of the complete path, or timestamps.
* `HexMatch`: cells stand for the points in them; `H3Line` is the library's line
  between two cells, which may be missing or broken off (a zero).
* `MatchJob`: `stage` is where the main or `match_gps_file` is, `config` the
  object the loaders build, `row` the line a reader of trajectories is at,
  `trajectories` the vector that `read_next_N_trajectories` fills, `waiting` the
  trajectories of it without a row yet, `opened` and `output` the result file. `order`
  is history: which trajectory each row is of. `Fetch` is how many are read at once, one
  without `use_omp`. A program that dies with lines in its stream's buffer keeps some of
  them; a vector being filled when a row does not parse is gone.
* `RoadNetwork`: the containers of `Network`, one `ReadFeature` per feature.
  `moved` says that `push_back` moved the edges that the rtree points to.

## 3. Abstractions

* Lengths, offsets and costs are small integers. The code compares a length with
  a difference of two distances up to 1e-6; here the comparison is an equality,
  which is what it comes to when lengths are far above the tolerance.
* The threads of `precompute_ubodt_omp` share the network, which nobody changes, and
  the stream, locked for the rows of a source. In `UBODTGen` they come to one search
  after the other with the sources in any order. Their counter of progress messages
  is left out.
* Parallel dummy edges of one length are one arc in `CompositeGraph`.
* A point has one candidate at most on an edge (`OneCandidateAnEdge` of `StMatch`):
  `search_tr_cs_knn` makes one of each item of the spatial index, which holds every
  edge once.
* In `PathSearch` and `StMatch` one turn of the outer loop, with all its out
  edges, is one step; in `UpperboundDijkstra` every edge is a step.
* Nodes of `PathSearch` lie on a line and lines of `LineGeometry` run parallel to
  the axes, so that all distances are whole.
* `eu_dists` are any of a set given, not computed from points.
* Logging, timing, parsing of numbers and formatting of columns are left out.
* The two batch loops of `match_gps_file` (with and without OpenMP) are one in
  `ParallelMatch`, whose reading does not fail: the sequential one is a batch of one
  taken by one thread. They are one in `MatchJob` as well, where reading may fail:
  matching a trajectory of the batch and writing its row is one step there, of any
  trajectory that waits, as threads share nothing but what `ParallelMatch` shows.
* A file is its folder, its extension and whether it exists; a trajectory its id
  and its numbers of points and timestamps. A row that does not parse is one
  chosen by the job, and which text does not parse is left open.
* What `fmm` and `stmatch` find in `MatchJob` is any result the matchers' modules
  allow: unmatched, without a complete path, or located in it.

## 4. Runs

`dijkstra` (`MCUpperboundDijkstra`). Every graph of 4 edges over 3 nodes with
lengths 0 and 1, numbered as the reader numbers nodes, from every source, with a
negative and a positive bound. `IInv` is the inductive invariant of the proofs.
`ExactWhenDone` compares the result with the reference distance,
`NoPredecessorCycle` says that the first-hop loop of the table writer ends,
`LoweredOnlyWhileQueued` that `decrease_key` has a handle, `Terminates` that the
search returns. Three nodes give paths of two hops, cycles, loops and parallel
edges, each combined with zero lengths.

`ubodt_generation` (`MCUBODTGen`). The same graphs; all sources in turn, or in any
order for the third of the graphs whose first and last edge leave one node (the
order multiplies the states by four, and the rows do not depend on which graph it
is); then any calls of `look_sp_path`. `RowsAreExact` and `RowsAreClosed` say that
the rows of the closed file are right and that those of different searches fit
together; `QueriesReturn` and `ReturnsThePath` that following them without a test
is safe, ends, and yields a path as long as the row says, through no node twice.

`ubodt_table` (`MCUBODTTable`). Every file of up to 4 rows over 2 nodes, with a
ladder of table sizes 1, 2, 3: pairs repeat and collide, and the size of the file
passes the scaled-down range of an `int` (a negative estimate picks the smallest
table). `ImplementsMap` is refinement of `OriginDestinationMap`.

`fmm_match` (`MCFastMapMatch`). Trajectories of up to 3 points with up to 2
candidates on two networks. `FMMInv` is the inductive invariant of the proofs:
it holds that `backtrack` finds one candidate of every point and that the path
is connected. `MostLikely` is about `backtrack`; `IndicesLocatePoints` about the
completed path (that a matched trajectory always has one is proved);
`ScoredAsDriven` says that the distance used for scoring is the distance driven
on the completed path, the lengths of its edges added up. The
points include some without candidates, impossible ones, movements back within,
at and beyond the tolerance, and pairs the table has no way between.

`stmatch` (`MCStMatch`). The same for STMATCH. `DistancesAgree` says that the
search of the composite graph finds the distance `get_sp_dist` defines, cut at
the bound, and never lowers the key of a node it has taken (`TakenStays`);
`GivesUpOnlyBeyondBound` that `build_cpath` gives up only if no choice of
candidates is likelier than a transition that was not found; `PathLocatesPoints` that
a returned path is connected and located. `StInv` is the inductive invariant of the
proofs. Durations include a negative one, and the bounds are too small for some ways.

`path_search` (`MCPathSearch`). Five searches on three networks of 4 nodes and 5
edges (`Diamond` has two ways and an edge across, `Junction` a loop, a cycle and a
node nothing leads to, `Street` parallel edges and a road of two directions),
lengths 0 and 2 or 1 and 3, three placements of the nodes, and bounds 1 and 3. `ShortestFound` is about Dijkstra, about A* where no edge is shorter than
the straight distance, and about the edges looked up for every path (`EdgesJoin`);
`WithinDistance` about `single_target_upperbound_dijkstra` and
`search_edges_within_dist`, against the edges of the definition;
`LoweredWhileQueued` about `decrease_key` in all of them; `Terminates` is checked
without a condition on the heuristic, for nodes pushed again too.

`bidirectional_differs`. The repository's test requires the path of the
bidirectional search to be Dijkstra's (`test/network_graph_test.cpp:47-50`).
`BidirectionalAgrees` is violated: see section 7.

`match_job` (`MCMatchJob`). Jobs of `fmm`, `stmatch`, `h3mm` and `ubodt_gen`, and calls
of the library, from options to the result file, in seven families: each option set,
left out, wrong and malformed in turn (`OptionJobs`); headers that have, lack and
repeat the columns asked for (`HeaderJobs`); every request of up to two output
fields, and all, for trajectories of up to 3 points with up to 4 timestamps
(`FieldJobs`); a row that does not parse in any place, in files of four trajectories
(`BadJobs`) and of up to five points (`PointJobs`), both with `use_omp` and without;
trajectories of up to 4 points on a grid
with a cell cut off and a line that the library gives up on (`HexJobs`); and files of
up to 6 points with ids that ascend, read with up to 2 resets (`ReaderJobs`; six rows
hold three trajectories of two rows, and ones of one row at the start, inside and at
the end). The families vary one thing at a time because options and rows meet only
where a property relates them. `Buffer`, 100000 in the code, is 2: with three and four
trajectories there is a batch before the one that fails, a trajectory read in that one,
and a batch that is not full.

* `SameConfig`: XML and arguments give one configuration (the default of `vmax` and
  the options of `h3mm`, which has no XML, excepted).
* `ResultAccounts`: an existing result file is emptied only for a job whose options
  are accepted and whose inputs can be read. Each row is of another trajectory read,
  under its id; the rows of a batch stand together, in any order, and without `use_omp`
  all rows are in the order read. A job that is done has a row for every trajectory. When
  a row does not parse, a caller of the library keeps the rows of the whole batches read
  before: every trajectory read without `use_omp`, while with it those read in the same
  batch (up to `Buffer - 1`) are lost.
* `RowFitsHeader`: rows have the columns of the header, whose entries fit together.
* `HexesJoin`: hexagons pass the points in order and, interpolated, are neighbours.
* `RowsInOrder` (rows come in the order of the file and only a last row is lost,
  `OnlyLastRowLost`) and `RunsAreWhole` (each trajectory is a whole run of rows under its
  id) state what the point reader does with every file; `ImplementsRuns` is refinement of
  `TrajectoryRuns`, liveness included, for the files whose last trajectory has more
  than one row and a caller who does not reset.

`point_reader_lost_row`. `gps_reader.hpp:37` says what `has_next_trajectory`
promises; `AllRowsReturned` is violated.

`parallel_match` (`MCParallelMatch`). Three threads, four trajectories and
batches of three (the second not full), and the sequential loop.
`OneRowEach` is about the output, `CountsBounded` about the counters (the matched
exact, the total within bounds), `Terminates` about the lock and the barrier. Three threads are the least in which two can store stale
totals while a third is inside the lock.

`parallel_totals`. Two threads, two trajectories: `TotalCounted` is violated.

`road_network` (`MCRoadNetwork`). Networks of one to three of five roads (bent,
closed, with an id used twice, all negative) in any order, another road added
later, trajectories of up to 2 points. `NearestChosen` says that the candidates
are the k nearest edges, at the offsets of their closest points; `CandidatesNumbered` that indices count on and differ from node indices;
`GeometryRunsAlong` that the geometry of a path has no gap and the right length.

`CHECK_DEADLOCK FALSE` stands only where the program ends (`MatchJob`, `PointReader`,
`ParallelMatch`); the other modules have a step for the returned state.

### Fairness

* `UpperboundDijkstra`, `PathSearch`: weak fairness of the search, which is
  straight-line code of one thread.
* `UBODTGen`: of generation, and of a call of `look_sp_path` that has begun.
  Nobody has to make a call.
* `MatchJob`: of `JobStep`, straight-line code from the options to the end, each loop of
  which is over a finite file. Of the threads of a batch, some one goes on, which is less
  than what `ParallelMatch` assumes. `Rewind` is the caller's choice and
  not fair.
* `PointReader`: of `Read`, the loop of a caller who reads while there is a next
  trajectory. Resets are not fair.
* `ParallelMatch`: of every thread's step and of `ReadBatch`. The operating system
  runs every thread. A thread waiting for the lock needs more only if others
  take it for ever, and the iterations are finitely many.

## 5. Proofs

All theorems hold for every value of the constants that meets the named
assumptions; the proofs use no others.

* `RoadGraph_proofs` (`GraphAssumption`). `DistanceIsLeast`: the reference distance
  of the runs, a recursive function, is the length of a shortest route and
  `Unreachable` where there is none. A recursive function over `0 .. n` exists
  (`RecursionExists` of `LeastNumber`, by least numbers), so its equations can be
  used; what it computes after `k` rounds is the least length of a route of at most
  `k` edges (`RoundsAreRoutes`, `RoundsCoverRoutes`); and a route of `NumNodes` edges
  or more passes a node twice and has a shorter one within it (`RouteWithoutLoop`).
* `UBODTGen_proofs` (also `DeltasAssumption`), about `UpperboundDijkstra` first.
  `Invariance` proves `IInv`. None of the properties is inductive alone: that
  the maps agree (`MapsAgree`), that settled nodes lie before and queued nodes
  behind the node being expanded (`FrontierOrdered`), that edges out of settled
  nodes are relaxed but those in `todo` (`SettledRelaxed`), and that every known
  node hangs from a settled predecessor by an edge of the right length
  (`PredecessorsTight`) need one another. `DecreaseKeySafe`, `PopOrder`
  and `EdgeLookupsSucceed` follow. `FirstHopWalkEnds` is an induction of its own on
  top of `IInv`: a node takes a new predecessor only while it is unsettled, and
  predecessors are settled, so the new pair closes no cycle.
  `DistancesAreLengths` and `ShortestDistances` say that each distance is the length
  of a route and that no route within the bound is shorter; with `DistanceIsLeast`
  they give `SearchIsExact`.
* The rest of `UBODTGen_proofs` is about the table. The first-hop loop is defined on
  all known nodes, as no set of them is closed under predecessors (`WalkExists`), and
  what it finds starts a route to the node whose rest is as long as the distances tell
  (`FirstHopIsHop`). So the rows of one search are exact, and what is left after
  their first edge is the distance from its end (`RowsWritten`). The invariant says
  so of all rows written so far (`RowsRight`), which makes the row of another search
  for the rest of the way exist and fit (`RowLeadsOn`), and adds the walk of the call
  in progress (`WalkRight`). `RowsExact`, `RowsClosed`, `PathRight` and
  `NeverDereferencesNothing` follow. `ReturnsShortPath` has the hypothesis that no
  length is zero: then what is left drops with every edge, so no node comes twice.
  With lengths of zero that no node comes twice depends on how ties are broken
  in different searches; this `ubodt_generation` checks (`NoNodeTwice`).
* `PathSearch_proofs` (`SearchAssumption`), on the graph and on its reverse. What the heap
  of a front holds and what it has settled are known by routes (`FrontsRight`), settled
  nodes lie before queued ones, and where the heuristic is consistent the edges of
  settled nodes are relaxed. `Covered` follows: every route either ends in a settled
  node or passes a queued one, so the node on top is settled exactly
  (`ExactAtTop`). For the walk back there is an induction of its own (`PathInv`): the edge
  chosen at each node is a shortest of those to its predecessor, and what is left of
  the distance drops to zero with it. `SearchTypes`, `LowersOnlyQueued`, `ReturnsShortest`
  and `FindsWithin` follow. Of the bidirectional search, which does not find shortest
  paths (`bidirectional_differs`), `ReturnsShortest` says that the edges returned join.
* `Stores_proofs` (`TableAssumption`), on `UBODTTable`. `Invariance` (each record is in the
  chain its pair hashes to) gives `TableImplementsMap`: construction maps to a
  stutter, each row to one `Put`, whatever chain it is linked into.
* `Matchers_proofs` (`TransitionAssumption`), on `TransitionGraph`. `TGInvariance`, `WholePath`
  and `MostLikelyPath`. The invariant says what the forward pass has settled per
  layer (each cost is the cost by way of the predecessor, no other is likelier)
  and that `opath` is a chain of predecessors. Optimality is by comparing any
  choice with the accumulated costs, layer by layer.
* `Matchers_proofs` on `FastMapMatch` (also `MatchAssumption`, `UbodtAssumption`).
  `MatchInvariance` extends that invariant with the scores (`Scored`) and the
  path so far. From it: a matched trajectory is completed (`MatchCompletes`: a
  transition of positive probability has a way in the table), the path is
  connected, and `indices` locates every point. The path so far also remembers of
  each pair of points whether it stays on their edge or takes the way of the table
  (`Follows`); with the lengths of those ways `MatchDriven` follows, that what is
  scored is what is driven. `UbodtAssumption`, that rows lead from their origin to
  their destination over paths as long as their costs, is what `PathRight` and
  `RowsExact` prove of `UBODTGen`.
* `ParallelMatch_proofs` (`ParallelAssumption`). The inductive invariant
  `ParallelInv` follows each trajectory by the statement its thread is at: fetched,
  waiting, held by one thread, written by half, written, counted. The matched are
  counted by the cardinality of those past the count (`Past`), which the lock keeps
  exact; the total is bounded from both sides through the values threads have loaded
  and not stored (`Stored`). `OneRowPerTrajectory` and `CountsWithinBounds` follow,
  for any number of threads, trajectories and batch size.
* `MatchJob_proofs` (`ReaderAssumption`, `JobAssumption`, `GridAssumption`), first on
  `PointReader` as `MatchJob` drives it. `ReaderInv` has what a call may hold at
  each of its statements, that rows go on from one trajectory to the next where nobody
  resets (`GoesOn`), and the trajectories returned; `WholeRuns` follows. `TakenInv`
  counts: the rows taken so far, with the one read ahead, count up from the first row
  of the file, from the second place on after a reset that kept one; `RowsTakenInOrder`
  follows. `ReadsPromisedRuns`: on a promised file every step of the reader is a step of
  `TrajectoryRuns` or a stutter. This is the safety part of `ImplementsRuns`.
* `MatchJob_proofs` on the job. `JobInv` adds to `ReaderInv` what a stage has passed
  (`ControlInv`, `AcceptedInv`: once a file is open, the options were accepted and the
  header fits), that the batch is what the readers delivered last (`RowsInv`), which
  trajectories were matched (`OrderInv`), and that the lines of an open file are the
  header and a row made of each trajectory matched, in that order, or of the first of
  them where a program died (`OutputInv`). `OrderInv` is about numbers: no trajectory is
  matched twice, the n-th row is of the batch of the n-th trajectory, and while a batch is
  read all before it have been matched, whole batches as long as there is more to read;
  `Ordered`, `Whole` and `Shared` say so with a batch of any size, and what a division
  rounds to (`DivisionBounds`, `OneBatch`) is all the arithmetic it takes. `Accounts` and
  `JobTypes` follow. `RowsFit` then needs only what a row made of a trajectory is: the fields asked
  for by two lists of one order, entries by their lengths, and the paths between the
  points joined by induction on the points. `HexagonsJoin` is an induction on the points
  too (`HexRun`), with a line of the grid at each step. `ConfigsAgree` compares the loaders
  option by option, for any options the parser accepts.
* `Matchers_proofs` on `StMatch` (also `StMatchAssumption`, `OneCandidateAnEdge`).
  `StInv` extends the graph's invariant by what each search knows and what was made of
  it. Candidates lie on their edges, so no arc of the composite graph is negative
  (`ArcCosts`), and what a search has taken is no farther than what its heap holds
  (`TakenFirst`): a node taken never gets a smaller distance (`StNeverLowers`), the ties
  over dummy edges of length zero included. A composite graph has nodes of two kinds, so
  a distance known is a way by road to a node or to a candidate (`Reaches`), each arc
  taking a way of one kind to one of the other (the road from the end of an edge, the part
  of an edge up to a candidate, the part between two); and the arcs of the nodes taken are
  relaxed up to the bound (`ArcsRelaxed`), so that a way by road is followed from one
  road node to the next until the search has it or its rest lies beyond the bound
  (`SearchKnown`). Both together: the row of a search is the distance of FMM cut at the
  bound (`FoundExactly`, `RowsExact`), which is `StDistances`. The transitions are made of
  these rows (`SearchesScored`). Where `build_cpath` gives up, one of the transitions of
  the path was not found (`GaveUp`), its cost is that of `DBL_MAX`, and as the path is a
  most likely one (`StMostLikely`), no choice is likelier than that: `StGivesUp`.
  `StPathLocates`: `build_cpath` returns nothing, or a connected path that `indices`
  locates every point in.
* `Stores_proofs` (`NetworkAssumption`), on `RoadNetwork`, for any files, any later roads
  and any axis-parallel lines. First the geometry. A segment runs in one of four
  directions, and in terms of how far a point lies along it and beside it the cut-off
  projection is its closest point (`ClosestOn`); over the segments of a line, lengths
  adding up, `linear_referencing` finds the first of the closest points (`Referenced`),
  and the bounding box of a line holds all of it (`BoxHoldsLine`): the greatest
  coordinate is sought among positive numbers only, which makes a box too large and
  never too small. `NetworkInv` is the agreement of the containers, that the R-tree has
  the edges as they were when it was built (`Indexed`), that each row of candidates is
  one that `partial_sort_copy` may leave (`Searching`), and what `next_index` is between
  two points (`Numbering`, without which `CandidatesNumbered` is not inductive).
  `NetworkTypes` and `NumberedApart` follow; `NearestFound` does with `WithinIsNear` (an edge
  within the radius has a box that meets the square) and `NearestOfPoint` (what is cut off
  at k is farther, ties by index).
* `Stores_proofs` on the geometry of a path. `GeometryGiven`, which says that a geometry was
  drawn from the edges there are, is an invariant beside `NetworkInv`. What it draws is
  followed by `RunsTo`: a line runs from one point to another over a length. Cutting is
  by induction on the segments (`CutUpTo`: as far as the first `i` segments the piece runs
  from the first offset to where they or the second offset end; the two offsets may be at
  vertices, on one segment or at the ends); joining lines that meet adds their lengths (`RunsJoin`), and
  roads join by induction on the path (`ThroughRuns`). `GeometryAlong` follows.
* `LeastNumber` holds the lemma about least numbers, and that functions defined by
  recursion over `0 .. n` exist, have their values where the steps do, and can be
  reasoned about by induction up to `n`.

Model-checked only:

* all liveness, that of `ImplementsRuns` included: it rests on fairness, whose
  `ENABLED` the prover does not handle;
* `NoNodeTwice` with lengths of zero: it depends on which of several predecessors at
  the same distance each search keeps.

## 6. Not modelled

* `network/rtree.cpp`, which nothing in the library uses, and `third_party/`.
* `core/geometry.hpp`, `core/gps.hpp`: wrappers over boost::geometry and conversions of
  formats, without a state or a decision.
* `python/`: copies of results to plain records, and generated glue.
* Of `util/`, timing and printing; its tests of files and names are in `JobConfig`.
* Of `network/network.cpp`, `route2geometry` and the getters; of
  `algorithm/geom_algorithm.cpp`, interpolation and splitting, which no matcher uses.
* The values of numbers read from text (`sscanf` on malformed rows of a table, `stof`
  and its rounding), the boost archive of the binary table, the digits and
  separators of results, the polygons of `hexs2wkt`, messages and help.

## 7. What the work showed

Findings, each with a run:

* `io/gps_reader.cpp:316`: the last row of a point file is lost if it is the only
  one of its trajectory.
* `mm/fmm/fmm_algorithm.cpp:214`: `#pragma omp critical` covers one statement;
  the totals after it are updated by all threads without it.
* `network/bidirectional_network_graph.cpp:49`: the bidirectional search may
  return a path to another node when there is none, and one that is not
  shortest.

Observations without a run of their own:

* `mm/fmm/fmm_algorithm.cpp:260` uses `<` and `mm/fmm/ubodt.cpp:93` uses `>`: a
  reverse movement of exactly the tolerance is scored as a way around and driven
  as standing still. `mm/composite_graph.cpp:31` and
  `mm/stmatch/stmatch_algorithm.cpp:405` differ alike. `ScoredAsDriven` leaves
  that case out by name (`AtTolerance`).
* `mm/fmm/ubodt.cpp:153`: the size of a file of 2^31 bytes or more wraps around;
  the table then gets fewer buckets, which costs time and no rows.
* `mm/fmm/fmm_algorithm.cpp:91`: an unmatched trajectory has the result id 0.
* `io/gps_reader.cpp:309`: a trajectory returned before a last row that will be
  lost has the id of that row.
* `io/gps_reader.cpp:319`: a reset keeps the row read ahead, which then comes
  first.
* `network/network.cpp:43`: `add_edge` updates neither `num_vertices` nor the
  spatial index, and may move the edges the index points to. Candidates can then
  have the numbers of nodes.
* `network/network.cpp:141`: a feature of an unknown geometry type is logged and kept
  with an empty line, whose first and last points are then read. Features are modelled
  with a line.
* `network/network.cpp:164`: of edges with one id the path geometry uses the
  first.
* `config/`, `mm/stmatch/stmatch_algorithm.cpp`: the default of `vmax` is 80 in XML and 30
  as an argument; of `h3level` 9 in the constructor and 15 as an argument. A malformed
  value throws as an argument and is silently the default in XML.
* `mm/fmm/fmm_app_config.cpp:103`: `print` takes the name of the log level before
  `validate` looks at it, and validation lets 7 pass; the library calls of STMATCH and
  H3MM validate no log level.
* `mm/h3mm/h3mm.hpp:174`: `match_gps_file` does not look at the name of the output: a
  file that cannot be opened costs the results and no message. An empty
  `--output` passes for `fmm`, `stmatch` and `ubodt_gen` alike.
* `mm/fmm/fmm_app.cpp:18`: an exception in the middle of a file ends the program
  without its buffered rows; a caller of the library keeps them. With `use_omp`, the
  default there (`mm/fmm/fmm_algorithm.hpp:126`), the exception leaves
  `read_next_N_trajectories` (`io/gps_reader.cpp:22`), and neither gets rows for the
  trajectories read before it in the same batch, of up to 100000.
* `mm/fmm/ubodt_gen_app.cpp`: a name that does not end in `bin` gets the csv format,
  whatever its extension; `read_ubodt_file` takes only `bin`, `csv` and `txt`.
* `mm/h3mm/h3_util.hpp:68`: errors of `h3Line` are not looked at, and the zeros it
  leaves are written.
* `io/gps_reader.cpp:331`: timestamps in column 0 are taken for none. Line 290: `stof`
  rounds seconds since 1970 to multiples of 128.
* `io/mm_writer.cpp:174`: a trajectory with more timestamps than points makes the
  speeds read past the candidates.
* `network/bidirectional_network_graph.cpp:234`: of parallel edges only the shortest
  is reported before the edge asked for.
* `io/mm_writer.cpp`: a trajectory of one point has an empty `tpath`.
* `algorithm/geom_algorithm.cpp:157`: boxes of lines with negative coordinates
  are too large, which `NearestChosen` shows to be harmless.
* `algorithm/geom_algorithm.cpp:363`: a path of one edge driven backwards is cut
  to a line that runs backwards, or to nothing, depending on the number of
  points; a segment of length zero divides zero by zero.

## 8. Plan

Done: the searches, both generators, the table, both matchers over candidates and
H3MM over any grid, the readers, the writers, the options, the jobs, the batch loop and
the network store; proofs for all searches, table generation, the table, the transition
graph, both matchers, the readers and the job around them, the batch loop and the
network store.

Left: `route2geometry` and the interpolation of lines.
