------------------------------ MODULE MatchJob ------------------------------
(***************************************************************************)
(* One job from its options to its result file: the mains of fmm, stmatch, *)
(* h3mm and ubodt_gen, the match_gps_file functions of the library, the    *)
(* three trajectory readers and the result file.  JobConfig says what the  *)
(* options mean, ResultRow what a row shows, HexMatch what h3mm finds;     *)
(* what fmm and stmatch find is any result FastMapMatch and StMatch allow, *)
(* and PointReader reads the files of points.                              *)
(*                                                                         *)
(* With use_omp a batch of trajectories is read before any of them is      *)
(* matched, and their rows come in any order; without it a batch is one.   *)
(* What the threads of a batch do to each other is ParallelMatch's.  A row *)
(* that fails to parse is chosen by the job.                               *)
(***************************************************************************)
EXTENDS FiniteSets, PointReader, JobConfig, ResultRow, HexMatch

CONSTANTS
  Jobs,       \* the jobs considered
  Buffer,     \* buffer_trajectories_size
  MaxEdges    \* edges of a complete path (bound of the model)

\* The library generates no table, and h3mm reads no XML.
ASSUME JobAssumption ==
  /\ MaxEdges \in Nat /\ Buffer \in Nat \ {0}
  /\ \A j \in Jobs :
       /\ j.program \in {"fmm", "stmatch", "h3mm", "ubodt_gen", "reader"}
       /\ j.source \in {"xml", "arg", "library"}
       /\ j.program = "ubodt_gen" => j.source # "library"
       /\ j.program = "h3mm" => j.source # "xml"
       /\ j.header \in Seq(STRING)
       /\ j.trajs \in Seq([id : Nat, points : Seq(Cells), stamps : Nat])
       /\ j.places \in Seq(Cells) /\ Len(j.places) = Len(j.ids)

VARIABLES
  job,           \* what is asked for, and the files as they are found
  stage,
  config,        \* the configuration object
  timestamp_idx, \* the column of the timestamps in the header, from 0
  row,           \* the trajectory or feature a reader of those delivers next
  trajectories,  \* the batch being read or matched
  waiting,       \* the trajectories of it that have no row yet
  opened,        \* the result file was opened for writing, and so emptied
  output,        \* the lines written to it since
  order          \* history: which trajectory delivered each row written is of

reading == <<file, cursor, prev_line, call, returned, resets, planned>>
batch == <<trajectories, waiting>>
writing == <<opened, output, order>>
jobVars == <<reading, job, stage, config, timestamp_idx, row, batch, writing>>

Ended == {"help", "threw", "crashed", "refused", "done"}

\* A caller of the reader alone is in its loop from the start.
JobInit ==
  /\ job \in Jobs
  /\ file = job.ids
  /\ Init
  /\ planned > 0 => job.program = "reader"
  /\ stage = IF job.program = "reader" THEN "loop" ELSE "start"
  /\ config = [help |-> FALSE]
  /\ timestamp_idx = -1
  /\ row = 1 /\ trajectories = <<>> /\ waiting = {}
  /\ opened = FALSE /\ output = <<>> /\ order = <<>>

\* An exception leaves the library through the wrappers, and the writer is
\* closed; out of a main it ends the program, with what the buffer of the
\* stream still holds.
Stop(how) ==
  /\ stage' = how
  /\ IF job.source = "library" /\ how = "threw"
     THEN output' = output
     ELSE \E kept \in 0 .. Len(output) : output' = SubSeq(output, 1, kept)

-----------------------------------------------------------------------------
LoadFails ==
  /\ stage = "start"
  /\ LoadThrows(job.program, job.source, job.doc)
  /\ Stop("threw")
  /\ UNCHANGED <<reading, job, config, timestamp_idx, row, batch, opened, order>>

\* print() takes the name of the log level before it was validated: a
\* negative one is printed from before the names, a large one is never
\* printed.
Load ==
  /\ stage = "start"
  /\ ~ LoadThrows(job.program, job.source, job.doc)
  /\ config' = Loaded(job.program, job.source, job.doc)
  /\ stage' \in IF job.source # "library" /\ config'.help THEN {"help"}
                ELSE IF job.source # "library" /\ config'.log_level < 0 THEN {"crashed", "loaded"}
                ELSE {"loaded"}
  /\ UNCHANGED <<reading, job, timestamp_idx, row, batch, writing>>

Accepted ==
  IF job.source = "library" THEN MatchGpsFileValid(job.program, config)
  ELSE AppValid(job.program, config)

Validate ==
  /\ stage = "loaded"
  /\ stage' = IF Accepted THEN "valid" ELSE "refused"
  /\ UNCHANGED <<reading, job, config, timestamp_idx, row, batch, writing>>

-----------------------------------------------------------------------------
\* read_ogr_file finds the columns it is told of.
NetworkReads == {config.network.id, config.network.source, config.network.target} \subseteq job.roads

UBODTReads == CheckFileExtension(config.ubodt, {"bin", "csv", "txt"})

\* The constructors of the applications read the network and the table; a
\* caller of the library did so before, and h3mm needs neither.
Builds ==
  \/ job.source = "library" \/ job.program = "h3mm"
  \/ NetworkReads /\ (job.program = "fmm" => UBODTReads)

Build ==
  /\ stage = "valid"
  /\ IF Builds THEN stage' = "built" /\ UNCHANGED output ELSE Stop("threw")
  /\ UNCHANGED <<reading, job, config, timestamp_idx, row, batch, opened, order>>

\* A stream for which no file can be opened swallows what is written to it.
Writable == config.result.file # NoPath /\ FolderExist(GetFileDirectory(config.result.file))

UBODTHeader == <<"source", "target", "next_n", "prev_n", "next_e", "distance">>

\* UBODTGenApp::run; UBODTGen says which rows follow.
Generate ==
  /\ stage = "built" /\ job.program = "ubodt_gen"
  /\ opened' = Writable
  /\ output' = IF Writable /\ ~ IsBinaryOutput(config) THEN <<UBODTHeader>> ELSE <<>>
  /\ stage' = "done"
  /\ UNCHANGED <<reading, job, config, timestamp_idx, row, batch, order>>

-----------------------------------------------------------------------------
Mode == GetGpsFormat(config.gps)

Places(name) == {k \in 1 .. Len(job.header) : job.header[k] = name}

\* Of two columns of one name, GDAL takes the first, the readers of CSV the last.
ColumnIndex(name) ==
  IF Places(name) = {} THEN -1
  ELSE (CHOOSE k \in Places(name) : \A l \in Places(name) : IF Mode = 0 THEN k <= l ELSE l <= k) - 1

\* What the header must have; a layer must be one of lines.
ReaderFits ==
  LET needed == CASE Mode = 0 -> {config.gps.id}
                  [] Mode = 1 -> {config.gps.id, config.gps.geom}
                  [] Mode = 2 -> {config.gps.id, config.gps.x, config.gps.y}
  IN  job.readable /\ \A name \in needed : Places(name) # {}

OpenReader ==
  /\ stage = "built" /\ job.program # "ubodt_gen"
  /\ IF ReaderFits
     THEN /\ timestamp_idx' = ColumnIndex(config.gps.timestamp)
          /\ stage' = "reader" /\ UNCHANGED output
     ELSE Stop("threw") /\ UNCHANGED timestamp_idx
  /\ UNCHANGED <<reading, job, config, row, batch, opened, order>>

Header ==
  IF job.program = "h3mm" THEN H3WriteHeader(config.result.write_geom)
  ELSE WriteHeader(config.result.fields)

OpenWriter ==
  /\ stage = "reader"
  /\ opened' = Writable
  /\ output' = IF Writable THEN <<Header>> ELSE <<>>
  /\ stage' = "loop"
  /\ UNCHANGED <<reading, job, config, timestamp_idx, row, batch, order>>

-----------------------------------------------------------------------------
ByPoint == IF job.program = "reader" THEN TRUE ELSE Mode = 2

\* has_next_trajectory of the reader in use.
MoreToRead == IF ByPoint THEN HasNext ELSE row <= Len(job.trajs)

\* Trajectories read at once: read_next_N_trajectories fills a vector, and
\* without use_omp one is read at a time.
Fetch == IF job.program # "reader" /\ config.use_omp THEN Buffer ELSE 1

Room == Len(trajectories) < Fetch

\* GDALTrajectoryReader leaves out the timestamps; CSVTrajectoryReader takes
\* as many as the row has, from any column.
ReadRow ==
  /\ stage = "loop" /\ ~ ByPoint /\ Room
  /\ MoreToRead /\ row # job.bad
  /\ trajectories' = Append(trajectories,
       [id |-> job.trajs[row].id, points |-> job.trajs[row].points,
        stamps |-> IF Mode = 1 /\ timestamp_idx >= 0 THEN job.trajs[row].stamps ELSE 0])
  /\ row' = row + 1
  /\ UNCHANGED <<reading, job, stage, config, timestamp_idx, waiting, writing>>

\* A feature without a geometry is dereferenced; a row that does not parse
\* raises an exception, and the trajectories of the batch are gone unmatched.
ReadBadRow ==
  /\ stage = "loop" /\ ~ ByPoint /\ Room
  /\ MoreToRead /\ row = job.bad
  /\ Stop(IF Mode = 0 THEN "crashed" ELSE "threw")
  /\ UNCHANGED <<reading, job, config, timestamp_idx, row, batch, opened, order>>

LoopPoints == stage = "loop" /\ ByPoint /\ Room

PointRowFits == Line # job.bad

BeginPoints ==
  /\ LoopPoints
  /\ ReadNext
  /\ UNCHANGED <<job, stage, config, timestamp_idx, row, batch, writing>>

TakePoint ==
  /\ LoopPoints /\ PointRowFits
  /\ AddPoint \/ ReadAhead
  /\ UNCHANGED <<job, stage, config, timestamp_idx, row, batch, writing>>

\* No point is added when parsing throws, and the batch is gone as well.
ReadBadPoint ==
  /\ LoopPoints /\ Reading /\ ~ PointRowFits
  /\ Stop("threw")
  /\ UNCHANGED <<reading, job, config, timestamp_idx, row, batch, opened, order>>

\* CSVPointReader::has_timestamp takes column 0 for no column.
HasTimestamp == timestamp_idx > 0

\* A caller of the reader alone takes the trajectories one by one.
EndPoints ==
  /\ LoopPoints
  /\ Return
  /\ trajectories' = IF job.program = "reader" THEN trajectories
                     ELSE Append(trajectories,
                            [id |-> TrajId,
                             points |-> [k \in 1 .. Len(call.geom) |-> job.places[call.geom[k]]],
                             stamps |-> IF HasTimestamp THEN Len(call.geom) ELSE 0])
  /\ UNCHANGED <<job, stage, config, timestamp_idx, row, waiting, writing>>

Rewind ==
  /\ LoopPoints
  /\ ResetCursor
  /\ UNCHANGED <<job, stage, config, timestamp_idx, row, batch, writing>>

\* Fault seed: the loop over the batch starts behind its first trajectory.
BehindFirst == DOMAIN trajectories \ {1}

Fetched == DOMAIN trajectories

\* The batch is full, or the file has no more: the threads share it out.
FetchEnds ==
  /\ stage = "loop" /\ call = Idle /\ trajectories # <<>>
  /\ Len(trajectories) = Fetch \/ ~ MoreToRead
  /\ waiting' = Fetched
  /\ stage' = "read"
  /\ UNCHANGED <<reading, job, config, timestamp_idx, row, trajectories, writing>>

\* The trajectories delivered by the reader so far.
Delivered ==
  IF ByPoint THEN [k \in 1 .. Len(returned) |->
                     [id |-> returned[k].id,
                      points |-> [j \in 1 .. Len(returned[k].geom) |-> job.places[returned[k].geom[j]]]]]
  ELSE [k \in 1 .. row - 1 |-> job.trajs[k]]

-----------------------------------------------------------------------------
\* What match_traj of fmm and stmatch returns: nothing without candidates,
\* then not even the id; no path of candidates; one the complete path of
\* which has a gap; or a complete path with the points along it.
Matches(id, n) ==
  {MatchResult(0, 0, 0, <<>>), MatchResult(id, 0, 0, <<>>), MatchResult(id, n, 0, <<>>)}
    \cup {MatchResult(id, n, edges, indices) :
            edges \in 1 .. MaxEdges, indices \in [1 .. n -> 0 .. MaxEdges - 1]}

Locates(indices, edges) ==
  /\ indices[1] = 0 /\ indices[Len(indices)] = edges - 1
  /\ \A k \in 2 .. Len(indices) : indices[k - 1] <= indices[k]

\* A trajectory without points has no candidates.
Results(traj) ==
  LET n == Len(traj.points) IN
  IF n = 0 THEN {MatchResult(0, 0, 0, <<>>)}
  ELSE {r \in Matches(traj.id, n) : r.edges > 0 => Locates(r.indices, r.edges)}

\* The batch is left when all of it is written.
WriteLine(i, line) ==
  /\ output' = IF opened THEN Append(output, line) ELSE output
  /\ order' = Append(order, Len(Delivered) - Len(trajectories) + i)
  /\ waiting' = waiting \ {i}
  /\ IF waiting' = {} THEN stage' = "loop" /\ trajectories' = <<>>
     ELSE UNCHANGED <<stage, trajectories>>

\* write_result, also of a row that reads beyond the candidates: garbage is
\* shown, or the program crashes.
WriteMatch(i, result) ==
  \/ WriteLine(i, WriteResult(config.result.fields, trajectories[i].stamps, result))
  \/ /\ Overruns(config.result.fields, trajectories[i].stamps, result)
     /\ Stop("crashed")
     /\ UNCHANGED <<batch, order>>

Match ==
  /\ stage = "read" /\ job.program \in {"fmm", "stmatch"}
  /\ \E i \in waiting : \E result \in Results(trajectories[i]) : WriteMatch(i, result)
  /\ UNCHANGED <<reading, job, config, timestamp_idx, row, opened>>

Hexes(traj) ==
  IF H3MMValid(config.params) THEN MatchHexes(traj.points, config.params.interpolate) ELSE <<>>

MatchHex ==
  /\ stage = "read" /\ job.program = "h3mm"
  /\ \E i \in waiting :
       WriteLine(i, H3WriteResult(config.result.write_geom, trajectories[i].id, Hexes(trajectories[i])))
  /\ UNCHANGED <<reading, job, config, timestamp_idx, row, opened>>

\* The writer closes its file at the end of its function.
Finish ==
  /\ stage = "loop" /\ job.program # "reader"
  /\ call = Idle /\ trajectories = <<>> /\ ~ MoreToRead
  /\ stage' = "done"
  /\ UNCHANGED <<reading, job, config, timestamp_idx, row, batch, writing>>

JobStep ==
  \/ LoadFails \/ Load \/ Validate \/ Build \/ Generate \/ OpenReader \/ OpenWriter
  \/ ReadRow \/ ReadBadRow \/ BeginPoints \/ TakePoint \/ ReadBadPoint \/ EndPoints
  \/ FetchEnds \/ Match \/ MatchHex \/ Finish

JobNext == JobStep \/ Rewind

JobSpec == JobInit /\ [][JobNext]_jobVars /\ WF_jobVars(JobStep)

-----------------------------------------------------------------------------
JobTypeOK ==
  /\ TypeOK
  /\ stage \in Ended \cup {"start", "loaded", "valid", "built", "reader", "loop", "read"}
  /\ timestamp_idx \in -1 .. Len(job.header) - 1
  /\ row \in 1 .. Len(job.trajs) + 1
  /\ trajectories \in Seq([id : Nat, points : Seq(Cells), stamps : Nat])
  /\ waiting \subseteq 1 .. Len(trajectories)
  /\ opened \in BOOLEAN
  /\ \A k \in 1 .. Len(output) : Len(output[k]) \in 1 .. Cardinality(Fields) + 1
  /\ order \in Seq(Nat)
  /\ \A k \in 1 .. Len(order) : order[k] \in 1 .. Len(Delivered)

(***************************************************************************)
(* The same options mean the same job, whether they stand in an XML file   *)
(* or are arguments: the two loaders of every part of the configuration    *)
(* and their defaults agree.  Only the default of vmax differs.            *)
(***************************************************************************)
SameConfig ==
  stage = "loaded" /\ job.source = "arg" /\ job.program # "h3mm"
    /\ Needed(job.program) \subseteq DOMAIN job.doc
    /\ (job.program = "stmatch" => Has(job.doc, "vmax"))
  => config = Loaded(job.program, "xml", job.doc)

RowsWritten == Len(output) - 1

BatchOf(n) == (n - 1) \div Fetch

(***************************************************************************)
(* An existing result file is not emptied for a job that is refused or     *)
(* whose input cannot be read.  After its header the file has at most one  *)
(* row for a trajectory read, under its id, or 0 where fmm and stmatch     *)
(* found no candidates; the rows come batch by batch, which without        *)
(* use_omp is in the order read.  A job that is done has one for every     *)
(* trajectory, one that throws in the library for those of the whole       *)
(* batches it read before: all, but for up to Buffer - 1 with use_omp.     *)
(* A job is done without a file only where no name was given, or a name    *)
(* match_gps_file of h3mm did not look at.                                 *)
(***************************************************************************)
ResultAccounts ==
  /\ opened => Writable /\ Accepted /\ Builds
  /\ opened /\ job.program # "ubodt_gen" =>
       /\ ReaderFits
       /\ RowsWritten >= 0 => output[1] = Header
       /\ \A k \in 1 .. RowsWritten :
            /\ output[k + 1][1].at[1] \in
                 {Delivered[order[k]].id} \cup (IF job.program = "h3mm" THEN {} ELSE {0})
            /\ BatchOf(order[k]) = BatchOf(k)
            /\ \A l \in 1 .. RowsWritten : order[k] = order[l] => k = l
       /\ stage = "done" => RowsWritten = Len(Delivered)
       /\ stage = "threw" /\ job.source = "library" =>
            RowsWritten = Fetch * (Len(Delivered) \div Fetch)
       /\ stage = "done" /\ ~ ByPoint => Len(Delivered) = Len(job.trajs)
  /\ stage = "done" =>
       opened \/ config.result.file = NoPath \/ (job.program = "h3mm" /\ job.source = "library")

Shown(line, field) == \E c \in 1 .. Len(line) : line[c].of = field
Cell(line, field) == line[CHOOSE c \in 1 .. Len(line) : line[c].of = field].at

\* Timestamps as gps_reader.hpp asks for: one per point, or none.
StampedByPoint == \A k \in 1 .. Len(job.trajs) : job.trajs[k].stamps \in {0, Len(job.trajs[k].points)}

(***************************************************************************)
(* A row has the columns of the header, in its order.  The columns of one  *)
(* row fit together: an entry per point, distances and speeds one less,    *)
(* and no speed of a point the path does not have where timestamps come    *)
(* one per point; the paths driven between the points join to the complete *)
(* path.                                                                   *)
(***************************************************************************)
RowFitsHeader ==
  \A k \in 2 .. Len(output) :
    LET line == output[k]
        both(f, g) == Shown(line, f) /\ Shown(line, g)
        n == Len(Cell(line, "opath"))
        tpath == Cell(line, "tpath")
    IN
    /\ [c \in 1 .. Len(line) |-> line[c].of] = output[1]
    /\ \A f \in {"error", "offset", "pgeom", "ep", "tp", "length"} :
         both("opath", f) => Len(Cell(line, f)) = n
    /\ both("opath", "spdist") => Len(Cell(line, "spdist")) = IF n = 0 THEN 0 ELSE n - 1
    /\ both("opath", "speed") /\ StampedByPoint =>
         \A i \in 1 .. Len(Cell(line, "speed")) : Cell(line, "speed")[i] \in 2 .. n
    /\ both("spdist", "speed") /\ StampedByPoint => Len(Cell(line, "speed")) <= Len(Cell(line, "spdist"))
    /\ both("cpath", "tpath") /\ tpath # <<>> =>
         LET joined[j \in 1 .. Len(tpath)] ==
               IF j = 1 THEN tpath[1]
               ELSE IF Head(tpath[j]) = joined[j - 1][Len(joined[j - 1])]
               THEN joined[j - 1] \o Tail(tpath[j]) ELSE <<>>
         IN  joined[Len(tpath)] = Cell(line, "cpath")

\* The cells of the points are passed in their order, the last one last.
Passes(hexs, points) ==
  \E at \in [1 .. Len(points) -> 1 .. Len(hexs)] :
    /\ \A i \in 1 .. Len(points) : hexs[at[i]] = points[i]
    /\ \A i \in 2 .. Len(points) : at[i - 1] <= at[i]
    /\ at[1] = 1 /\ at[Len(points)] = Len(hexs)

(***************************************************************************)
(* The hexagons h3mm writes start at the first point, pass the points in   *)
(* order and end at the last, none of them twice in a row; with            *)
(* interpolate, two in a row are neighbours or ones the library draws no   *)
(* line between, without it every one is that of a point.                  *)
(***************************************************************************)
HexesJoin ==
  job.program = "h3mm" =>
    \A k \in 1 .. RowsWritten :
      LET hexs == Cell(output[k + 1], "hex")
          points == Delivered[order[k]].points
      IN
      /\ points = <<>> <=> hexs = <<>>
      /\ points # <<>> /\ ~ LineFails(hexs) =>
           /\ Passes(hexs, points)
           /\ \A i \in 2 .. Len(hexs) :
                /\ hexs[i] # hexs[i - 1]
                /\ config.params.interpolate =>
                     <<hexs[i - 1], hexs[i]>> \in Adjacent \/ HexPath(hexs[i - 1], hexs[i]) = <<>>
                /\ ~ config.params.interpolate =>
                     \E j \in 1 .. Len(points) : points[j] = hexs[i]

(***************************************************************************)
(* A promised file (PointReader) is read as promised: run after run, each  *)
(* under its id, to the end.  Other files are mapped to the empty one, of  *)
(* which nothing is promised.                                              *)
(***************************************************************************)
AsPromised == Promised /\ job.program = "reader"

Trajectories == INSTANCE TrajectoryRuns WITH
  file <- IF AsPromised THEN file ELSE <<>>,
  returned <- IF AsPromised THEN returned ELSE <<>>

ImplementsRuns == Trajectories!Spec
=============================================================================
