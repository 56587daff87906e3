----------------------------- MODULE MCMatchJob -----------------------------
(***************************************************************************)
(* Jobs of five kinds: every option of every program set, left out, wrong  *)
(* and malformed, one at a time; every request of up to two fields, and    *)
(* all, for trajectories with fitting and other numbers of timestamps;     *)
(* files of points and of trajectories with a row that does not parse, at  *)
(* every place of a whole and of a partial batch; h3 cells on a small      *)
(* grid; and files of points read without a program, up to six rows whose  *)
(* ids ascend, as gps_reader.hpp asks for.                                 *)
(***************************************************************************)
EXTENDS MatchJob, TLC

There(ext) == [dir |-> "there", ext |-> ext, exists |-> TRUE]
New(dir, ext) == [dir |-> dir, ext |-> ext, exists |-> FALSE]

Base(program) ==
  CASE program = "fmm" -> [network |-> There("shp"), gps |-> There("csv"), output |-> New("there", "csv"),
                           ubodt |-> There("txt")]
    [] program = "stmatch" -> [network |-> There("shp"), gps |-> There("csv"), output |-> New("", "csv")]
    [] program = "ubodt_gen" -> [network |-> There("shp"), output |-> New("there", "bin")]
    [] program = "h3mm" -> [gps |-> There("csv"), output |-> There("csv")]

Files_ == {NoPath, New("missing", "csv"), There("shp"), There("csv"), There("gpx")}
Numbers(option) ==
  CASE option = "log_level" -> {-1, 0, 7, 8}
    [] option = "h3level" -> {-1, 0, 15, 16}
    [] option = "reverse_tolerance" -> {-1, 0, 50, 101}
    [] OTHER -> {0, 1}

Values(option) ==
  CASE option \in {"network", "gps", "output", "ubodt"} -> Files_
    [] option \in {"network_id", "source", "target", "gps_id", "gps_geom", "gps_timestamp", "gps_x", "gps_y"} ->
         {"id", "key"}
    [] option \in {"candidates", "radius", "error", "vmax", "factor", "reverse_tolerance", "delta",
                   "log_level", "step", "h3level"} -> Numbers(option) \cup {Malformed}
    [] option = "output_fields" -> {{}, {"opath"}, {"all"}, {"speed", "none"}}
    [] option \in {"help", "gps_point", "interpolate", "write_geom", "use_omp"} -> {TRUE}

AllOptions ==
  {"network", "gps", "output", "ubodt", "network_id", "source", "target", "gps_id", "gps_geom",
   "gps_timestamp", "gps_x", "gps_y", "candidates", "radius", "error", "vmax", "factor",
   "reverse_tolerance", "delta", "log_level", "step", "h3level", "output_fields", "help", "gps_point",
   "interpolate", "write_geom", "use_omp"}

Without(doc, option) == [o \in DOMAIN doc \ {option} |-> doc[o]]
With(doc, option, value) == (option :> value) @@ doc

Docs(program) ==
  {Without(Base(program), o) : o \in DOMAIN Base(program) \cup {"none"}}
    \cup {[o \in {} |-> NoPath]}
    \cup UNION {{With(Base(program), o, v) : v \in Values(o)} : o \in AllOptions}

Sources(program) ==
  CASE program \in {"fmm", "stmatch"} -> {"xml", "arg", "library"}
    [] program = "ubodt_gen" -> {"xml", "arg"}
    [] program = "h3mm" -> {"arg", "library"}

Roads == {"id", "source", "target"}

RowJob(program, source, doc, header, trajs) ==
  [program |-> program, source |-> source, doc |-> doc, roads |-> Roads, readable |-> TRUE,
   header |-> header, trajs |-> trajs, ids |-> <<>>, places |-> <<>>, bad |-> 0]

PointJob(program, source, doc, header, ids, bad) ==
  [program |-> program, source |-> source, doc |-> doc, roads |-> Roads, readable |-> TRUE,
   header |-> header, trajs |-> <<>>, ids |-> ids, places |-> [k \in 1 .. Len(ids) |-> (k % 3) + 1],
   bad |-> bad]

Traj(id, n, stamps) == [id |-> id, points |-> From(1, n), stamps |-> stamps]

TrajHeader == <<"id", "geom", "timestamp">>
PointHeader == <<"id", "x", "y", "timestamp">>

\* Of the library, options that are objects of their own types.
Typed(doc) == \A o \in DOMAIN doc : doc[o] # Malformed

OptionJobs ==
  LET all == UNION {{RowJob(program, source, doc, TrajHeader, <<Traj(4, 1, 1)>>) :
                       doc \in Docs(program), source \in Sources(program)} :
                      program \in {"fmm", "stmatch", "ubodt_gen", "h3mm"}}
  IN  {j \in all : j.source = "library" => Typed(j.doc)}

HeaderJobs ==
  {RowJob(program, source, Base(program) @@ [gps_id |-> "id"], header, <<Traj(4, 1, 1)>>) :
     program \in {"fmm", "h3mm"}, source \in {"arg", "library"},
     header \in {<<"geom">>, <<"id">>, <<"id", "geom">>, <<"timestamp", "id", "geom", "id">>}}
  \cup
  {[RowJob("stmatch", source, With(Base("stmatch"), "gps", There("gpkg")), header,
           <<Traj(4, 2, 2)>>) EXCEPT !.readable = readable] :
     source \in {"xml", "library"}, readable \in BOOLEAN,
     header \in {<<"id">>, <<"key">>, <<"timestamp", "id", "timestamp">>}}

FieldRequests == {{f, g} : f, g \in Fields} \cup {{}, {"all"}}

FieldJobs ==
  {RowJob("fmm", "arg", With(Base("fmm"), "output_fields", fields), TrajHeader, trajs) :
     fields \in FieldRequests,
     trajs \in {<<Traj(4, n, stamps)>> : n \in 0 .. 3, stamps \in 0 .. 4}
                 \cup {<<Traj(4, 2, 2), Traj(3, 1, 1)>>}}

\* With threads and without: of the library they are the default, for the
\* applications a flag.
Threaded(source, doc) == IF source = "library" THEN doc ELSE With(doc, "use_omp", TRUE)
Sequential(source, doc) == IF source = "library" THEN With(doc, "use_omp", FALSE) ELSE doc
EitherWay(source, doc) == {Threaded(source, doc), Sequential(source, doc)}

BadJobs ==
  UNION
  {{[RowJob(program, source, doc, TrajHeader,
            <<Traj(4, 2, 2), Traj(3, 1, 1), Traj(5, 1, 0), Traj(6, 0, 0)>>) EXCEPT !.bad = bad] :
      doc \in EitherWay(source, With(Base(program), "gps", There(ext))), bad \in 0 .. 4} :
     program \in {"fmm", "stmatch", "h3mm"}, source \in {"arg", "library"}, ext \in {"csv", "shp"}}

AscendingUpTo(n, Ids) ==
  UNION { {f \in [1 .. m -> Ids] : \A i, j \in 1 .. m : i < j => f[i] <= f[j]} : m \in 0 .. n }

PointDoc(program) == With(Base(program), "gps_point", TRUE)

PointJobs ==
  {PointJob(program, source, Sequential(source, PointDoc(program)), header, ids, bad) :
     program \in {"stmatch", "h3mm"}, source \in {"arg", "library"},
     header \in {PointHeader, <<"timestamp", "id", "x", "y">>},
     ids \in AscendingUpTo(3, 1 .. 3), bad \in 0 .. 2}
  \cup
  {PointJob(program, source, Threaded(source, PointDoc(program)), PointHeader, ids, bad) :
     program \in {"fmm", "h3mm"}, source \in {"arg", "library"},
     ids \in {<<2, 3, 3>>, <<1, 2, 3, 4, 4>>}, bad \in 0 .. 5}
  \cup
  {PointJob("fmm", "arg", PointDoc("fmm"), header, <<1, 1>>, 0) :
     header \in {<<"id", "x">>, <<"x", "y">>, <<"id", "y">>, PointHeader}}

HexCells == 1 .. 5

\* The cells 1 to 4 are a chain; 5 is cut off from them, and the line that
\* leads there from 1 is given up on the way.
HexAdjacent == {<<a, b>> \in (1 .. 4) \X (1 .. 4) : a - b \in {1, -1}}
HexLine ==
  [pair \in HexCells \X HexCells |->
     CASE pair = <<1, 5>> -> <<1, 2, 0>>
       [] pair # <<1, 5>> /\ 5 \in {pair[1], pair[2]} -> IF pair[1] = pair[2] THEN <<5>> ELSE <<>>
       [] OTHER -> IF pair[1] <= pair[2] THEN From(pair[1], pair[2])
                   ELSE [k \in 1 .. pair[1] - pair[2] + 1 |-> pair[1] + 1 - k]]

HexJobs ==
  {RowJob("h3mm", "arg", doc, TrajHeader, <<[id |-> 4, points |-> points, stamps |-> 0]>>) :
     points \in UNION {[1 .. n -> HexCells] : n \in 0 .. 4},
     doc \in {With(Base("h3mm"), "write_geom", TRUE), With(Base("h3mm"), "interpolate", TRUE)}}

ReaderJobs ==
  {PointJob("reader", "library", [o \in {} |-> NoPath], PointHeader, ids, 0) :
     ids \in AscendingUpTo(6, 0 .. 3)}

AllJobs ==
  OptionJobs \cup HeaderJobs \cup FieldJobs \cup BadJobs \cup PointJobs \cup HexJobs \cup ReaderJobs

AllFiles == {j.ids : j \in AllJobs}
=============================================================================
