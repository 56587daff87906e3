----------------------------- MODULE JobConfig -----------------------------
(***************************************************************************)
(* The configuration of a job (src/config, *_app_config.cpp, h3mm_app.hpp, *)
(* h3mm_writer.hpp): what each program makes of an XML file or of its      *)
(* arguments, and which configurations it accepts.                         *)
(*                                                                         *)
(* A document is a function from the options it sets to their values, the  *)
(* same option names for both forms: "radius" is --radius and the element  *)
(* config.parameters.r.  A file name is a record of its folder, the text   *)
(* behind its last dot and whether the file exists; ratios are in          *)
(* hundredths, and the factor in tenths.                                   *)
(***************************************************************************)
EXTENDS Integers, Sequences

CONSTANTS
  Malformed,  \* text that is no number, where a number is asked for
  Folders     \* the folders that exist

\* The empty file name.
NoPath == [dir |-> "", ext |-> "", exists |-> FALSE]

Has(doc, option) == option \in DOMAIN doc

\* ptree::get with a default.
XmlGet(tree, option, default) ==
  IF Has(tree, option) /\ tree[option] # Malformed THEN tree[option] ELSE default

\* The values of both functions, of the first where both have one.
f ++ g == [x \in DOMAIN f \cup DOMAIN g |-> IF x \in DOMAIN f THEN f[x] ELSE g[x]]

\* What a parser of these options and flags makes of the arguments, and when
\* it throws.
Parsed(doc, options) == doc ++ options

ParseThrows(doc, options, flags) ==
  \/ ~ DOMAIN doc \subseteq DOMAIN options \cup flags
  \/ \E option \in DOMAIN doc : doc[option] = Malformed

-----------------------------------------------------------------------------
FileExists(path) == path.exists

CheckFileExtension(path, extensions) == path.ext \in extensions

GetFileDirectory(path) == path.dir

FolderExist(folder) == folder = "" \/ folder \in Folders

-----------------------------------------------------------------------------
NetworkOptions ==
  [network |-> NoPath, network_id |-> "id", source |-> "source", target |-> "target"]

NetworkFromXml(tree) ==
  [file   |-> tree.network,
   id     |-> XmlGet(tree, "network_id", "id"),
   source |-> XmlGet(tree, "source", "source"),
   target |-> XmlGet(tree, "target", "target")]

NetworkFromArg(arg) ==
  [file |-> arg.network, id |-> arg.network_id, source |-> arg.source, target |-> arg.target]

IsShapefileFormat(network) == CheckFileExtension(network.file, {"shp"})

NetworkValid(network) == FileExists(network.file) /\ IsShapefileFormat(network)

-----------------------------------------------------------------------------
GPSOptions ==
  [gps |-> NoPath, gps_id |-> "id", gps_x |-> "x", gps_y |-> "y", gps_geom |-> "geom",
   gps_timestamp |-> "timestamp"]

\* Fault seed: another default where the timestamp column is not named.
GPSUnnamedTime(tree) ==
  [file |-> tree.gps,
   id |-> XmlGet(tree, "gps_id", "id"), geom |-> XmlGet(tree, "gps_geom", "geom"),
   x |-> XmlGet(tree, "gps_x", "x"), y |-> XmlGet(tree, "gps_y", "y"),
   timestamp |-> XmlGet(tree, "gps_timestamp", "time"),
   gps_point |-> Has(tree, "gps_point")]

GPSFromXml(tree) ==
  [file |-> tree.gps,
   id |-> XmlGet(tree, "gps_id", "id"), geom |-> XmlGet(tree, "gps_geom", "geom"),
   x |-> XmlGet(tree, "gps_x", "x"), y |-> XmlGet(tree, "gps_y", "y"),
   timestamp |-> XmlGet(tree, "gps_timestamp", "timestamp"),
   gps_point |-> Has(tree, "gps_point")]

GPSFromArg(arg) ==
  [file |-> arg.gps, id |-> arg.gps_id, geom |-> arg.gps_geom, x |-> arg.gps_x, y |-> arg.gps_y,
   timestamp |-> arg.gps_timestamp, gps_point |-> Has(arg, "gps_point")]

\* 0: a trajectory per feature, 1: per row, 2: a point per row.
GetGpsFormat(gps) ==
  CASE gps.file.ext \in {"csv", "txt"}  -> IF gps.gps_point THEN 2 ELSE 1
    [] gps.file.ext \in {"gpkg", "shp"} -> 0
    [] OTHER -> -1

GPSValid(gps) == FileExists(gps.file) /\ GetGpsFormat(gps) >= 0

-----------------------------------------------------------------------------
Fields == {"opath", "offset", "error", "spdist", "pgeom", "cpath", "tpath", "mgeom",
           "ep", "tp", "length", "duration", "speed"}

\* OutputConfig's own values.
DefaultFields == {"cpath", "mgeom"}

\* Naming fields closes the default ones.
FieldsOf(names) == IF "all" \in names THEN Fields ELSE Fields \cap names

ResultOptions == [output |-> NoPath]

ResultFromXml(tree) ==
  [file   |-> tree.output,
   fields |-> IF Has(tree, "output_fields") THEN FieldsOf(tree.output_fields) ELSE DefaultFields]

ResultFromArg(arg) ==
  [file   |-> arg.output,
   fields |-> IF Has(arg, "output_fields") THEN FieldsOf(arg.output_fields) ELSE DefaultFields]

ResultValid(result) == FolderExist(GetFileDirectory(result.file))

-----------------------------------------------------------------------------
FMMOptions == [candidates |-> 8, radius |-> 300, error |-> 50, reverse_tolerance |-> 0]

FMMFromXml(tree) ==
  [k |-> XmlGet(tree, "candidates", 8), radius |-> XmlGet(tree, "radius", 300),
   gps_error |-> XmlGet(tree, "error", 50),
   reverse_tolerance |-> XmlGet(tree, "reverse_tolerance", 0)]

FMMFromArg(arg) ==
  [k |-> arg.candidates, radius |-> arg.radius, gps_error |-> arg.error,
   reverse_tolerance |-> arg.reverse_tolerance]

FMMValid(fmm) ==
  /\ fmm.gps_error > 0 /\ fmm.radius > 0 /\ fmm.k > 0
  /\ fmm.reverse_tolerance \in 0 .. 100

STMATCHOptions ==
  [candidates |-> 8, radius |-> 300, error |-> 50, vmax |-> 30, factor |-> 15,
   reverse_tolerance |-> 0]

STMATCHFromXml(tree) ==
  [k |-> XmlGet(tree, "candidates", 8), radius |-> XmlGet(tree, "radius", 300),
   gps_error |-> XmlGet(tree, "error", 50), vmax |-> XmlGet(tree, "vmax", 80),
   factor |-> XmlGet(tree, "factor", 15),
   reverse_tolerance |-> XmlGet(tree, "reverse_tolerance", 0)]

STMATCHFromArg(arg) ==
  [k |-> arg.candidates, radius |-> arg.radius, gps_error |-> arg.error, vmax |-> arg.vmax,
   factor |-> arg.factor, reverse_tolerance |-> arg.reverse_tolerance]

STMATCHValid(stmatch) ==
  /\ stmatch.gps_error > 0 /\ stmatch.radius > 0 /\ stmatch.k > 0
  /\ stmatch.vmax > 0 /\ stmatch.factor > 0 /\ stmatch.reverse_tolerance >= 0

H3MMOptions == [h3level |-> 15]

H3MMFromArg(arg) == [h3level |-> arg.h3level, interpolate |-> Has(arg, "interpolate")]

H3MMValid(h3mm) == h3mm.h3level \in 0 .. 15

H3ResultFromArg(arg) == [file |-> arg.output, write_geom |-> Has(arg, "write_geom")]

H3ResultValid(result) == result.file # NoPath /\ FolderExist(GetFileDirectory(result.file))

-----------------------------------------------------------------------------
OtherOptions == [log_level |-> 2, step |-> 100]
OtherFlags == {"help", "use_omp"}

\* Every program asks for help without arguments, before it parses them.
Help(doc) == DOMAIN doc = {} \/ Has(doc, "help")

FMMAppOptions ==
  NetworkOptions ++ GPSOptions ++ ResultOptions ++ FMMOptions ++ [ubodt |-> NoPath] ++ OtherOptions

FMMLoadXml(tree) ==
  [network |-> NetworkFromXml(tree), gps |-> GPSFromXml(tree), result |-> ResultFromXml(tree),
   params |-> FMMFromXml(tree), ubodt |-> tree.ubodt,
   log_level |-> XmlGet(tree, "log_level", 2), step |-> XmlGet(tree, "step", 100),
   use_omp |-> Has(tree, "use_omp"), help |-> FALSE]

FMMLoadArg(doc) ==
  LET arg == Parsed(doc, FMMAppOptions) IN
  [network |-> NetworkFromArg(arg), gps |-> GPSFromArg(arg), result |-> ResultFromArg(arg),
   params |-> FMMFromArg(arg), ubodt |-> arg.ubodt,
   log_level |-> arg.log_level, step |-> arg.step,
   use_omp |-> Has(arg, "use_omp"), help |-> Help(doc)]

\* LOG_LEVESLS has seven entries.
LogLevelValid(config) == config.log_level \in 0 .. 7

FMMAppValid(config) ==
  /\ LogLevelValid(config)
  /\ GPSValid(config.gps) /\ ResultValid(config.result) /\ NetworkValid(config.network)
  /\ FMMValid(config.params)
  /\ FileExists(config.ubodt)

STMATCHAppOptions ==
  NetworkOptions ++ GPSOptions ++ ResultOptions ++ STMATCHOptions ++ OtherOptions

STMATCHLoadXml(tree) ==
  [network |-> NetworkFromXml(tree), gps |-> GPSFromXml(tree), result |-> ResultFromXml(tree),
   params |-> STMATCHFromXml(tree),
   log_level |-> XmlGet(tree, "log_level", 2), step |-> XmlGet(tree, "step", 100),
   use_omp |-> Has(tree, "use_omp"), help |-> FALSE]

STMATCHLoadArg(doc) ==
  LET arg == Parsed(doc, STMATCHAppOptions) IN
  [network |-> NetworkFromArg(arg), gps |-> GPSFromArg(arg), result |-> ResultFromArg(arg),
   params |-> STMATCHFromArg(arg), log_level |-> arg.log_level, step |-> arg.step,
   use_omp |-> Has(arg, "use_omp"), help |-> Help(doc)]

STMATCHAppValid(config) ==
  /\ GPSValid(config.gps) /\ ResultValid(config.result) /\ NetworkValid(config.network)
  /\ STMATCHValid(config.params)

UBODTGenAppOptions ==
  NetworkOptions ++ [delta |-> 3000] ++ ResultOptions ++ [log_level |-> 2]

UBODTGenLoadXml(tree) ==
  [network |-> NetworkFromXml(tree), delta |-> XmlGet(tree, "delta", 3000),
   result |-> [file |-> tree.output], log_level |-> XmlGet(tree, "log_level", 2),
   use_omp |-> Has(tree, "use_omp"), help |-> FALSE]

UBODTGenLoadArg(doc) ==
  LET arg == Parsed(doc, UBODTGenAppOptions) IN
  [network |-> NetworkFromArg(arg), delta |-> arg.delta, result |-> [file |-> arg.output],
   log_level |-> arg.log_level, use_omp |-> Has(arg, "use_omp"), help |-> Help(doc)]

UBODTGenAppValid(config) ==
  /\ NetworkValid(config.network)
  /\ FolderExist(GetFileDirectory(config.result.file))
  /\ LogLevelValid(config)
  /\ config.delta > 0

IsBinaryOutput(config) == CheckFileExtension(config.result.file, {"bin"})

H3MMAppOptions == GPSOptions ++ H3MMOptions ++ ResultOptions ++ OtherOptions

H3MMLoadArg(doc) ==
  LET arg == Parsed(doc, H3MMAppOptions) IN
  [gps |-> GPSFromArg(arg), result |-> H3ResultFromArg(arg), params |-> H3MMFromArg(arg),
   log_level |-> arg.log_level, step |-> arg.step,
   use_omp |-> Has(arg, "use_omp"), help |-> Help(doc)]

H3MMAppValid(config) ==
  GPSValid(config.gps) /\ H3ResultValid(config.result) /\ H3MMValid(config.params)

-----------------------------------------------------------------------------
\* What the programs share: each with its own options, loader and validation.
Options(program) ==
  CASE program = "fmm"       -> FMMAppOptions
    [] program = "stmatch"   -> STMATCHAppOptions
    [] program = "ubodt_gen" -> UBODTGenAppOptions
    [] program = "h3mm"      -> H3MMAppOptions

Flags(program) ==
  CASE program = "ubodt_gen" -> OtherFlags
    [] program = "h3mm"      -> OtherFlags \cup {"gps_point", "interpolate", "write_geom"}
    [] OTHER                 -> OtherFlags \cup {"gps_point", "output_fields"}

\* The elements an XML file cannot leave out.
Needed(program) ==
  CASE program = "fmm"       -> {"network", "gps", "output", "ubodt"}
    [] program = "stmatch"   -> {"network", "gps", "output"}
    [] program = "ubodt_gen" -> {"network", "output"}

LoadThrows(program, source, doc) ==
  CASE source = "xml"     -> ~ Needed(program) \subseteq DOMAIN doc
    [] source = "arg"     -> DOMAIN doc # {} /\ ParseThrows(doc, Options(program), Flags(program))
    [] source = "library" -> FALSE

\* match_gps_file is called with use_omp unless its caller says otherwise.
AsCalled(doc, config) ==
  [config EXCEPT !.use_omp = IF Has(doc, "use_omp") THEN doc.use_omp ELSE TRUE]

\* A caller of the library builds the objects that the arguments would build;
\* of their defaults the level of H3MMConfig alone is another there.
Loaded(program, source, doc) ==
  CASE program = "fmm" /\ source = "xml"          -> FMMLoadXml(doc)
    [] program = "fmm" /\ source = "arg"          -> FMMLoadArg(doc)
    [] program = "fmm" /\ source = "library"      -> AsCalled(doc, FMMLoadArg(doc))
    [] program = "stmatch" /\ source = "xml"      -> STMATCHLoadXml(doc)
    [] program = "stmatch" /\ source = "arg"      -> STMATCHLoadArg(doc)
    [] program = "stmatch" /\ source = "library"  -> AsCalled(doc, STMATCHLoadArg(doc))
    [] program = "ubodt_gen" /\ source = "xml"    -> UBODTGenLoadXml(doc)
    [] program = "ubodt_gen" /\ source = "arg"    -> UBODTGenLoadArg(doc)
    [] program = "h3mm" /\ source = "arg"         -> H3MMLoadArg(doc)
    [] program = "h3mm" /\ source = "library"     -> AsCalled(doc, H3MMLoadArg(doc ++ [h3level |-> 9]))

AppValid(program, config) ==
  CASE program = "fmm"       -> FMMAppValid(config)
    [] program = "stmatch"   -> STMATCHAppValid(config)
    [] program = "ubodt_gen" -> UBODTGenAppValid(config)
    [] program = "h3mm"      -> H3MMAppValid(config)

\* match_gps_file of the library.
MatchGpsFileValid(program, config) ==
  /\ GPSValid(config.gps)
  /\ CASE program = "fmm"     -> ResultValid(config.result) /\ FMMValid(config.params)
       [] program = "stmatch" -> ResultValid(config.result) /\ STMATCHValid(config.params)
       [] program = "h3mm"    -> H3MMValid(config.params)
=============================================================================
