----------------------------- MODULE ResultRow -----------------------------
(***************************************************************************)
(* CSVMatchResultWriter (io/mm_writer.cpp) and H3MatchResultWriter         *)
(* (mm/h3mm/h3mm_writer.hpp): the header of the result file and the row of *)
(* a match.  The two are written by code of their own that agrees on the   *)
(* fields and their order, and nothing reads them together.                *)
(*                                                                         *)
(* A cell is the attribute it shows and where it takes it from: points of  *)
(* the path of candidates (from 1), edges of the complete path (from 0 as  *)
(* in indices), or timestamps (each with the one before).                  *)
(***************************************************************************)
EXTENDS Integers, Sequences

\* MatchResult: the candidates chosen (their number), the edges of the
\* complete path (their number), and where the candidates are in it.
MatchResult(id, points, edges, indices) ==
  [id |-> id, points |-> points, edges |-> edges, indices |-> indices]

From(first, last) == [k \in 1 .. last - first + 1 |-> first + k - 1]

HeaderOrder ==
  <<"opath", "error", "offset", "spdist", "pgeom", "cpath", "tpath", "mgeom", "ep", "tp",
    "length", "duration", "speed">>

\* The fields asked for, in this order.
Asked(order, fields) ==
  LET upTo[k \in 0 .. Len(order)] ==
        IF k = 0 THEN <<>>
        ELSE IF order[k] \in fields THEN Append(upTo[k - 1], order[k]) ELSE upTo[k - 1]
  IN  upTo[Len(order)]

WriteHeader(fields) == <<"id">> \o Asked(HeaderOrder, fields)

\* Fault seed: the lengths are written before the probabilities.
LengthFirst ==
  <<"opath", "error", "offset", "spdist", "pgeom", "cpath", "tpath", "mgeom", "length", "ep",
    "tp", "duration", "speed">>

RowOrder ==
  <<"opath", "error", "offset", "spdist", "pgeom", "cpath", "tpath", "mgeom", "ep", "tp",
    "length", "duration", "speed">>

\* The edges driven between every two points, both ends included.
TraversedPath(result) ==
  IF result.edges = 0 THEN <<>>
  ELSE [j \in 1 .. Len(result.indices) - 1 |-> From(result.indices[j], result.indices[j + 1])]

\* The speeds go by the number of timestamps, whatever the number of points.
Entries(field, stamps, result) ==
  CASE field = "spdist"            -> From(2, result.points)
    [] field \in {"cpath", "mgeom"} -> From(0, result.edges - 1)
    [] field = "tpath"             -> TraversedPath(result)
    [] field = "duration"          -> From(2, stamps)
    [] field = "speed"             -> IF result.points = 0 THEN <<>> ELSE From(2, stamps)
    [] OTHER                       -> From(1, result.points)

WriteResult(fields, stamps, result) ==
  LET shown == Asked(RowOrder, fields) IN
  <<[of |-> "id", at |-> <<result.id>>]>>
    \o [k \in 1 .. Len(shown) |-> [of |-> shown[k], at |-> Entries(shown[k], stamps, result)]]

\* A row that takes a speed from behind the last candidate.
Overruns(fields, stamps, result) ==
  "speed" \in fields /\ result.points > 0 /\ stamps > result.points

-----------------------------------------------------------------------------
H3WriteHeader(write_geom) == IF write_geom THEN <<"id", "hex", "geom">> ELSE <<"id", "hex">>

H3WriteResult(write_geom, id, hexes) ==
  LET row == <<[of |-> "id", at |-> <<id>>], [of |-> "hex", at |-> hexes]>> IN
  IF write_geom THEN Append(row, [of |-> "geom", at |-> hexes]) ELSE row
=============================================================================
