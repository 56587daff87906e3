------------------------------ MODULE HexMatch ------------------------------
(***************************************************************************)
(* H3MM::match_traj (mm/h3mm/h3mm.hpp): the hexagons a trajectory passes.  *)
(* The grid is the H3 library's: a point stands for its cell, and the      *)
(* library says which cells touch and draws a line between two others, or  *)
(* fails to.                                                               *)
(***************************************************************************)
EXTENDS Integers, Sequences

CONSTANTS
  Cells,      \* the cells of the grid, none of them 0
  Adjacent,   \* pairs of cells that h3IndexesAreNeighbors takes for neighbours
  H3Line      \* a line of cells for every pair, <<>> where h3LineSize fails

\* A cell of the line that h3Line cannot tell stays 0.
LineFails(line) == \E k \in 1 .. Len(line) : line[k] = 0

ASSUME GridAssumption ==
  /\ 0 \notin Cells
  /\ Adjacent \subseteq Cells \X Cells
  /\ \A cell \in Cells : <<cell, cell>> \notin Adjacent
  /\ H3Line \in [Cells \X Cells -> Seq(Cells \cup {0})]
  /\ \A pair \in Cells \X Cells :
       LET line == H3Line[pair] IN
       /\ line # <<>> => line[1] = pair[1]
       /\ line # <<>> /\ ~ LineFails(line) =>
         /\ line[Len(line)] = pair[2]
         /\ \A k \in 2 .. Len(line) : <<line[k - 1], line[k]>> \in Adjacent

HexPath(start, end) == H3Line[<<start, end>>]

\* Fault seed: the line is added with the cell it starts from.
WholeLine(prev_hex, hex) ==
  IF <<prev_hex, hex>> \in Adjacent THEN <<hex>>
  ELSE LET seq_hex == HexPath(prev_hex, hex) IN
       IF Len(seq_hex) > 1 THEN seq_hex ELSE <<hex>>

\* What moving from one cell to another adds.
Interpolated(prev_hex, hex) ==
  IF <<prev_hex, hex>> \in Adjacent THEN <<hex>>
  ELSE LET seq_hex == HexPath(prev_hex, hex) IN
       IF Len(seq_hex) > 1 THEN Tail(seq_hex) ELSE <<hex>>

Added(prev_hex, hex, interpolate) ==
  CASE hex = prev_hex -> <<>>
    [] hex # prev_hex /\ interpolate -> Interpolated(prev_hex, hex)
    [] hex # prev_hex /\ ~ interpolate -> <<hex>>

MatchHexes(points, interpolate) ==
  LET hexs[i \in 0 .. Len(points)] ==
        CASE i = 0 -> <<>>
          [] i = 1 -> <<points[1]>>
          [] OTHER -> hexs[i - 1] \o Added(points[i - 1], points[i], interpolate)
  IN  hexs[Len(points)]
=============================================================================
