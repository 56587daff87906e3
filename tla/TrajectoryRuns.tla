--------------------------- MODULE TrajectoryRuns ---------------------------
(***************************************************************************)
(* What a reader of a point file promises (io/gps_reader.hpp): one after   *)
(* the other, the longest stretches of rows that carry one id, each under  *)
(* that id, until every row is read.  A row stands for its number in the   *)
(* file; file[row] is the id it carries.                                   *)
(***************************************************************************)
EXTENDS Integers, Sequences

VARIABLES file, returned

\* The rows from first to last are one trajectory of the file.
IsRun(rows, first, last) ==
  /\ first \in 1 .. last /\ last <= Len(rows)
  /\ \A r \in first .. last : rows[r] = rows[first]
  /\ first > 1 => rows[first - 1] # rows[first]
  /\ last < Len(rows) => rows[last + 1] # rows[last]

Trajectory(rows, first, last) ==
  [id |-> rows[first], geom |-> [k \in 1 .. last - first + 1 |-> first + k - 1]]

LastRow(trajectories) ==
  IF trajectories = <<>> THEN 0
  ELSE LET geom == trajectories[Len(trajectories)].geom IN geom[Len(geom)]

Init == returned = <<>>

Read ==
  /\ \E last \in 1 .. Len(file) :
       /\ IsRun(file, LastRow(returned) + 1, last)
       /\ returned' = Append(returned, Trajectory(file, LastRow(returned) + 1, last))
  /\ UNCHANGED file

Spec ==
  /\ Init /\ [][Read]_<<file, returned>>
  /\ WF_<<file, returned>>(Read)
=============================================================================
