---------------------------- MODULE PointReader ----------------------------
(***************************************************************************)
(* CSVPointReader (io/gps_reader.cpp): trajectories out of a file with a   *)
(* row per GPS point.  The row that shows that a trajectory has ended      *)
(* belongs to the next one and is kept in prev_line, while whether another *)
(* trajectory follows is asked of the file alone.                          *)
(*                                                                         *)
(* A row stands for its number in the file, after the header.              *)
(***************************************************************************)
EXTENDS Integers, Sequences

CONSTANTS
  Files,      \* files considered: the id of every row
  MaxResets   \* resets of the cursor considered (bound of the model)

ASSUME ReaderAssumption ==
  /\ Files \subseteq Seq(Nat)
  /\ MaxResets \in Nat

VARIABLES
  file,
  cursor,     \* the row ifs delivers next
  prev_line,  \* the row read ahead, 0 for the empty string
  call,       \* the locals of read_next_trajectory, Idle outside of it
  returned,   \* the trajectories returned since the last reset
  resets,     \* calls of reset_cursor
  planned     \* how many its caller will make

vars == <<file, cursor, prev_line, call, returned, resets, planned>>

Idle == [geom |-> <<>>, prev_id |-> -1, trid |-> -1, same |-> FALSE]
Entered == [Idle EXCEPT !.same = TRUE]

Init ==
  /\ file \in Files
  /\ cursor = 1 /\ prev_line = 0
  /\ call = Idle /\ returned = <<>>
  /\ resets = 0 /\ planned \in 0 .. MaxResets

\* has_next_trajectory
HasNext == cursor <= Len(file)

-----------------------------------------------------------------------------
\* Its callers (read_next_N_trajectories, read_all_trajectories,
\* match_gps_file) ask has_next_trajectory before.
ReadNext ==
  /\ call = Idle
  /\ HasNext
  /\ call' = Entered
  /\ UNCHANGED <<file, cursor, prev_line, returned, resets, planned>>

Reading == call.same /\ HasNext

Line == IF prev_line = 0 THEN cursor ELSE prev_line

\* Fault seed: the row read ahead is taken from the file as well.
Skipping == cursor + 1

\* The cursor after a line is taken from the file, or from prev_line.
Advance == IF prev_line = 0 THEN cursor + 1 ELSE cursor

IsFirst == call.geom = <<>>

\* Fault seed: the row that ends a trajectory is not kept.
Dropped == 0

\* Fault seed: the row after the one read is kept.
RowAfter == cursor + 1

Kept == Line

\* One turn of the loop: the row is a point of the trajectory.
AddPoint ==
  /\ Reading
  /\ IsFirst \/ file[Line] = call.prev_id
  /\ cursor' = Advance
  /\ prev_line' = 0
  /\ call' = [call EXCEPT !.geom = Append(@, Line), !.prev_id = file[Line]]
  /\ UNCHANGED <<file, returned, resets, planned>>

\* One turn of the loop: the row is the first of the next trajectory.
ReadAhead ==
  /\ Reading
  /\ ~ IsFirst /\ file[Line] # call.prev_id
  /\ cursor' = Advance
  /\ prev_line' = Kept
  /\ call' = [call EXCEPT !.same = FALSE, !.trid = call.prev_id, !.prev_id = file[Line]]
  /\ UNCHANGED <<file, returned, resets, planned>>

\* Fault seed: the id of the row read last.
LastId == call.prev_id

TrajId == IF HasNext THEN call.trid ELSE call.prev_id

Return ==
  /\ call # Idle /\ ~ Reading
  /\ returned' = Append(returned, [id |-> TrajId, geom |-> call.geom])
  /\ call' = Idle
  /\ UNCHANGED <<file, cursor, prev_line, resets, planned>>

ResetCursor ==
  /\ call = Idle
  /\ resets < planned
  /\ cursor' = 1
  /\ returned' = <<>>
  /\ resets' = resets + 1
  /\ UNCHANGED <<file, prev_line, call, planned>>

Read == ReadNext \/ AddPoint \/ ReadAhead \/ Return

Next == Read \/ ResetCursor

Spec == Init /\ [][Next]_vars /\ WF_vars(Read)

-----------------------------------------------------------------------------
Rows == 1 .. Len(file)

TypeOK ==
  /\ file \in Seq(Nat)
  /\ cursor \in 1 .. Len(file) + 1
  /\ prev_line \in 0 .. Len(file)
  /\ call \in [geom : Seq(Rows), prev_id : Nat \cup {-1}, trid : Nat \cup {-1}, same : BOOLEAN]
  /\ returned \in Seq([id : Nat, geom : Seq(Rows)])
  /\ planned \in 0 .. MaxResets /\ resets \in 0 .. planned

\* The rows taken since the last reset, in the order they were taken.
Taken ==
  LET upTo[k \in 0 .. Len(returned)] ==
        IF k = 0 THEN <<>> ELSE upTo[k - 1] \o returned[k].geom
  IN  upTo[Len(returned)] \o call.geom

(***************************************************************************)
(* The rows of the file come in order, each of them once; only a row read  *)
(* ahead before a reset may come before the first.  When no trajectory is  *)
(* left, every row was returned but perhaps the last, and that only where  *)
(* it is a trajectory of its own.                                          *)
(***************************************************************************)
InOrder ==
  \E ahead \in {0, 1} :
    /\ ahead = 1 => resets > 0
    /\ \A k \in 1 .. Len(Taken) - ahead : Taken[k + ahead] = k

OnlyLastRowLost ==
  call = Idle /\ ~ HasNext /\ resets = 0 =>
    \/ Taken = [k \in Rows |-> k]
    \/ /\ Taken = [k \in 1 .. Len(file) - 1 |-> k]
       /\ Len(file) > 1 /\ file[Len(file)] # file[Len(file) - 1]

RowsInOrder == InOrder /\ OnlyLastRowLost

(***************************************************************************)
(* The trajectories returned do not mix ids, begin and end where the id    *)
(* changes, and are named by their points: all but one that is returned    *)
(* last of its file.                                                       *)
(***************************************************************************)
RunsAreWhole ==
  \A k \in 1 .. Len(returned) :
    LET geom == returned[k].geom IN
    /\ HasNext \/ k < Len(returned) => returned[k].id = file[geom[1]]
    /\ resets = 0 =>
         /\ \A j \in 1 .. Len(geom) : file[geom[j]] = file[geom[1]]
         /\ geom[1] > 1 => file[geom[1] - 1] # file[geom[1]]
         /\ geom[Len(geom)] < Len(file) => file[geom[Len(geom)] + 1] # file[geom[1]]

\* A file whose last trajectory has two points or more, or that is empty,
\* read by a caller that does not reset the cursor.
Promised ==
  /\ planned = 0
  /\ file # <<>> => Len(file) > 1 /\ file[Len(file)] = file[Len(file) - 1]

-----------------------------------------------------------------------------
\* has_next_trajectory says that no trajectory is left only when every row
\* was returned.
AllRowsReturned == call = Idle /\ ~ HasNext => prev_line = 0
=============================================================================
