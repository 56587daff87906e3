---------------------------- MODULE ParallelMatch ----------------------------
(***************************************************************************)
(* match_gps_file with use_omp (mm/fmm/fmm_algorithm.cpp; fmm_app.cpp and  *)
(* the STMATCH and H3MM twins run the same loop): trajectories are read in *)
(* batches, the threads of a parallel for share the trajectories of a      *)
(* batch out, and each writes its row (io/mm_writer.cpp) and counts it.    *)
(*                                                                         *)
(* The two critical sections have no name, hence one lock.  The second     *)
(* covers the if statement it precedes and no more: the totals after it    *)
(* are read and stored by any thread at any time, which is a data race;    *)
(* an update may be lost.  Without use_omp one thread matches trajectory   *)
(* after trajectory, which is a batch of one.                              *)
(***************************************************************************)
EXTENDS Integers, Sequences, FiniteSets

CONSTANTS
  NumTrajs,   \* trajectories of the file
  Buffer,     \* buffer_trajectories_size
  Threads,    \* the threads of the parallel for
  Master,     \* the thread that calls match_gps_file
  NoThread    \* stands for no thread

ASSUME ParallelAssumption ==
  /\ NumTrajs \in Nat
  /\ Buffer \in Nat \ {0}
  /\ IsFiniteSet(Threads) /\ Master \in Threads /\ NoThread \notin Threads

Trajs == 1 .. NumTrajs

VARIABLES
  use_omp,
  matches,       \* the trajectories match_traj finds a complete path for
  batch,         \* the trajectories fetched
  batches,       \* how many batches were fetched
  waiting,       \* iterations of the parallel for no thread has taken
  pc,            \* what each thread is at
  traj,          \* the trajectory of its iteration
  lock,          \* the thread in a critical section
  file,          \* what was written: half a row is <<traj, half>>
  traj_matched,
  total_trajs,
  loaded         \* the counter each thread has read and not yet stored

vars == <<use_omp, matches, batch, batches, waiting, pc, traj, lock, file,
          traj_matched, total_trajs, loaded>>

Init ==
  /\ use_omp \in BOOLEAN
  /\ matches \in SUBSET Trajs
  /\ batch = {} /\ batches = 0 /\ waiting = {}
  /\ pc = [t \in Threads |-> "free"]
  /\ traj = [t \in Threads |-> 0]
  /\ lock = NoThread
  /\ file = <<>>
  /\ traj_matched = 0 /\ total_trajs = 0
  /\ loaded = [t \in Threads |-> 0]

Free(t) == pc[t] = "free"

\* Trajectories read at once.
Fetch == IF use_omp THEN Buffer ELSE 1

LastFetched == Fetch * batches
HasNext == LastFetched < NumTrajs

\* Fault seed: the parallel for does not wait for its last iterations.
AllTaken == waiting = {}

\* The barrier at the end of the parallel for.
Barrier == waiting = {} /\ \A t \in Threads : Free(t)

\* read_next_N_trajectories for the next batch, once the last is done.
ReadBatch ==
  /\ HasNext
  /\ Barrier
  /\ batch' = {i \in Trajs : LastFetched < i /\ i <= LastFetched + Fetch}
  /\ waiting' = batch'
  /\ batches' = batches + 1
  /\ UNCHANGED <<use_omp, matches, pc, traj, lock, file, traj_matched, total_trajs, loaded>>

Goto(t, label) == pc' = [pc EXCEPT ![t] = label]

\* A thread takes an iteration and calls match_traj, which shares nothing.
Take(t, i) ==
  /\ use_omp \/ t = Master
  /\ Free(t)
  /\ i \in waiting
  /\ waiting' = waiting \ {i}
  /\ traj' = [traj EXCEPT ![t] = i]
  /\ Goto(t, "write")
  /\ UNCHANGED <<use_omp, matches, batch, batches, lock, file, traj_matched, total_trajs, loaded>>

-----------------------------------------------------------------------------
\* Fault seed: a critical section anyone may enter.
Anyone == TRUE

Unlocked == lock = NoThread

\* Fault seed: the lock stays with its holder.
StillHeld == lock

Released == NoThread

Enter(t) ==
  /\ pc[t] \in {"write", "count"}
  /\ Unlocked
  /\ lock' = t
  /\ Goto(t, IF pc[t] = "write" THEN "writing" ELSE "counting")
  /\ UNCHANGED <<use_omp, matches, batch, batches, waiting, traj, file, traj_matched, total_trajs, loaded>>

\* m_fstream << buf.rdbuf(), of which others may see a part.
WriteRow(t) ==
  /\ \/ /\ pc[t] = "writing"
        /\ file' = Append(file, <<traj[t], 1>>)
        /\ Goto(t, "written")
        /\ UNCHANGED lock
     \/ /\ pc[t] = "written"
        /\ file' = Append(file, <<traj[t], 2>>)
        /\ Goto(t, "count")
        /\ lock' = Released
  /\ UNCHANGED <<use_omp, matches, batch, batches, waiting, traj, traj_matched, total_trajs, loaded>>

\* if (!result.cpath.empty()) traj_matched += 1
CountMatched(t) ==
  /\ \/ /\ pc[t] = "counting" /\ traj[t] \in matches
        /\ loaded' = [loaded EXCEPT ![t] = traj_matched]
        /\ Goto(t, "adding")
        /\ UNCHANGED <<lock, traj_matched>>
     \/ /\ pc[t] = "counting" /\ traj[t] \notin matches
        /\ Goto(t, "total")
        /\ lock' = Released
        /\ UNCHANGED <<loaded, traj_matched>>
     \/ /\ pc[t] = "adding"
        /\ traj_matched' = loaded[t] + 1
        /\ Goto(t, "total")
        /\ lock' = Released
        /\ UNCHANGED loaded
  /\ UNCHANGED <<use_omp, matches, batch, batches, waiting, traj, file, total_trajs>>

\* Fault seed: what is stored is what was read.
Same(n) == n

Increment(n) == n + 1

\* total_trajs += 1, outside of the critical section
CountTotal(t) ==
  /\ \/ /\ pc[t] = "total"
        /\ loaded' = [loaded EXCEPT ![t] = total_trajs]
        /\ Goto(t, "storing")
        /\ UNCHANGED total_trajs
     \/ /\ pc[t] = "storing"
        /\ total_trajs' = Increment(loaded[t])
        /\ Goto(t, "free")
        /\ UNCHANGED loaded
  /\ UNCHANGED <<use_omp, matches, batch, batches, waiting, traj, lock, file, traj_matched>>

Step(t) ==
  \/ \E i \in Trajs : Take(t, i)
  \/ Enter(t) \/ WriteRow(t) \/ CountMatched(t) \/ CountTotal(t)

\* The report is returned.
Finished == ~ HasNext /\ Barrier

Next == ReadBatch \/ \E t \in Threads : Step(t)

Spec ==
  /\ Init /\ [][Next]_vars
  /\ WF_vars(ReadBatch) /\ \A t \in Threads : WF_vars(Step(t))

-----------------------------------------------------------------------------
Labels == {"free", "write", "writing", "written", "count", "counting", "adding",
           "total", "storing"}

InSection == {"writing", "written", "counting", "adding"}

(***************************************************************************)
(* The type invariant, with what the critical sections rest on: the lock   *)
(* is held by the one thread inside, and no iteration is taken twice.      *)
(***************************************************************************)
TypeOK ==
  /\ use_omp \in BOOLEAN /\ matches \subseteq Trajs
  /\ batch \subseteq Trajs /\ waiting \subseteq batch /\ batches \in Nat
  /\ pc \in [Threads -> Labels]
  /\ traj \in [Threads -> Trajs \cup {0}]
  /\ lock \in Threads \cup {NoThread}
  /\ file \in Seq(Trajs \X {1, 2})
  /\ traj_matched \in 0 .. NumTrajs /\ total_trajs \in 0 .. NumTrajs
  /\ loaded \in [Threads -> 0 .. NumTrajs]
  /\ \A t \in Threads : pc[t] \in InSection <=> lock = t
  /\ \A t \in Threads : ~ Free(t) => traj[t] \in batch \ waiting
  /\ \A t, u \in Threads : t # u /\ ~ Free(t) /\ ~ Free(u) => traj[t] # traj[u]

\* Whole rows: the halves of a row are never apart in the file.
WholeRows ==
  \A k \in 1 .. Len(file) :
    file[k] = <<file[k][1], IF k % 2 = 1 THEN 1 ELSE 2>>
    /\ (k % 2 = 0 => file[k][1] = file[k - 1][1])

\* Rows written, and the batch a trajectory belongs to.
Row(i) == {k \in 1 .. Len(file) : file[k] = <<i, 2>>}
BatchOf(i) == (i - 1) \div Fetch

(***************************************************************************)
(* The rows in the file are whole, whatever order the threads write in.    *)
(* When the report is returned there is one for every trajectory, and none *)
(* for a batch before all of the batch before it.                          *)
(***************************************************************************)
OneRowEach ==
  /\ WholeRows
  /\ \A i \in Trajs : Cardinality(Row(i)) <= 1
  /\ Finished => \A i \in Trajs : Cardinality(Row(i)) = 1
  /\ \A i, j \in Trajs : BatchOf(i) < BatchOf(j) =>
       \A l \in Row(j) : \E k \in Row(i) : k < l

\* The trajectories matched are counted exactly.  The total, of which updates
\* are lost, counts no trajectory twice and at least one of every batch, and
\* without use_omp all of the file.
CountsBounded ==
  /\ Finished => traj_matched = Cardinality(matches)
  /\ total_trajs <= Cardinality({i \in Trajs : Row(i) # {}})
  /\ Barrier => total_trajs >= batches
  /\ Finished /\ ~ use_omp => total_trajs = NumTrajs

\* Every file is matched to its end.
Terminates == <> Finished

-----------------------------------------------------------------------------
\* The total reported is the number of trajectories read.
TotalCounted == Finished => total_trajs = NumTrajs
=============================================================================
