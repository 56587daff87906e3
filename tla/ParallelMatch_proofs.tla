------------------------ MODULE ParallelMatch_proofs ------------------------
(***************************************************************************)
(* Proofs that the batch loop of match_gps_file writes one whole row for   *)
(* every trajectory, batch after batch, and counts the matched ones        *)
(* exactly, for any number of threads, trajectories and buffer.            *)
(*                                                                         *)
(* The invariant follows a trajectory by the statement its thread is at.   *)
(***************************************************************************)
EXTENDS ParallelMatch, FiniteSetTheorems, TLAPS

\* The statements before half a row, the row, the matched count and the
\* total of an iteration are behind it.
BeforeHalf == {"write", "writing"}
BeforeRow == BeforeHalf \cup {"written"}
BeforeMatched == BeforeRow \cup {"count", "counting", "adding"}
BeforeTotal == BeforeMatched \cup {"total", "storing"}

Fetched == {i \in Trajs : i <= LastFetched}

\* The trajectories whose iteration is past the labels.
Past(labels) ==
  {i \in Fetched \ waiting : \A t \in Threads : traj[t] = i => pc[t] \notin labels}

\* The batch being matched, of which there is at least one trajectory, and
\* by whom.
BatchFetched ==
  /\ batch = {i \in Trajs : Fetch * (batches - 1) < i /\ i <= LastFetched}
  /\ batches > 0 => Fetch * (batches - 1) < NumTrajs
  /\ ~ use_omp => \A t \in Threads : t # Master => Free(t)

\* What is in the file is what the iterations have written, row after row.
HalfWritten ==
  /\ \A t \in Threads : pc[t] = "written" =>
       Len(file) > 0 /\ Len(file) % 2 = 1 /\ file[Len(file)] = <<traj[t], 1>>
  /\ (\A t \in Threads : pc[t] # "written") => Len(file) % 2 = 0

EachOnce ==
  /\ \A k, l \in 1 .. Len(file) : file[k] = file[l] => k = l
  /\ \A k \in 1 .. Len(file) : file[k][2] = 1 => file[k][1] \in Past(BeforeHalf)
  /\ \A i \in Trajs : i \in Past(BeforeRow) <=> \E k \in 1 .. Len(file) : file[k] = <<i, 2>>

InBatches ==
  \A i, j \in Trajs : BatchOf(i) < BatchOf(j) =>
    \A l \in Row(j) : \E k \in Row(i) : k < l

\* The counters, and the values of them that threads are about to add to.
MatchedExact ==
  /\ traj_matched = Cardinality(matches \cap Past(BeforeMatched))
  /\ \A t \in Threads : pc[t] = "adding" => traj[t] \in matches /\ loaded[t] = traj_matched

Stored(n) ==
  /\ n <= Cardinality(Past(BeforeTotal))
  /\ n >= batches - 1
  /\ ~ use_omp => n = Cardinality(Past(BeforeTotal))

TotalWithin ==
  /\ Stored(total_trajs)
  /\ \A t \in Threads : pc[t] = "storing" => Stored(loaded[t])
  /\ (\E i \in batch : i \in Past(BeforeTotal)) => total_trajs >= batches

RowsInv == WholeRows /\ HalfWritten /\ EachOnce /\ InBatches

ParallelInv ==
  /\ TypeOK /\ BatchFetched
  /\ RowsInv
  /\ MatchedExact /\ TotalWithin

-----------------------------------------------------------------------------
LEMMA FetchPositive ==
  ASSUME use_omp \in BOOLEAN PROVE Fetch \in Nat \ {0}
BY ParallelAssumption DEF Fetch

LEMMA DivisionBounds ==
  ASSUME NEW a \in Nat, NEW f \in Nat \ {0}
  PROVE  /\ a \div f \in Nat
         /\ f * (a \div f) <= a
         /\ a < f * (a \div f) + f
OBVIOUS

LEMMA Multiples ==
  ASSUME NEW f \in Nat \ {0}, NEW a \in Int, NEW b \in Int
  PROVE  /\ f * a \in Int
         /\ f * (a + 1) = f * a + f
         /\ f * (a - 1) = f * a - f
         /\ a < b => f * a + f <= f * b
OBVIOUS

(* Trajectories of an earlier batch than one of the current batch are       *)
(* fetched and not of the current batch.                                    *)
LEMMA EarlierBatch ==
  ASSUME use_omp \in BOOLEAN, batches \in Nat,
         NEW i \in Trajs, NEW j \in Trajs,
         Fetch * (batches - 1) < j, j <= LastFetched, BatchOf(i) < BatchOf(j)
  PROVE  i <= Fetch * (batches - 1) /\ i <= LastFetched
<1> DEFINE a == (i - 1) \div Fetch
           b == (j - 1) \div Fetch
<1>1. Fetch \in Nat \ {0} /\ i - 1 \in Nat /\ j - 1 \in Nat
  BY FetchPositive DEF Trajs
<1>2. /\ a \in Nat /\ i - 1 < Fetch * a + Fetch
      /\ b \in Nat /\ Fetch * b <= j - 1
  BY <1>1, DivisionBounds
<1>3. a < b
  BY DEF BatchOf
<1> HIDE DEF a, b
<1>4. Fetch * a + Fetch <= Fetch * b
  BY <1>1, <1>2, <1>3, Multiples
<1>5. Fetch * b < Fetch * batches
  BY <1>1, <1>2 DEF LastFetched, Trajs
<1>6. b < batches
  <2>1. ~ (batches <= b)
    <3>1. batches = b \/ batches < b \/ b < batches
      BY <1>2
    <3>2. batches < b => Fetch * batches + Fetch <= Fetch * b
      BY <1>1, <1>2, Multiples
    <3>3. Fetch * batches \in Int /\ Fetch * b \in Int
      BY <1>1, <1>2, Multiples
    <3> QED
      BY <1>1, <1>2, <1>5, <3>1, <3>2, <3>3
  <2> QED
    BY <1>2, <2>1
<1>7. Fetch * b <= Fetch * (batches - 1)
  <2>1. b = batches - 1 \/ b < batches - 1
    BY <1>2, <1>6
  <2>2. b < batches - 1 => Fetch * b + Fetch <= Fetch * (batches - 1)
    BY <1>1, <1>2, Multiples
  <2>3. Fetch * b \in Int /\ Fetch * (batches - 1) \in Int
    BY <1>1, <1>2, Multiples
  <2> QED
    BY <1>1, <2>1, <2>2, <2>3
<1>8. /\ Fetch * a \in Int /\ Fetch * b \in Int /\ Fetch * batches \in Int
      /\ Fetch * (batches - 1) = Fetch * batches - Fetch
  BY <1>1, <1>2, Multiples
<1> QED
  BY <1>1, <1>2, <1>4, <1>7, <1>8 DEF LastFetched, Trajs

LEMMA NextBatch ==
  ASSUME TypeOK, ReadBatch
  PROVE  /\ LastFetched' = LastFetched + Fetch
         /\ LastFetched \in Int /\ Fetch \in Nat
         /\ Fetch' = Fetch /\ batches' = batches + 1
<1>1. use_omp \in BOOLEAN /\ batches \in Nat
  BY DEF TypeOK
<1>2. Fetch' = Fetch /\ batches' = batches + 1
  BY DEF ReadBatch, Fetch
<1>3. Fetch \in Nat \ {0}
  BY <1>1, FetchPositive
<1>4. Fetch * batches \in Int /\ Fetch * (batches + 1) = Fetch * batches + Fetch
  BY <1>1, <1>3, Multiples
<1> QED
  BY <1>2, <1>3, <1>4 DEF LastFetched

LEMMA TrajsFinite ==
  IsFiniteSet(Trajs) /\ Cardinality(Trajs) = NumTrajs
<1>1. NumTrajs \in Nat
  BY ParallelAssumption
<1> QED
  BY <1>1, FS_Interval DEF Trajs

(* The sets counted are sets of trajectories. *)
LEMMA PastCounts ==
  ASSUME NEW S \in SUBSET Trajs
  PROVE  IsFiniteSet(S) /\ Cardinality(S) \in 0 .. NumTrajs
<1>1. NumTrajs \in Nat
  BY ParallelAssumption
<1>2. IsFiniteSet(S) /\ Cardinality(S) <= NumTrajs
  BY TrajsFinite, FS_Subset
<1>3. Cardinality(S) \in Nat
  BY <1>2, FS_CardinalityType
<1> QED
  BY <1>1, <1>2, <1>3

LEMMA OneMore ==
  ASSUME NEW S \in SUBSET Trajs, NEW i \in Trajs, i \notin S
  PROVE  /\ S \cup {i} \in SUBSET Trajs
         /\ Cardinality(S \cup {i}) = Cardinality(S) + 1
         /\ Cardinality(S) + 1 \in 0 .. NumTrajs
<1>1. S \cup {i} \in SUBSET Trajs
  OBVIOUS
<1>2. IsFiniteSet(S)
  BY PastCounts
<1>3. Cardinality(S \cup {i}) = Cardinality(S) + 1
  BY <1>2, FS_AddElement
<1>4. Cardinality(S \cup {i}) \in 0 .. NumTrajs
  BY <1>1, PastCounts
<1> QED
  BY <1>1, <1>3, <1>4

-----------------------------------------------------------------------------
(* A thread goes on from one statement to the next: its trajectory passes   *)
(* the labels it leaves behind, and no other does.                          *)
LEMMA MovePast ==
  ASSUME TypeOK, BatchFetched, NEW t \in Threads, ~ Free(t), NEW label,
         pc' = [pc EXCEPT ![t] = label],
         UNCHANGED <<use_omp, batches, waiting, traj>>,
         NEW labels, "free" \notin labels
  PROVE  /\ Past(labels) \in SUBSET Trajs
         /\ traj[t] \in Trajs
         /\ pc[t] \in labels => traj[t] \notin Past(labels)
         /\ pc[t] \in labels /\ label \notin labels => Past(labels)' = Past(labels) \cup {traj[t]}
         /\ (pc[t] \in labels <=> label \in labels) => Past(labels)' = Past(labels)
<1>1. traj[t] \in batch \ waiting /\ batch \subseteq Trajs
  BY DEF TypeOK
<1>2. \A u \in Threads : u # t => pc'[u] = pc[u]
  BY DEF TypeOK
<1>3. pc'[t] = label
  BY DEF TypeOK
<1>4. \A u \in Threads : u # t /\ traj[u] = traj[t] => pc[u] = "free"
  BY DEF TypeOK, Free
<1>5. Fetched' = Fetched
  BY DEF Fetched, LastFetched, Fetch
<1>6. \A i \in Trajs : i # traj[t] => (i \in Past(labels)' <=> i \in Past(labels))
  BY <1>2, <1>5 DEF Past
<1>7. traj[t] \in Fetched /\ traj[t] \notin waiting /\ Fetched \subseteq Trajs
  BY <1>1 DEF BatchFetched, Fetched
<1>8. traj[t] \in Past(labels) <=> pc[t] \notin labels
  BY <1>4, <1>7 DEF Past
<1>9. traj[t] \in Past(labels)' <=> label \notin labels
  BY <1>2, <1>3, <1>4, <1>5, <1>7 DEF Past
<1>10. Past(labels) \in SUBSET Trajs /\ Past(labels)' \in SUBSET Trajs
  BY <1>5, <1>7 DEF Past
<1> QED
  BY <1>6, <1>7, <1>8, <1>9, <1>10

(* A trajectory taken is still before every statement.                      *)
LEMMA TakePast ==
  ASSUME TypeOK, BatchFetched, NEW t \in Threads, NEW i \in Trajs, Take(t, i),
         NEW labels, "free" \notin labels, "write" \in labels
  PROVE  Past(labels)' = Past(labels)
<1>1. Fetched' = Fetched
  BY DEF Fetched, LastFetched, Fetch, Take
<1>2. /\ pc[t] = "free" /\ i \in waiting /\ waiting' = waiting \ {i}
      /\ pc' = [pc EXCEPT ![t] = "write"] /\ traj' = [traj EXCEPT ![t] = i]
  BY DEF Take, Free, Goto
<1>3. pc'[t] = "write" /\ traj'[t] = i
  BY <1>2 DEF TypeOK
<1>4. \A u \in Threads : u # t => pc'[u] = pc[u] /\ traj'[u] = traj[u]
  BY <1>2 DEF TypeOK
<1>5. i \notin Past(labels) /\ i \notin Past(labels)'
  BY <1>2, <1>3 DEF Past
<1>6. \A j \in Trajs : j # i => (j \in Past(labels)' <=> j \in Past(labels))
  BY <1>1, <1>2, <1>3, <1>4 DEF Past
<1> QED
  BY <1>1, <1>5, <1>6 DEF Past, Fetched

(* All that was fetched is past all statements when a batch is read.        *)
LEMMA ReadPast ==
  ASSUME TypeOK, BatchFetched, ReadBatch, NEW labels, "free" \notin labels
  PROVE  Past(labels)' = Past(labels) /\ Past(labels) = Fetched
<1>1. waiting = {} /\ \A t \in Threads : pc[t] = "free"
  BY DEF ReadBatch, Barrier, Free
<1>2. Past(labels) = Fetched
  BY <1>1 DEF Past
<1>3. waiting' = {i \in Trajs : LastFetched < i /\ i <= LastFetched + Fetch}
  BY DEF ReadBatch
<1>4. LastFetched' = LastFetched + Fetch /\ LastFetched \in Int /\ Fetch \in Nat
  BY NextBatch
<1>5. Fetched' = {i \in Trajs : i <= LastFetched + Fetch}
  BY <1>4 DEF Fetched
<1>6. Fetched' \ waiting' = Fetched
  BY <1>3, <1>4, <1>5 DEF Fetched, Trajs
<1>7. \A t \in Threads : pc'[t] = "free"
  BY <1>1 DEF ReadBatch
<1>8. Past(labels)' = Fetched' \ waiting'
  BY <1>7 DEF Past
<1> QED
  BY <1>2, <1>6, <1>8

-----------------------------------------------------------------------------
LEMMA InitInv == Init => ParallelInv
<1> SUFFICES ASSUME Init PROVE ParallelInv
  OBVIOUS
<1> USE ParallelAssumption DEF Init
<1>1. TypeOK
  BY DEF TypeOK, Labels, InSection, Free
<1>2. LastFetched = 0 /\ Fetched = {} /\ Fetch * (batches - 1) \in Int
  BY FetchPositive, Multiples DEF LastFetched, Fetched, Trajs
<1>3. BatchFetched
  <2>1. {i \in Trajs : Fetch * (batches - 1) < i /\ i <= LastFetched} = {}
    BY <1>2 DEF Trajs
  <2> QED
    BY <1>2, <2>1 DEF BatchFetched, Free
<1>4. \A labels : Past(labels) = {}
  BY <1>2 DEF Past
<1>5. RowsInv
  BY <1>4 DEF RowsInv, WholeRows, HalfWritten, EachOnce, InBatches, Row
<1>6. Cardinality(matches \cap Past(BeforeMatched)) = 0 /\ Cardinality(Past(BeforeTotal)) = 0
  BY <1>4, FS_EmptySet
<1>7. MatchedExact /\ TotalWithin
  BY <1>6 DEF MatchedExact, TotalWithin, Stored
<1> QED
  BY <1>1, <1>3, <1>5, <1>7 DEF ParallelInv

-----------------------------------------------------------------------------
(* The statements move threads within the labels, take the lock, write half *)
(* a row or count; what they leave alone.                                   *)
LEMMA BatchStep ==
  ASSUME ParallelInv, [Next]_vars
  PROVE  BatchFetched'
<1>1. TypeOK /\ BatchFetched
  BY DEF ParallelInv
<1>2. CASE ReadBatch
  <2>1. /\ batches' = batches + 1 /\ UNCHANGED <<use_omp, pc>>
        /\ batch' = {i \in Trajs : LastFetched < i /\ i <= LastFetched + Fetch}
        /\ LastFetched < NumTrajs /\ Fetch' = Fetch
    BY <1>2 DEF ReadBatch, HasNext, Fetch
  <2>2. LastFetched' = LastFetched + Fetch
    BY <1>1, <1>2, NextBatch
  <2>3. Fetch' * (batches' - 1) = LastFetched
    BY <1>1, <2>1 DEF LastFetched, TypeOK
  <2> QED
    BY <1>1, <2>1, <2>2, <2>3 DEF BatchFetched, Free
<1>3. ASSUME NEW t \in Threads, NEW i \in Trajs, Take(t, i)
      PROVE  BatchFetched'
  BY <1>1, <1>3 DEF Take, BatchFetched, Free, Goto, LastFetched, Fetch, TypeOK
<1>4. ASSUME NEW t \in Threads, Enter(t) \/ WriteRow(t) \/ CountMatched(t) \/ CountTotal(t)
      PROVE  BatchFetched'
  <2>1. UNCHANGED <<use_omp, batch, batches>> /\ ~ Free(t) /\ (\A u \in Threads : u # t => pc'[u] = pc[u])
    BY <1>1, <1>4 DEF Enter, WriteRow, CountMatched, CountTotal, Goto, Free, TypeOK
  <2> QED
    BY <1>1, <2>1 DEF BatchFetched, Free, LastFetched, Fetch
<1>5. CASE UNCHANGED vars
  BY <1>1, <1>5 DEF vars, BatchFetched, Free, LastFetched, Fetch
<1> QED
  BY <1>2, <1>3, <1>4, <1>5 DEF Next, Step

-----------------------------------------------------------------------------
(* What a thread adds to a counter stays below the trajectories there are.  *)
LEMMA RoomForOne ==
  ASSUME ParallelInv, NEW t \in Threads
  PROVE  /\ pc[t] = "adding" => loaded[t] + 1 \in 0 .. NumTrajs
         /\ pc[t] = "storing" => loaded[t] + 1 \in 0 .. NumTrajs
<1>1. TypeOK /\ BatchFetched /\ MatchedExact /\ TotalWithin /\ NumTrajs \in Nat
  BY ParallelAssumption DEF ParallelInv
<1>2. ~ Free(t) => traj[t] \in Trajs
  BY <1>1 DEF TypeOK
<1>3. \A labels : Past(labels) \in SUBSET Trajs
  BY DEF Past, Fetched
<1>4. CASE pc[t] = "adding"
  <2>1. traj[t] \notin Past(BeforeMatched) /\ traj[t] \in Trajs
    BY <1>2, <1>4 DEF Past, BeforeMatched, Free
  <2>2. Cardinality(matches \cap Past(BeforeMatched)) + 1 \in 0 .. NumTrajs
    BY <1>3, <2>1, OneMore
  <2> QED
    BY <1>1, <1>4, <2>2 DEF MatchedExact
<1>5. CASE pc[t] = "storing"
  <2>1. traj[t] \notin Past(BeforeTotal) /\ traj[t] \in Trajs
    BY <1>2, <1>5 DEF Past, BeforeTotal, Free
  <2>2. Cardinality(Past(BeforeTotal)) + 1 \in 0 .. NumTrajs
    BY <1>3, <2>1, OneMore
  <2>3. loaded[t] <= Cardinality(Past(BeforeTotal)) /\ loaded[t] \in 0 .. NumTrajs
    BY <1>1, <1>5 DEF TotalWithin, Stored, TypeOK
  <2>4. Cardinality(Past(BeforeTotal)) \in Nat
    BY <1>3, PastCounts
  <2> QED
    BY <1>1, <2>2, <2>3, <2>4
<1> QED
  BY <1>4, <1>5

(* Where a thread goes on, the others stay and the lock is held by the one  *)
(* in a critical section.                                                   *)
LEMMA LockKept ==
  ASSUME TypeOK, NEW t \in Threads, NEW label \in Labels, ~ Free(t),
         pc' = [pc EXCEPT ![t] = label],
         UNCHANGED <<use_omp, matches, batch, batches, waiting, traj>>,
         \/ pc[t] \notin InSection /\ label \in InSection /\ lock = NoThread /\ lock' = t
         \/ pc[t] \in InSection /\ label \notin InSection /\ lock' = NoThread
         \/ (pc[t] \in InSection <=> label \in InSection) /\ lock' = lock
  PROVE  /\ use_omp' \in BOOLEAN /\ matches' \subseteq Trajs
         /\ batch' \subseteq Trajs /\ waiting' \subseteq batch' /\ batches' \in Nat
         /\ pc' \in [Threads -> Labels]
         /\ traj' \in [Threads -> Trajs \cup {0}]
         /\ lock' \in Threads \cup {NoThread}
         /\ \A u \in Threads : pc'[u] \in InSection <=> lock' = u
         /\ \A u \in Threads : ~ Free(u)' => traj'[u] \in batch' \ waiting'
         /\ \A u, v \in Threads : u # v /\ ~ Free(u)' /\ ~ Free(v)' => traj'[u] # traj'[v]
<1>1. pc'[t] = label /\ \A u \in Threads : u # t => pc'[u] = pc[u]
  BY DEF TypeOK
<1>2. \A u \in Threads : ~ Free(u)' => ~ Free(u)
  BY <1>1 DEF Free
<1>3. NoThread \notin Threads
  BY ParallelAssumption
<1>4. \A u \in Threads : pc'[u] \in InSection <=> lock' = u
  BY <1>1, <1>3 DEF TypeOK
<1>5. pc' \in [Threads -> Labels] /\ lock' \in Threads \cup {NoThread}
  BY DEF TypeOK
<1> QED
  BY <1>2, <1>4, <1>5 DEF TypeOK

LEMMA TypeStep ==
  ASSUME ParallelInv, [Next]_vars
  PROVE  TypeOK'
<1>1. TypeOK /\ BatchFetched
  BY DEF ParallelInv
<1>2. NoThread \notin Threads /\ NumTrajs \in Nat
  BY ParallelAssumption
<1>3. CASE ReadBatch
  <2>1. /\ batch' \subseteq Trajs /\ waiting' = batch' /\ batches' \in Nat
        /\ \A t \in Threads : Free(t) /\ Free(t)'
        /\ UNCHANGED <<use_omp, matches, pc, traj, lock, file, traj_matched, total_trajs, loaded>>
    BY <1>1, <1>3 DEF ReadBatch, Barrier, Free, TypeOK
  <2> QED
    BY <1>1, <2>1 DEF TypeOK
<1>4. ASSUME NEW t \in Threads, NEW i \in Trajs, Take(t, i)
      PROVE  TypeOK'
  <2>1. /\ pc' = [pc EXCEPT ![t] = "write"] /\ traj' = [traj EXCEPT ![t] = i]
        /\ i \in waiting /\ waiting' = waiting \ {i} /\ Free(t)
        /\ UNCHANGED <<use_omp, matches, batch, batches, lock, file, traj_matched, total_trajs, loaded>>
    BY <1>4 DEF Take, Goto
  <2>2. pc'[t] = "write" /\ traj'[t] = i
    BY <1>1, <2>1 DEF TypeOK
  <2>3. \A u \in Threads : u # t => pc'[u] = pc[u] /\ traj'[u] = traj[u]
    BY <1>1, <2>1 DEF TypeOK
  <2>4. pc' \in [Threads -> Labels] /\ traj' \in [Threads -> Trajs \cup {0}]
    BY <1>1, <2>1 DEF TypeOK, Labels
  <2>5. \A u \in Threads : pc'[u] \in InSection <=> lock' = u
    BY <1>1, <2>1, <2>2, <2>3 DEF TypeOK, InSection, Free
  <2>6. \A u \in Threads : ~ Free(u)' => traj'[u] \in batch' \ waiting'
    BY <1>1, <2>1, <2>2, <2>3 DEF TypeOK, Free
  <2>7. \A u, v \in Threads : u # v /\ ~ Free(u)' /\ ~ Free(v)' => traj'[u] # traj'[v]
    BY <1>1, <2>1, <2>2, <2>3 DEF TypeOK, Free
  <2> QED
    BY <1>1, <2>1, <2>4, <2>5, <2>6, <2>7 DEF TypeOK
<1>5. ASSUME NEW t \in Threads, Enter(t)
      PROVE  TypeOK'
  <2>1. PICK label \in {"writing", "counting"} : pc' = [pc EXCEPT ![t] = label]
    BY <1>5 DEF Enter, Goto
  <2>2. /\ label \in Labels /\ label \in InSection /\ ~ Free(t) /\ pc[t] \notin InSection
        /\ lock = NoThread /\ lock' = t
        /\ UNCHANGED <<use_omp, matches, batch, batches, waiting, traj, file, traj_matched, total_trajs, loaded>>
    BY <1>5 DEF Enter, Labels, InSection, Free, Unlocked
  <2> QED
    BY <1>1, <2>1, <2>2, LockKept DEF TypeOK
<1>6. ASSUME NEW t \in Threads, WriteRow(t)
      PROVE  TypeOK'
  <2>1. /\ UNCHANGED <<use_omp, matches, batch, batches, waiting, traj, traj_matched, total_trajs>>
        /\ UNCHANGED loaded /\ ~ Free(t)
    BY <1>6 DEF WriteRow, Free
  <2>2. file' \in Seq(Trajs \X {1, 2})
    <3>1. traj[t] \in Trajs
      BY <1>1, <2>1 DEF TypeOK
    <3>2. PICK half \in {1, 2} : file' = Append(file, <<traj[t], half>>)
      BY <1>6 DEF WriteRow
    <3>3. <<traj[t], half>> \in Trajs \X {1, 2}
      BY <3>1
    <3>4. file \in Seq(Trajs \X {1, 2})
      BY <1>1 DEF TypeOK
    <3> QED
      BY <3>2, <3>3, <3>4
  <2>3. CASE pc[t] = "writing"
    BY <1>1, <1>6, <2>1, <2>2, <2>3, LockKept DEF WriteRow, Goto, Labels, InSection, TypeOK
  <2>4. CASE pc[t] = "written"
    BY <1>1, <1>6, <2>1, <2>2, <2>4, LockKept DEF WriteRow, Goto, Labels, InSection, TypeOK, Released
  <2> QED
    BY <1>6, <2>3, <2>4 DEF WriteRow
<1>7. ASSUME NEW t \in Threads, CountMatched(t)
      PROVE  TypeOK'
  <2>1. UNCHANGED <<use_omp, matches, batch, batches, waiting, traj, file, total_trajs>> /\ ~ Free(t)
    BY <1>7 DEF CountMatched, Free
  <2>2. traj_matched' \in 0 .. NumTrajs /\ loaded' \in [Threads -> 0 .. NumTrajs]
    BY <1>1, <1>7, RoomForOne DEF CountMatched, TypeOK
  <2>3. PICK label \in {"adding", "total"} :
          /\ pc' = [pc EXCEPT ![t] = label]
          /\ label = "adding" => lock' = lock
          /\ label = "total" => lock' = NoThread
    BY <1>7 DEF CountMatched, Goto, Released
  <2>4. pc[t] \in InSection /\ label \in Labels
    BY <1>7 DEF CountMatched, InSection, Labels
  <2>5. label = "adding" => label \in InSection
    BY DEF InSection
  <2>6. label = "total" => label \notin InSection
    BY DEF InSection
  <2> QED
    BY <1>1, <2>1, <2>2, <2>3, <2>4, <2>5, <2>6, LockKept DEF TypeOK
<1>8. ASSUME NEW t \in Threads, CountTotal(t)
      PROVE  TypeOK'
  <2>1. UNCHANGED <<use_omp, matches, batch, batches, waiting, traj, lock, file, traj_matched>> /\ ~ Free(t)
    BY <1>8 DEF CountTotal, Free
  <2>2. total_trajs' \in 0 .. NumTrajs /\ loaded' \in [Threads -> 0 .. NumTrajs]
    BY <1>1, <1>8, RoomForOne DEF CountTotal, Increment, TypeOK
  <2>3. PICK label \in {"storing", "free"} : pc' = [pc EXCEPT ![t] = label]
    BY <1>8 DEF CountTotal, Goto
  <2>4. pc[t] \notin InSection /\ label \notin InSection /\ label \in Labels
    BY <1>8 DEF CountTotal, InSection, Labels
  <2> QED
    BY <1>1, <2>1, <2>2, <2>3, <2>4, LockKept DEF TypeOK
<1>9. CASE UNCHANGED vars
  BY <1>1, <1>9 DEF vars, TypeOK, Free
<1> QED
  BY <1>3, <1>4, <1>5, <1>6, <1>7, <1>8, <1>9 DEF Next, Step

-----------------------------------------------------------------------------
\* The steps of an iteration, by the labels they lead from and to.
Moves ==
  {<<"write", "writing">>, <<"writing", "written">>, <<"written", "count">>,
   <<"count", "counting">>, <<"counting", "adding">>, <<"counting", "total">>,
   <<"adding", "total">>, <<"total", "storing">>, <<"storing", "free">>}

GoesOn(t, label) ==
  /\ <<pc[t], label>> \in Moves
  /\ pc' = [pc EXCEPT ![t] = label]
  /\ pc'[t] = label /\ \A u \in Threads : u # t => pc'[u] = pc[u]
  /\ UNCHANGED <<use_omp, matches, batch, batches, waiting, traj>>

LEMMA StepLabels ==
  ASSUME TypeOK, NEW t \in Threads,
         Enter(t) \/ WriteRow(t) \/ CountMatched(t) \/ CountTotal(t)
  PROVE  ~ Free(t) /\ \E label \in Labels : GoesOn(t, label)
<1>1. \A label : pc' = [pc EXCEPT ![t] = label] =>
        pc'[t] = label /\ \A u \in Threads : u # t => pc'[u] = pc[u]
  BY DEF TypeOK
<1>2. ASSUME Enter(t) PROVE ~ Free(t) /\ \E label \in Labels : GoesOn(t, label)
  BY <1>1, <1>2 DEF Enter, Goto, Labels, GoesOn, Moves, Free
<1>3. ASSUME WriteRow(t) PROVE ~ Free(t) /\ \E label \in Labels : GoesOn(t, label)
  BY <1>1, <1>3 DEF WriteRow, Goto, Labels, GoesOn, Moves, Free
<1>4. ASSUME CountMatched(t) PROVE ~ Free(t) /\ \E label \in Labels : GoesOn(t, label)
  BY <1>1, <1>4 DEF CountMatched, Goto, Labels, GoesOn, Moves, Free
<1>5. ASSUME CountTotal(t) PROVE ~ Free(t) /\ \E label \in Labels : GoesOn(t, label)
  BY <1>1, <1>5 DEF CountTotal, Goto, Labels, GoesOn, Moves, Free
<1> QED
  BY <1>2, <1>3, <1>4, <1>5

LEMMA MatchedStep ==
  ASSUME ParallelInv, [Next]_vars
  PROVE  MatchedExact'
<1> DEFINE P == Past(BeforeMatched)
<1>1. TypeOK /\ BatchFetched /\ MatchedExact
  BY DEF ParallelInv
<1>2. "free" \notin BeforeMatched /\ "write" \in BeforeMatched
  BY DEF BeforeMatched, BeforeRow, BeforeHalf
<1>3. CASE ReadBatch
  <2>1. UNCHANGED <<matches, pc, traj, traj_matched, loaded>>
    BY <1>3 DEF ReadBatch
  <2>2. P' = P
    BY <1>1, <1>2, <1>3, ReadPast
  <2> QED
    BY <1>1, <2>1, <2>2 DEF MatchedExact
<1>4. ASSUME NEW t \in Threads, NEW i \in Trajs, Take(t, i)
      PROVE  MatchedExact'
  <2>1. UNCHANGED <<matches, traj_matched, loaded>>
    BY <1>4 DEF Take
  <2>2. \A u \in Threads : pc'[u] = "adding" => pc[u] = "adding" /\ traj'[u] = traj[u]
    BY <1>1, <1>4 DEF Take, Goto, TypeOK
  <2>3. P' = P
    BY <1>1, <1>2, <1>4, TakePast
  <2> QED
    BY <1>1, <2>1, <2>2, <2>3 DEF MatchedExact
<1>5. ASSUME NEW t \in Threads, Enter(t) \/ WriteRow(t) \/ CountMatched(t) \/ CountTotal(t)
      PROVE  MatchedExact'
  <2>1. PICK label \in Labels : GoesOn(t, label)
    BY <1>1, <1>5, StepLabels
  <2>2. ~ Free(t)
    BY <1>1, <1>5, StepLabels
  <2>3. /\ P \in SUBSET Trajs /\ traj[t] \in Trajs
        /\ pc[t] \in BeforeMatched => traj[t] \notin P
        /\ pc[t] \in BeforeMatched /\ label \notin BeforeMatched => P' = P \cup {traj[t]}
        /\ (pc[t] \in BeforeMatched <=> label \in BeforeMatched) => P' = P
    BY <1>1, <1>2, <2>1, <2>2, MovePast DEF GoesOn
  <2>4. CASE ~ CountMatched(t)
    <3>1. pc[t] \in {"write", "count", "writing", "written", "total", "storing"}
      BY <1>5, <2>4 DEF Enter, WriteRow, CountTotal
    <3>2. (pc[t] \in BeforeMatched <=> label \in BeforeMatched) /\ label # "adding"
      BY <2>1, <3>1 DEF GoesOn, Moves, BeforeMatched, BeforeRow, BeforeHalf
    <3>3. traj_matched' = traj_matched /\ \A u \in Threads : u # t => loaded'[u] = loaded[u]
      BY <1>1, <1>5, <2>4 DEF Enter, WriteRow, CountTotal, TypeOK
    <3>4. matches' \cap P' = matches \cap P
      BY <2>1, <2>3, <3>2 DEF GoesOn
    <3>5. \A u \in Threads : pc'[u] = "adding" =>
            pc[u] = "adding" /\ traj'[u] = traj[u] /\ loaded'[u] = loaded[u]
      BY <2>1, <3>2, <3>3 DEF GoesOn
    <3> QED
      BY <1>1, <2>1, <3>3, <3>4, <3>5 DEF MatchedExact, GoesOn
  <2>5. CASE CountMatched(t) /\ label = "adding"
    <3>1. /\ traj[t] \in matches /\ traj_matched' = traj_matched /\ pc[t] = "counting"
          /\ loaded' = [loaded EXCEPT ![t] = traj_matched]
      BY <1>1, <2>1, <2>5 DEF CountMatched, GoesOn, Goto, TypeOK
    <3>2. loaded'[t] = traj_matched /\ \A u \in Threads : u # t => loaded'[u] = loaded[u]
      BY <1>1, <3>1 DEF TypeOK
    <3>3. P' = P
      BY <2>3, <2>5, <3>1 DEF BeforeMatched
    <3> QED
      BY <1>1, <2>1, <3>1, <3>2, <3>3 DEF MatchedExact, GoesOn
  <2>6. CASE CountMatched(t) /\ pc[t] = "counting" /\ label = "total"
    <3>1. traj[t] \notin matches /\ UNCHANGED <<traj_matched, loaded>>
      BY <1>1, <2>1, <2>6 DEF CountMatched, GoesOn, Goto, TypeOK
    <3>2. P' = P \cup {traj[t]}
      BY <2>3, <2>6 DEF BeforeMatched, BeforeRow, BeforeHalf
    <3>3. matches' \cap P' = matches \cap P
      BY <2>1, <3>1, <3>2 DEF GoesOn
    <3> QED
      BY <1>1, <2>1, <2>6, <3>1, <3>3 DEF MatchedExact, GoesOn
  <2>7. CASE CountMatched(t) /\ pc[t] = "adding" /\ label = "total"
    <3>1. traj_matched' = loaded[t] + 1
      BY <2>7 DEF CountMatched
    <3>2. traj[t] \in matches /\ loaded[t] = traj_matched
      BY <1>1, <2>7 DEF MatchedExact
    <3>3. P' = P \cup {traj[t]} /\ traj[t] \notin P
      BY <2>3, <2>7 DEF BeforeMatched, BeforeRow, BeforeHalf
    <3>4. matches' \cap P' = (matches \cap P) \cup {traj[t]}
      BY <2>1, <3>2, <3>3 DEF GoesOn
    <3>5. Cardinality(matches' \cap P') = Cardinality(matches \cap P) + 1
      BY <2>3, <3>3, <3>4, OneMore
    <3>6. \A u \in Threads : pc'[u] # "adding"
      <4>1. \A u \in Threads : pc[u] = "adding" => u = t
        BY <1>1, <2>7 DEF TypeOK, InSection
      <4> QED
        BY <2>1, <2>7, <4>1 DEF GoesOn
    <3> QED
      BY <1>1, <3>1, <3>2, <3>5, <3>6 DEF MatchedExact
  <2> QED
    BY <2>1, <2>4, <2>5, <2>6, <2>7 DEF CountMatched, GoesOn, Moves
<1>6. CASE UNCHANGED vars
  BY <1>1, <1>6 DEF vars, MatchedExact, Past, Fetched, LastFetched, Fetch
<1> QED
  BY <1>3, <1>4, <1>5, <1>6 DEF Next, Step

(* A batch that was read has a trajectory.                                  *)
LEMMA BatchNotEmpty ==
  ASSUME TypeOK, BatchFetched, batches > 0
  PROVE  \E i \in batch : TRUE
<1>1. Fetch \in Nat \ {0} /\ NumTrajs \in Nat /\ batches \in Nat
  BY FetchPositive, ParallelAssumption DEF TypeOK
<1>2. Fetch * (batches - 1) \in Nat /\ Fetch * (batches - 1) = LastFetched - Fetch
  BY <1>1, Multiples DEF LastFetched
<1>3. LastFetched \in Int
  BY <1>1, Multiples DEF LastFetched
<1>4. Fetch * (batches - 1) + 1 \in batch
  BY <1>1, <1>2, <1>3 DEF BatchFetched, Trajs
<1> QED
  BY <1>4

LEMMA TotalStep ==
  ASSUME ParallelInv, [Next]_vars
  PROVE  TotalWithin'
<1> DEFINE P == Past(BeforeTotal)
<1>1. TypeOK /\ BatchFetched /\ TotalWithin
  BY DEF ParallelInv
<1>2. "free" \notin BeforeTotal /\ "write" \in BeforeTotal
  BY DEF BeforeTotal, BeforeMatched, BeforeRow, BeforeHalf
<1>3. batches \in Nat /\ total_trajs \in Nat
  BY <1>1 DEF TypeOK
<1>4. CASE ReadBatch
  <2>1. /\ UNCHANGED <<use_omp, pc, total_trajs>> /\ \A t \in Threads : pc[t] # "storing"
        /\ batch' = {i \in Trajs : LastFetched < i /\ i <= LastFetched + Fetch}
    BY <1>4 DEF ReadBatch, Barrier, Free
  <2>2. P' = P /\ P = Fetched
    BY <1>1, <1>2, <1>4, ReadPast
  <2>3. /\ LastFetched \in Int /\ Fetch \in Nat /\ batches' = batches + 1
        /\ LastFetched' = LastFetched + Fetch
    BY <1>1, <1>4, NextBatch
  <2>4. total_trajs >= batches
    <3>1. CASE batches = 0
      BY <1>3, <3>1
    <3>2. CASE batches > 0
      <4>1. \E i \in batch : i \in Fetched
        BY <1>1, <3>2, BatchNotEmpty DEF BatchFetched, Fetched
      <4> QED
        BY <1>1, <2>2, <4>1 DEF TotalWithin
    <3> QED
      BY <1>3, <3>1, <3>2
  <2>5. \A i \in batch' : i \notin P'
    BY <2>1, <2>2, <2>3 DEF Fetched, Trajs
  <2> QED
    BY <1>1, <1>3, <2>1, <2>2, <2>3, <2>4, <2>5 DEF TotalWithin, Stored
<1>5. ASSUME NEW t \in Threads, NEW i \in Trajs, Take(t, i)
      PROVE  TotalWithin'
  <2>1. UNCHANGED <<use_omp, batch, batches, total_trajs, loaded>>
    BY <1>5 DEF Take
  <2>2. \A u \in Threads : pc'[u] = "storing" => pc[u] = "storing"
    BY <1>1, <1>5 DEF Take, Goto, TypeOK
  <2>3. P' = P
    BY <1>1, <1>2, <1>5, TakePast
  <2> QED
    BY <1>1, <2>1, <2>2, <2>3 DEF TotalWithin, Stored
<1>6. ASSUME NEW t \in Threads, Enter(t) \/ WriteRow(t) \/ CountMatched(t) \/ CountTotal(t)
      PROVE  TotalWithin'
  <2>1. PICK label \in Labels : GoesOn(t, label)
    BY <1>1, <1>6, StepLabels
  <2>2. ~ Free(t)
    BY <1>1, <1>6, StepLabels
  <2>3. /\ P \in SUBSET Trajs /\ traj[t] \in Trajs
        /\ pc[t] \in BeforeTotal => traj[t] \notin P
        /\ pc[t] \in BeforeTotal /\ label \notin BeforeTotal => P' = P \cup {traj[t]}
        /\ (pc[t] \in BeforeTotal <=> label \in BeforeTotal) => P' = P
    BY <1>1, <1>2, <2>1, <2>2, MovePast DEF GoesOn
  <2>4. UNCHANGED <<use_omp, batch, batches>>
    BY <2>1 DEF GoesOn
  <2>5. CASE pc[t] # "storing"
    <3>1. P' = P
      BY <2>1, <2>3, <2>5 DEF GoesOn, Moves, BeforeTotal, BeforeMatched, BeforeRow, BeforeHalf
    <3>2. total_trajs' = total_trajs
      BY <1>6, <2>5 DEF Enter, WriteRow, CountMatched, CountTotal
    <3>3. \A u \in Threads : u # t => loaded'[u] = loaded[u]
      BY <1>1, <1>6 DEF Enter, WriteRow, CountMatched, CountTotal, TypeOK
    <3>4. label = "storing" => loaded'[t] = total_trajs
      <4>1. label = "storing" => pc[t] = "total"
        BY <2>1 DEF GoesOn, Moves
      <4> QED
        BY <1>1, <1>6, <4>1 DEF Enter, WriteRow, CountMatched, CountTotal, TypeOK
    <3>5. \A u \in Threads : pc'[u] = "storing" =>
            \/ pc[u] = "storing" /\ loaded'[u] = loaded[u]
            \/ loaded'[u] = total_trajs
      BY <2>1, <3>3, <3>4 DEF GoesOn
    <3> QED
      BY <1>1, <2>4, <3>1, <3>2, <3>5 DEF TotalWithin, Stored
  <2>6. CASE pc[t] = "storing"
    <3>1. label = "free" /\ total_trajs' = loaded[t] + 1 /\ UNCHANGED loaded
      BY <1>6, <2>1, <2>6 DEF Enter, WriteRow, CountMatched, CountTotal, Increment, GoesOn, Moves
    <3>2. P' = P \cup {traj[t]} /\ traj[t] \notin P
      BY <1>2, <2>3, <2>6, <3>1 DEF BeforeTotal
    <3>3. Cardinality(P') = Cardinality(P) + 1 /\ Cardinality(P) \in Nat
      BY <2>3, <3>2, OneMore, PastCounts
    <3>4. loaded[t] \in Int /\ Stored(loaded[t])
      BY <1>1, <2>6 DEF TotalWithin, TypeOK
    <3>5. \A u \in Threads : pc'[u] = "storing" => pc[u] = "storing" /\ u # t
      BY <2>1, <3>1 DEF GoesOn
    <3>6. ~ use_omp => \A u \in Threads : u # t => pc[u] = "free"
      BY <1>1, <2>6 DEF BatchFetched, Free
    <3>7. \A u \in Threads : pc'[u] = "storing" => use_omp /\ Stored(loaded[u]) /\ loaded[u] \in Int
      BY <1>1, <3>5, <3>6 DEF TotalWithin, TypeOK
    <3>8. Stored(total_trajs)'
      BY <1>3, <2>4, <3>1, <3>3, <3>4 DEF Stored
    <3>9. \A u \in Threads : pc'[u] = "storing" => Stored(loaded[u])'
      BY <2>4, <3>1, <3>3, <3>7 DEF Stored
    <3>10. total_trajs' >= batches'
      BY <1>3, <2>4, <3>1, <3>4 DEF Stored
    <3> QED
      BY <3>8, <3>9, <3>10 DEF TotalWithin
  <2> QED
    BY <2>5, <2>6
<1>7. CASE UNCHANGED vars
  BY <1>1, <1>7 DEF vars, TotalWithin, Stored, Past, Fetched, LastFetched, Fetch
<1> QED
  BY <1>4, <1>5, <1>6, <1>7 DEF Next, Step

-----------------------------------------------------------------------------
(* Steps that write nothing.                                                *)
LEMMA NothingWritten ==
  ASSUME RowsInv, UNCHANGED <<use_omp, file>>,
         Past(BeforeHalf)' = Past(BeforeHalf), Past(BeforeRow)' = Past(BeforeRow),
         \A t \in Threads : pc'[t] = "written" <=> pc[t] = "written",
         \A t \in Threads : pc[t] = "written" => traj'[t] = traj[t]
  PROVE  RowsInv'
<1>1. WholeRows' /\ InBatches'
  BY DEF RowsInv, WholeRows, InBatches, Row, BatchOf, Fetch
<1>2. HalfWritten'
  BY DEF RowsInv, HalfWritten
<1>3. EachOnce'
  BY DEF RowsInv, EachOnce
<1> QED
  BY <1>1, <1>2, <1>3 DEF RowsInv

(* The first half of a row comes when no other row is open.                 *)
LEMMA FirstHalf ==
  ASSUME ParallelInv, NEW t \in Threads, WriteRow(t), pc[t] = "writing"
  PROVE  RowsInv'
<1> DEFINE n == Len(file)
           i == traj[t]
<1>1. TypeOK /\ BatchFetched /\ RowsInv
  BY DEF ParallelInv
<1>2. /\ file' = Append(file, <<i, 1>>) /\ pc' = [pc EXCEPT ![t] = "written"]
      /\ UNCHANGED <<use_omp, batches, waiting, traj>> /\ ~ Free(t)
  BY DEF WriteRow, Goto, Free
<1>3. file \in Seq(Trajs \X {1, 2}) /\ i \in Trajs
  BY <1>1, <1>2 DEF TypeOK
<1>4. /\ n \in Nat /\ Len(file') = n + 1 /\ file'[n + 1] = <<i, 1>>
      /\ \A k \in 1 .. n : file'[k] = file[k] /\ file[k] \in Trajs \X {1, 2}
  BY <1>2, <1>3
<1>5. pc'[t] = "written" /\ \A u \in Threads : u # t => pc'[u] # "written" /\ pc[u] # "written"
  BY <1>1, <1>2 DEF TypeOK, InSection
<1>6. n % 2 = 0
  BY <1>1, <1>5 DEF RowsInv, HalfWritten
<1>7. /\ Past(BeforeHalf)' = Past(BeforeHalf) \cup {i} /\ i \notin Past(BeforeHalf)
      /\ Past(BeforeRow)' = Past(BeforeRow)
  <2>1. "free" \notin BeforeHalf /\ pc[t] \in BeforeHalf /\ "written" \notin BeforeHalf
    BY DEF BeforeHalf
  <2>2. "free" \notin BeforeRow /\ pc[t] \in BeforeRow /\ "written" \in BeforeRow
    BY DEF BeforeHalf, BeforeRow
  <2>3. Past(BeforeHalf)' = Past(BeforeHalf) \cup {i} /\ i \notin Past(BeforeHalf)
    BY <1>1, <1>2, <2>1, MovePast
  <2>4. Past(BeforeRow)' = Past(BeforeRow)
    BY <1>1, <1>2, <2>2, MovePast
  <2> QED
    BY <2>3, <2>4
<1> HIDE DEF n, i
<1>8. WholeRows'
  <2>1. \A k \in 1 .. n + 1 : k \in 1 .. n \/ k = n + 1
    BY <1>4
  <2>2. \A k \in 1 .. n : file'[k] = <<file'[k][1], IF k % 2 = 1 THEN 1 ELSE 2>>
                         /\ (k % 2 = 0 => file'[k][1] = file'[k - 1][1])
    <3>1. \A k \in 1 .. n : k % 2 = 0 => k - 1 \in 1 .. n
      BY <1>4
    <3> QED
      BY <1>1, <1>4, <3>1 DEF RowsInv, WholeRows, n
  <2>3. (n + 1) % 2 = 1
    BY <1>4, <1>6
  <2> QED
    BY <1>4, <2>1, <2>2, <2>3 DEF WholeRows
<1>9. HalfWritten'
  <2>1. (n + 1) % 2 = 1 /\ n + 1 > 0
    BY <1>4, <1>6
  <2> QED
    BY <1>2, <1>4, <1>5, <2>1 DEF HalfWritten, i
<1>10. EachOnce'
  <2>1. \A k \in 1 .. n : file[k] # <<i, 1>>
    BY <1>1, <1>7 DEF RowsInv, EachOnce, n
  <2>2. \A k, l \in 1 .. n + 1 : file'[k] = file'[l] => k = l
    BY <1>1, <1>4, <2>1 DEF RowsInv, EachOnce, n
  <2>3. \A k \in 1 .. n + 1 : file'[k][2] = 1 => file'[k][1] \in Past(BeforeHalf)'
    BY <1>1, <1>4, <1>7 DEF RowsInv, EachOnce, n
  <2>4. \A j \in Trajs : (\E k \in 1 .. n + 1 : file'[k] = <<j, 2>>) <=> (\E k \in 1 .. n : file[k] = <<j, 2>>)
    BY <1>4
  <2> QED
    BY <1>1, <1>4, <1>7, <2>2, <2>3, <2>4 DEF RowsInv, EachOnce, n
<1>11. InBatches'
  <2>1. \A j \in Trajs : Row(j)' = Row(j)
    BY <1>4 DEF Row, n
  <2> QED
    BY <1>1, <1>2, <2>1 DEF RowsInv, InBatches, BatchOf, Fetch
<1> QED
  BY <1>8, <1>9, <1>10, <1>11 DEF RowsInv

(* The second half closes the row, and the rows of the batches before are   *)
(* all there.                                                               *)
LEMMA SecondHalf ==
  ASSUME ParallelInv, NEW t \in Threads, WriteRow(t), pc[t] = "written"
  PROVE  RowsInv'
<1> DEFINE n == Len(file)
           i == traj[t]
<1>1. TypeOK /\ BatchFetched /\ RowsInv
  BY DEF ParallelInv
<1>2. /\ file' = Append(file, <<i, 2>>) /\ pc' = [pc EXCEPT ![t] = "count"]
      /\ UNCHANGED <<use_omp, batches, waiting, traj>> /\ ~ Free(t)
  BY DEF WriteRow, Goto, Free
<1>3. file \in Seq(Trajs \X {1, 2}) /\ i \in batch /\ i \in Trajs
  BY <1>1, <1>2 DEF TypeOK
<1>4. /\ n \in Nat /\ Len(file') = n + 1 /\ file'[n + 1] = <<i, 2>>
      /\ \A k \in 1 .. n : file'[k] = file[k] /\ file[k] \in Trajs \X {1, 2}
  BY <1>2, <1>3
<1>5. \A u \in Threads : pc'[u] # "written"
  BY <1>1, <1>2 DEF TypeOK, InSection
<1>6. n > 0 /\ n % 2 = 1 /\ file[n] = <<i, 1>>
  BY <1>1 DEF RowsInv, HalfWritten
<1>7. /\ Past(BeforeHalf)' = Past(BeforeHalf)
      /\ Past(BeforeRow)' = Past(BeforeRow) \cup {i} /\ i \notin Past(BeforeRow)
  <2>1. "free" \notin BeforeHalf /\ pc[t] \notin BeforeHalf /\ "count" \notin BeforeHalf
    BY DEF BeforeHalf
  <2>2. "free" \notin BeforeRow /\ pc[t] \in BeforeRow /\ "count" \notin BeforeRow
    BY DEF BeforeHalf, BeforeRow
  <2>3. Past(BeforeHalf)' = Past(BeforeHalf)
    BY <1>1, <1>2, <2>1, MovePast
  <2>4. Past(BeforeRow)' = Past(BeforeRow) \cup {i} /\ i \notin Past(BeforeRow)
    BY <1>1, <1>2, <2>2, MovePast
  <2> QED
    BY <2>3, <2>4
<1> HIDE DEF n, i
<1>8. WholeRows'
  <2>1. \A k \in 1 .. n + 1 : k \in 1 .. n \/ k = n + 1
    BY <1>4
  <2>2. \A k \in 1 .. n : file'[k] = <<file'[k][1], IF k % 2 = 1 THEN 1 ELSE 2>>
                         /\ (k % 2 = 0 => file'[k][1] = file'[k - 1][1])
    <3>1. \A k \in 1 .. n : k % 2 = 0 => k - 1 \in 1 .. n
      BY <1>4
    <3> QED
      BY <1>1, <1>4, <3>1 DEF RowsInv, WholeRows, n
  <2>3. (n + 1) % 2 = 0 /\ n \in 1 .. n /\ (n + 1) - 1 = n
    BY <1>4, <1>6
  <2> QED
    BY <1>4, <1>6, <2>1, <2>2, <2>3 DEF WholeRows
<1>9. HalfWritten'
  <2>1. (n + 1) % 2 = 0
    BY <1>4, <1>6
  <2> QED
    BY <1>4, <1>5, <2>1 DEF HalfWritten
<1>10. EachOnce'
  <2>1. \A k \in 1 .. n : file[k] # <<i, 2>>
    BY <1>1, <1>3, <1>7 DEF RowsInv, EachOnce, n
  <2>2. \A k, l \in 1 .. n + 1 : file'[k] = file'[l] => k = l
    BY <1>1, <1>4, <2>1 DEF RowsInv, EachOnce, n
  <2>3. \A k \in 1 .. n + 1 : file'[k][2] = 1 => file'[k][1] \in Past(BeforeHalf)'
    BY <1>1, <1>4, <1>7 DEF RowsInv, EachOnce, n
  <2>4. \A j \in Trajs :
          (\E k \in 1 .. n + 1 : file'[k] = <<j, 2>>) <=> j = i \/ \E k \in 1 .. n : file[k] = <<j, 2>>
    BY <1>4
  <2> QED
    BY <1>1, <1>4, <1>7, <2>2, <2>3, <2>4 DEF RowsInv, EachOnce, n
<1>11. InBatches'
  <2>1. \A j \in Trajs : Row(j) \subseteq Row(j)' /\ Row(j) \subseteq 1 .. n
    BY <1>4 DEF Row, n
  <2>2. \A j \in Trajs : \A l \in Row(j)' : l \in Row(j) \/ (l = n + 1 /\ j = i)
    BY <1>4 DEF Row, n
  <2>3. ASSUME NEW a \in Trajs, BatchOf(a) < BatchOf(i)
        PROVE  \E k \in Row(a) : k < n + 1
    <3>1. Fetch * (batches - 1) < i /\ i <= LastFetched
      BY <1>1, <1>3 DEF BatchFetched
    <3>2. a <= Fetch * (batches - 1) /\ a <= LastFetched
      BY <1>1, <1>3, <2>3, <3>1, EarlierBatch DEF TypeOK
    <3>3. a \notin batch
      <4>1. Fetch * (batches - 1) \in Int
        BY <1>1, FetchPositive, Multiples DEF TypeOK
      <4> QED
        BY <1>1, <3>2, <4>1 DEF BatchFetched, Trajs
    <3>4. a \in Past(BeforeRow)
      BY <1>1, <3>2, <3>3 DEF Past, Fetched, TypeOK, Free, BeforeRow, BeforeHalf
    <3>5. \E k \in 1 .. n : file[k] = <<a, 2>>
      BY <1>1, <3>4 DEF RowsInv, EachOnce, n
    <3> QED
      BY <1>4, <3>5 DEF Row, n
  <2>4. \A j \in Trajs : BatchOf(j)' = BatchOf(j)
    BY <1>2 DEF BatchOf, Fetch
  <2>5. ASSUME NEW a \in Trajs, NEW b \in Trajs, BatchOf(a) < BatchOf(b), NEW l \in Row(b)'
        PROVE  \E k \in Row(a)' : k < l
    <3>1. CASE l \in Row(b)
      BY <1>1, <2>1, <2>5, <3>1 DEF RowsInv, InBatches
    <3>2. CASE l = n + 1 /\ b = i
      BY <2>1, <2>3, <2>5, <3>2
    <3> QED
      BY <2>2, <3>1, <3>2
  <2> QED
    BY <2>4, <2>5 DEF InBatches
<1> QED
  BY <1>8, <1>9, <1>10, <1>11 DEF RowsInv

LEMMA RowsStep ==
  ASSUME ParallelInv, [Next]_vars
  PROVE  RowsInv'
<1>1. TypeOK /\ BatchFetched /\ RowsInv
  BY DEF ParallelInv
<1>2. /\ "free" \notin BeforeHalf /\ "write" \in BeforeHalf
      /\ "free" \notin BeforeRow /\ "write" \in BeforeRow
  BY DEF BeforeRow, BeforeHalf
<1>3. CASE ReadBatch
  <2>1. UNCHANGED <<use_omp, file, pc, traj>>
    BY <1>3 DEF ReadBatch
  <2>2. Past(BeforeHalf)' = Past(BeforeHalf) /\ Past(BeforeRow)' = Past(BeforeRow)
    BY <1>1, <1>2, <1>3, ReadPast
  <2> QED
    BY <1>1, <2>1, <2>2, NothingWritten
<1>4. ASSUME NEW t \in Threads, NEW i \in Trajs, Take(t, i)
      PROVE  RowsInv'
  <2>1. UNCHANGED <<use_omp, file>>
    BY <1>4 DEF Take
  <2>2. \A u \in Threads : /\ pc'[u] = "written" <=> pc[u] = "written"
                           /\ pc[u] = "written" => traj'[u] = traj[u]
    BY <1>1, <1>4 DEF Take, Goto, Free, TypeOK
  <2>3. Past(BeforeHalf)' = Past(BeforeHalf) /\ Past(BeforeRow)' = Past(BeforeRow)
    BY <1>1, <1>2, <1>4, TakePast
  <2> QED
    BY <1>1, <2>1, <2>2, <2>3, NothingWritten
<1>5. ASSUME NEW t \in Threads, WriteRow(t)
      PROVE  RowsInv'
  BY <1>5, FirstHalf, SecondHalf DEF WriteRow
<1>6. ASSUME NEW t \in Threads, Enter(t) \/ CountMatched(t) \/ CountTotal(t)
      PROVE  RowsInv'
  <2>1. PICK label \in Labels : GoesOn(t, label)
    BY <1>1, <1>6, StepLabels
  <2>2. ~ Free(t)
    BY <1>1, <1>6, StepLabels
  <2>3. pc[t] \notin {"writing", "written"} /\ UNCHANGED file
    BY <1>6 DEF Enter, CountMatched, CountTotal
  <2>4. /\ pc[t] \in BeforeHalf <=> label \in BeforeHalf
        /\ pc[t] \in BeforeRow <=> label \in BeforeRow
        /\ label # "written"
    BY <2>1, <2>3 DEF GoesOn, Moves, BeforeHalf, BeforeRow
  <2>5. Past(BeforeHalf)' = Past(BeforeHalf) /\ Past(BeforeRow)' = Past(BeforeRow)
    BY <1>1, <1>2, <2>1, <2>2, <2>4, MovePast DEF GoesOn
  <2>6. \A u \in Threads : pc'[u] = "written" <=> pc[u] = "written"
    BY <2>1, <2>3, <2>4 DEF GoesOn
  <2>7. UNCHANGED <<use_omp, traj>>
    BY <2>1 DEF GoesOn
  <2> QED
    BY <1>1, <2>3, <2>5, <2>6, <2>7, NothingWritten
<1>7. CASE UNCHANGED vars
  <2>1. UNCHANGED <<use_omp, file, pc, traj, waiting, batches>>
    BY <1>7 DEF vars
  <2>2. Past(BeforeHalf)' = Past(BeforeHalf) /\ Past(BeforeRow)' = Past(BeforeRow)
    BY <2>1 DEF Past, Fetched, LastFetched, Fetch
  <2> QED
    BY <1>1, <2>1, <2>2, NothingWritten
<1> QED
  BY <1>3, <1>4, <1>5, <1>6, <1>7 DEF Next, Step

-----------------------------------------------------------------------------
(* For any number of threads and trajectories, the lock is held by the one  *)
(* thread in a critical section, no trajectory is matched by two, and the   *)
(* file and the counters are what the iterations past each statement leave. *)
THEOREM Invariance == Spec => []ParallelInv
<1>1. ParallelInv /\ [Next]_vars => ParallelInv'
  BY TypeStep, BatchStep, RowsStep, MatchedStep, TotalStep DEF ParallelInv
<1> QED
  BY InitInv, <1>1, PTL DEF Spec

(* The type invariant, mutual exclusion and single iterations with it.      *)
THEOREM TypeCorrect == Spec => []TypeOK
<1>1. ParallelInv => TypeOK
  BY DEF ParallelInv
<1> QED
  BY <1>1, Invariance, PTL

(* When nothing is left to read or match, everything was matched.           *)
LEMMA AllPast ==
  ASSUME ParallelInv, Finished, NEW labels, "free" \notin labels
  PROVE  Past(labels) = Trajs
<1>1. waiting = {} /\ \A t \in Threads : pc[t] = "free"
  BY DEF Finished, Barrier, Free
<1>2. LastFetched \in Int /\ NumTrajs \in Nat
  BY FetchPositive, Multiples, ParallelAssumption DEF ParallelInv, TypeOK, LastFetched
<1>3. Fetched = Trajs
  BY <1>2 DEF Finished, HasNext, Fetched, Trajs
<1> QED
  BY <1>1, <1>3 DEF Past

(* Every trajectory gets one whole row, batch after batch: the rows of      *)
(* write_result are not torn or repeated, whatever order the threads run in. *)
THEOREM OneRowPerTrajectory == Spec => []OneRowEach
<1>1. ASSUME ParallelInv PROVE OneRowEach
  <2>1. WholeRows /\ EachOnce /\ InBatches
    BY <1>1 DEF ParallelInv, RowsInv
  <2>2. ASSUME NEW i \in Trajs
        PROVE  /\ Cardinality(Row(i)) <= 1
               /\ Row(i) # {} => Cardinality(Row(i)) = 1
    <3>1. \A k, l \in Row(i) : k = l
      BY <2>1 DEF EachOnce, Row
    <3>2. CASE Row(i) = {}
      BY <3>2, FS_EmptySet
    <3>3. CASE Row(i) # {}
      <4>1. PICK k \in Row(i) : Row(i) = {k}
        BY <3>1, <3>3
      <4> QED
        BY <4>1, FS_Singleton
    <3> QED
      BY <3>2, <3>3
  <2>3. ASSUME Finished, NEW i \in Trajs PROVE Row(i) # {}
    <3>1. i \in Past(BeforeRow)
      BY <1>1, <2>3, AllPast DEF BeforeRow, BeforeHalf
    <3> QED
      BY <2>1, <3>1 DEF EachOnce, Row
  <2> QED
    BY <2>1, <2>2, <2>3 DEF OneRowEach, InBatches
<1> QED
  BY <1>1, Invariance, PTL

(* The count of matched trajectories is exact.  The total, which threads    *)
(* add to without a lock, counts none twice and at least one of every batch, *)
(* and all of them where one thread matches alone.                          *)
THEOREM CountsWithinBounds == Spec => []CountsBounded
<1>1. ASSUME ParallelInv PROVE CountsBounded
  <2> DEFINE P == Past(BeforeTotal)
             W == {i \in Trajs : Row(i) # {}}
  <2>1. TypeOK /\ BatchFetched /\ MatchedExact /\ TotalWithin /\ EachOnce
    BY <1>1 DEF ParallelInv, RowsInv
  <2>2. /\ "free" \notin BeforeTotal /\ "free" \notin BeforeMatched
        /\ BeforeRow \subseteq BeforeTotal
    BY DEF BeforeTotal, BeforeMatched, BeforeRow, BeforeHalf
  <2>3. Finished => traj_matched = Cardinality(matches)
    <3>1. Finished => matches \cap Past(BeforeMatched) = matches
      BY <1>1, <2>1, <2>2, AllPast DEF TypeOK
    <3> QED
      BY <2>1, <3>1 DEF MatchedExact
  <2>4. total_trajs <= Cardinality(W)
    <3>1. P \in SUBSET W /\ W \in SUBSET Trajs
      BY <2>1, <2>2 DEF Past, Fetched, EachOnce, Row
    <3>2. IsFiniteSet(W) /\ Cardinality(W) \in Nat /\ Cardinality(P) \in Nat
      BY <3>1, PastCounts
    <3>3. Cardinality(P) <= Cardinality(W)
      BY <3>1, <3>2, FS_Subset
    <3>4. total_trajs <= Cardinality(P) /\ total_trajs \in Int
      BY <2>1 DEF TotalWithin, Stored, TypeOK
    <3> QED
      BY <3>2, <3>3, <3>4
  <2>5. Barrier => total_trajs >= batches
    <3>1. SUFFICES ASSUME Barrier, batches > 0 PROVE total_trajs >= batches
      BY <2>1 DEF TypeOK
    <3>2. waiting = {} /\ \A t \in Threads : pc[t] = "free"
      BY <3>1 DEF Barrier, Free
    <3>3. \E i \in batch : i \in Fetched
      BY <2>1, <3>1, BatchNotEmpty DEF BatchFetched, Fetched
    <3>4. P = Fetched
      BY <2>2, <3>2 DEF Past
    <3> QED
      BY <2>1, <3>3, <3>4 DEF TotalWithin
  <2>6. Finished /\ ~ use_omp => total_trajs = NumTrajs
    <3>1. Finished => P = Trajs
      BY <1>1, <2>2, AllPast
    <3> QED
      BY <2>1, <3>1, TrajsFinite DEF TotalWithin, Stored
  <2> QED
    BY <2>3, <2>4, <2>5, <2>6 DEF CountsBounded
<1> QED
  BY <1>1, Invariance, PTL
=============================================================================
