-------------------------- MODULE MatchJob_proofs --------------------------
(***************************************************************************)
(* Proofs about a job from its options to its result file, for all jobs    *)
(* and files.                                                              *)
(*                                                                         *)
(* CSVPointReader returns whole runs of rows under their ids whatever the  *)
(* resets (ReaderInv), takes the rows in their order (TakenInv), and reads *)
(* a promised file as TrajectoryRuns says.  What a stage of the job has    *)
(* passed (ControlInv, AcceptedInv), the batch it got (RowsInv) and which  *)
(* trajectories were matched (OrderInv: all of the batches before the one  *)
(* at hand, and those of it that no longer wait) bound what stands in the  *)
(* result file (OutputInv): a line for every trajectory matched, made of   *)
(* that trajectory.  The rest is about the lines a match can have, and     *)
(* about the two loaders of the configuration.                             *)
(***************************************************************************)
EXTENDS MatchJob, LeastNumber, TLAPS

\* The last row of the trajectories returned.
LastReturned ==
  IF returned = <<>> THEN 0
  ELSE returned[Len(returned)].geom[Len(returned[Len(returned)].geom)]

Points == Len(call.geom)

\* A call is at its start, adds points of one id, or has read ahead.
AtStart == call = Entered /\ HasNext
Adding ==
  /\ call.same /\ Points > 0 /\ prev_line = 0
  /\ call.prev_id = file[call.geom[1]]
HasReadAhead ==
  /\ ~ call.same /\ Points > 0 /\ prev_line # 0
  /\ call.trid = file[call.geom[1]] /\ call.prev_id = file[prev_line]

CallInv == call = Idle \/ AtStart \/ Adding \/ HasReadAhead

\* Without a reset, the call goes on where the trajectories returned end, and
\* whatever it has read ahead follows its points.
GoesOn ==
  /\ prev_line # 0 => cursor = prev_line + 1
  /\ Line = LastReturned + Points + 1
  /\ \A k \in 1 .. Points : call.geom[k] = LastReturned + k /\ file[call.geom[k]] = file[call.geom[1]]
  /\ LastReturned \in 0 .. Len(file)
  /\ LastReturned > 0 /\ LastReturned < Len(file) => file[LastReturned + 1] # file[LastReturned]
  /\ call # Idle /\ ~ call.same => file[prev_line] # file[call.geom[1]]

IsWhole(geom) ==
  /\ \A j \in 1 .. Len(geom) : file[geom[j]] = file[geom[1]]
  /\ geom[1] > 1 => file[geom[1] - 1] # file[geom[1]]
  /\ geom[Len(geom)] < Len(file) => file[geom[Len(geom)] + 1] # file[geom[1]]

ReturnedInv ==
  \A k \in 1 .. Len(returned) :
    /\ returned[k].geom # <<>>
    /\ k < Len(returned) \/ HasNext \/ call # Idle => returned[k].id = file[returned[k].geom[1]]
    /\ resets = 0 => IsWhole(returned[k].geom)

ReaderInv ==
  /\ TypeOK
  /\ CallInv
  /\ resets = 0 => GoesOn
  /\ ReturnedInv

-----------------------------------------------------------------------------
LEMMA InitInv == Init => ReaderInv
<1> SUFFICES ASSUME Init PROVE ReaderInv
  OBVIOUS
<1>1. file \in Seq(Nat) /\ Len(file) \in Nat
  BY ReaderAssumption DEF Init
<1>2. TypeOK
  BY <1>1, ReaderAssumption DEF Init, TypeOK, Idle, Rows
<1>3. GoesOn
  BY <1>1 DEF Init, GoesOn, LastReturned, Points, Line, Idle
<1> QED
  BY <1>2, <1>3 DEF Init, ReaderInv, CallInv, ReturnedInv

(* What the types say of the row at hand.                                   *)
LEMMA RowAtHand ==
  ASSUME TypeOK
  PROVE  /\ file \in Seq(Nat) /\ Len(file) \in Nat
         /\ cursor \in Nat \ {0} /\ prev_line \in Nat
         /\ call.geom \in Seq(Rows) /\ Points \in Nat
         /\ \A r \in Rows : file[r] \in Nat
         /\ \A k \in 1 .. Points : call.geom[k] \in Rows
         /\ HasNext => /\ cursor \in Rows /\ Line \in Rows
                       /\ Advance \in 1 .. Len(file) + 1
<1>1. file \in Seq(Nat) /\ Len(file) \in Nat /\ call.geom \in Seq(Rows)
  BY DEF TypeOK
<1>2. cursor \in 1 .. Len(file) + 1 /\ prev_line \in 0 .. Len(file)
  BY DEF TypeOK
<1>3. \A r \in Rows : file[r] \in Nat
  BY <1>1 DEF Rows
<1>4. Points \in Nat /\ \A k \in 1 .. Points : call.geom[k] \in Rows
  BY <1>1 DEF Points
<1> QED
  BY <1>1, <1>2, <1>3, <1>4 DEF HasNext, Rows, Line, Advance

(* A call that is idle has no points and is not in its loop; one that has   *)
(* just begun has none either.                                              *)
LEMMA IdleCall ==
  /\ Idle.geom = <<>> /\ ~ Idle.same
  /\ Entered.geom = <<>> /\ Entered.same
BY DEF Idle, Entered

(* A call that adds a point.                                                *)
LEMMA CallAdds ==
  ASSUME TypeOK, NEW line \in Rows, NEW id \in Nat,
         call' = [call EXCEPT !.geom = Append(@, line), !.prev_id = id]
  PROVE  /\ call' \in [geom : Seq(Rows), prev_id : Nat \cup {-1}, trid : Nat \cup {-1}, same : BOOLEAN]
         /\ call'.geom = Append(call.geom, line) /\ call'.prev_id = id /\ call'.same = call.same
<1>1. call \in [geom : Seq(Rows), prev_id : Nat \cup {-1}, trid : Nat \cup {-1}, same : BOOLEAN]
  BY DEF TypeOK
<1> HIDE DEF Rows
<1>2. Append(call.geom, line) \in Seq(Rows)
  BY <1>1
<1> QED
  BY <1>1, <1>2

(* A call that has read ahead.                                              *)
LEMMA CallEnds ==
  ASSUME TypeOK, NEW id \in Nat, NEW last \in Nat,
         call' = [call EXCEPT !.same = FALSE, !.trid = last, !.prev_id = id]
  PROVE  /\ call' \in [geom : Seq(Rows), prev_id : Nat \cup {-1}, trid : Nat \cup {-1}, same : BOOLEAN]
         /\ call'.geom = call.geom /\ call'.prev_id = id /\ call'.trid = last /\ ~ call'.same
BY DEF TypeOK

LEMMA BeginStep ==
  ASSUME ReaderInv, ReadNext
  PROVE  ReaderInv'
<1>1. /\ call = Idle /\ HasNext /\ call' = Entered
      /\ UNCHANGED <<file, cursor, prev_line, returned, resets, planned>>
  BY DEF ReadNext
<1>2. TypeOK /\ ReturnedInv /\ (resets = 0 => GoesOn)
  BY DEF ReaderInv
<1>3. TypeOK'
  BY <1>1, <1>2 DEF TypeOK, Entered, Idle, Rows
<1>4. CallInv'
  BY <1>1 DEF CallInv, AtStart, HasNext, Entered, Idle
<1>5. Points' = 0 /\ Points = 0
  BY <1>1 DEF Points, Entered, Idle
<1>6. resets = 0 => GoesOn'
  BY <1>1, <1>2, <1>5 DEF GoesOn, LastReturned, Line, Entered, Idle
<1>7. ReturnedInv'
  BY <1>1, <1>2 DEF ReturnedInv, HasNext, IsWhole
<1> QED
  BY <1>1, <1>3, <1>4, <1>6, <1>7 DEF ReaderInv

LEMMA AddStep ==
  ASSUME ReaderInv, AddPoint
  PROVE  ReaderInv'
<1> DEFINE n == Points
<1>1. /\ call.same /\ HasNext
      /\ call.geom = <<>> \/ file[Line] = call.prev_id
      /\ cursor' = Advance /\ prev_line' = 0
      /\ call' = [call EXCEPT !.geom = Append(@, Line), !.prev_id = file[Line]]
      /\ UNCHANGED <<file, returned, resets, planned>>
  BY DEF AddPoint, Reading, IsFirst
<1>2. TypeOK /\ ReturnedInv /\ CallInv /\ (resets = 0 => GoesOn)
  BY DEF ReaderInv
<1>3. /\ file \in Seq(Nat) /\ Len(file) \in Nat /\ n \in Nat /\ call.geom \in Seq(Rows)
      /\ Line \in Rows /\ file[Line] \in Nat /\ cursor \in Nat /\ prev_line \in Nat
      /\ Advance \in 1 .. Len(file) + 1
  BY <1>1, <1>2, RowAtHand
<1>4. Rows = 1 .. Len(file) /\ Rows' = Rows
  BY <1>1 DEF Rows
<1>5. /\ call'.geom = Append(call.geom, Line) /\ call'.prev_id = file[Line]
      /\ call'.same /\ call' # Idle /\ call # Idle
      /\ call' \in [geom : Seq(Rows), prev_id : Nat \cup {-1}, trid : Nat \cup {-1}, same : BOOLEAN]
  BY <1>1, <1>2, <1>3, CallAdds, IdleCall
<1>6. /\ Points' = n + 1 /\ call'.geom \in Seq(Rows)
      /\ call'.geom[n + 1] = Line /\ \A k \in 1 .. n : call'.geom[k] = call.geom[k]
  BY <1>3, <1>5 DEF Points
<1>7. TypeOK'
  BY <1>1, <1>2, <1>3, <1>4, <1>5 DEF TypeOK
<1>8. file[Line] = file[call'.geom[1]]
  <2>1. CASE n = 0
    BY <1>6, <2>1
  <2>2. CASE n > 0
    <3>1. Adding
      BY <1>1, <1>2, <1>5, <2>2 DEF CallInv, AtStart, HasReadAhead, Entered, Idle, Points
    <3>2. call'.geom[1] = call.geom[1]
      BY <1>3, <1>6, <2>2
    <3>3. call.geom # <<>>
      BY <2>2 DEF Points
    <3> QED
      BY <1>1, <3>1, <3>2, <3>3 DEF Adding
  <2> QED
    BY <1>3, <2>1, <2>2
<1>9. CallInv'
  <2>1. Points' > 0
    BY <1>3, <1>6
  <2> QED
    BY <1>1, <1>5, <1>8, <2>1 DEF CallInv, Adding
<1>10. ASSUME resets = 0 PROVE GoesOn'
  <2>1. GoesOn
    BY <1>2, <1>10
  <2>2. LastReturned' = LastReturned /\ LastReturned \in 0 .. Len(file)
    BY <1>1, <2>1 DEF LastReturned, GoesOn
  <2>3. Line = LastReturned + n + 1 /\ Line' = Line + 1
    BY <1>1, <1>3, <2>1 DEF GoesOn, Line, Advance
  <2>4. \A k \in 1 .. n + 1 : call'.geom[k] = LastReturned + k
    <3>1. \A k \in 1 .. n + 1 : k \in 1 .. n \/ k = n + 1
      BY <1>3
    <3>2. \A k \in 1 .. n : call.geom[k] = LastReturned + k
      BY <2>1 DEF GoesOn
    <3>3. call'.geom[n + 1] = LastReturned + (n + 1)
      BY <1>3, <1>6, <2>2, <2>3
    <3> QED
      BY <1>6, <3>1, <3>2, <3>3
  <2>5. \A k \in 1 .. n + 1 : file[call'.geom[k]] = file[call'.geom[1]]
    <3>1. \A k \in 1 .. n + 1 : k \in 1 .. n \/ k = n + 1
      BY <1>3
    <3>2. \A k \in 1 .. n : 1 \in 1 .. n
      BY <1>3
    <3> QED
      BY <1>6, <1>8, <2>1, <3>1, <3>2 DEF GoesOn
  <2>6. Line' = LastReturned' + Points' + 1
    BY <1>3, <1>6, <2>2, <2>3
  <2>7. LastReturned > 0 /\ LastReturned < Len(file) => file[LastReturned + 1] # file[LastReturned]
    BY <2>1 DEF GoesOn
  <2> QED
    BY <1>1, <1>5, <1>6, <2>2, <2>4, <2>5, <2>6, <2>7 DEF GoesOn
<1>11. ReturnedInv'
  BY <1>1, <1>2, <1>5 DEF ReturnedInv, IsWhole
<1> QED
  BY <1>1, <1>7, <1>9, <1>10, <1>11 DEF ReaderInv

LEMMA AheadStep ==
  ASSUME ReaderInv, ReadAhead
  PROVE  ReaderInv'
<1> DEFINE n == Points
<1>1. /\ call.same /\ HasNext
      /\ call.geom # <<>> /\ file[Line] # call.prev_id
      /\ cursor' = Advance /\ prev_line' = Line
      /\ call' = [call EXCEPT !.same = FALSE, !.trid = call.prev_id, !.prev_id = file[Line]]
      /\ UNCHANGED <<file, returned, resets, planned>>
  BY DEF ReadAhead, Reading, IsFirst, Kept
<1>2. TypeOK /\ ReturnedInv /\ CallInv /\ (resets = 0 => GoesOn)
  BY DEF ReaderInv
<1>3. /\ file \in Seq(Nat) /\ Len(file) \in Nat /\ n \in Nat /\ call.geom \in Seq(Rows)
      /\ Line \in Rows /\ file[Line] \in Nat /\ cursor \in Nat /\ prev_line \in Nat
      /\ Advance \in 1 .. Len(file) + 1
  BY <1>1, <1>2, RowAtHand
<1>4. Rows = 1 .. Len(file) /\ Rows' = Rows
  BY <1>1 DEF Rows
<1>5. Adding
  BY <1>1, <1>2, IdleCall DEF CallInv, AtStart, HasReadAhead
<1>6. n > 0 /\ prev_line = 0 /\ call.prev_id = file[call.geom[1]] /\ Line = cursor
  BY <1>5 DEF Adding, Line
<1>7. call.prev_id \in Nat
  <2>1. call.geom[1] \in Rows
    BY <1>2, <1>6, RowAtHand
  <2> QED
    BY <1>2, <1>6, <2>1, RowAtHand
<1>8. /\ call'.geom = call.geom /\ call'.prev_id = file[Line] /\ call'.trid = call.prev_id
      /\ ~ call'.same
      /\ call' \in [geom : Seq(Rows), prev_id : Nat \cup {-1}, trid : Nat \cup {-1}, same : BOOLEAN]
  BY <1>1, <1>2, <1>3, <1>7, CallEnds
<1>9. call # Idle /\ call' # Idle /\ Points' = n
  BY <1>1, <1>8, IdleCall DEF Points
<1>10. TypeOK'
  BY <1>1, <1>2, <1>3, <1>4, <1>8 DEF TypeOK
<1>11. CallInv'
  BY <1>1, <1>3, <1>4, <1>6, <1>8, <1>9 DEF CallInv, HasReadAhead
<1>12. ASSUME resets = 0 PROVE GoesOn'
  <2>1. GoesOn
    BY <1>2, <1>12
  <2>2. LastReturned' = LastReturned
    BY <1>1 DEF LastReturned
  <2>3. Line' = Line /\ cursor' = prev_line' + 1
    BY <1>1, <1>3, <1>6 DEF Line, Advance, Rows
  <2> QED
    BY <1>1, <1>3, <1>6, <1>8, <1>9, <2>1, <2>2, <2>3 DEF GoesOn
<1>13. ReturnedInv'
  BY <1>1, <1>2, <1>9 DEF ReturnedInv, IsWhole
<1> QED
  BY <1>1, <1>10, <1>11, <1>12, <1>13 DEF ReaderInv

(* What a call returns: points it has, under their id but where it has read *)
(* ahead to the end of the file.                                            *)
LEMMA CallReturns ==
  ASSUME ReaderInv, Return
  PROVE  /\ Points > 0 /\ call # Idle /\ (Adding \/ HasReadAhead)
         /\ Adding => ~ HasNext
         /\ TrajId \in Nat
         /\ HasNext \/ Adding => TrajId = file[call.geom[1]]
<1>1. call # Idle /\ ~ (call.same /\ HasNext)
  BY DEF Return, Reading
<1>2. TypeOK /\ CallInv
  BY DEF ReaderInv
<1>3. Adding \/ HasReadAhead
  BY <1>1, <1>2, IdleCall DEF CallInv, AtStart
<1>4. Points > 0
  BY <1>3 DEF Adding, HasReadAhead
<1>5. call.geom[1] \in Rows
  BY <1>2, <1>4, RowAtHand
<1>6. prev_line # 0 => prev_line \in Rows
  BY <1>2 DEF TypeOK, Rows
<1>7. file[call.geom[1]] \in Nat /\ (prev_line # 0 => file[prev_line] \in Nat)
  BY <1>2, <1>5, <1>6, RowAtHand
<1> QED
  BY <1>1, <1>3, <1>4, <1>7 DEF Adding, HasReadAhead, TrajId

(* The points of a call that returns are a run of the file.                 *)
LEMMA WholeRun ==
  ASSUME ReaderInv, Return, resets = 0
  PROVE  /\ LastReturned \in 0 .. Len(file)
         /\ \A k \in 1 .. Points : call.geom[k] = LastReturned + k
         /\ LastReturned + Points \in Rows /\ call.geom[Points] = LastReturned + Points
         /\ Line = LastReturned + Points + 1
         /\ HasReadAhead => prev_line = LastReturned + Points + 1 /\ cursor = prev_line + 1
         /\ IsWhole(call.geom)
<1> DEFINE n == Points
           last == LastReturned + n
<1>1. TypeOK /\ GoesOn
  BY DEF ReaderInv
<1>2. n > 0 /\ call # Idle /\ (Adding \/ HasReadAhead) /\ (Adding => ~ HasNext)
  BY CallReturns
<1>3. /\ Len(file) \in Nat /\ n \in Nat /\ cursor \in Nat
      /\ \A k \in 1 .. n : call.geom[k] \in Rows
  BY <1>1, RowAtHand
<1>4. /\ LastReturned \in 0 .. Len(file)
      /\ \A k \in 1 .. n : call.geom[k] = LastReturned + k /\ file[call.geom[k]] = file[call.geom[1]]
      /\ Line = LastReturned + n + 1
  BY <1>1 DEF GoesOn
<1>5. 1 \in 1 .. n /\ n \in 1 .. n
  BY <1>2, <1>3
<1>6. call.geom[n] = last /\ call.geom[1] = LastReturned + 1 /\ last \in Rows /\ LastReturned + 1 \in Rows
  BY <1>3, <1>4, <1>5
<1>7. HasReadAhead => prev_line = last + 1 /\ cursor = prev_line + 1 /\ file[prev_line] # file[call.geom[1]]
  BY <1>1, <1>2, <1>4 DEF HasReadAhead, GoesOn, Line
<1>8. call.geom[1] > 1 => file[call.geom[1] - 1] # file[call.geom[1]]
  <2>1. LastReturned + 1 > 1 => LastReturned > 0 /\ LastReturned < Len(file)
    BY <1>3, <1>4, <1>6 DEF Rows
  <2>2. (LastReturned + 1) - 1 = LastReturned
    BY <1>4
  <2> QED
    BY <1>1, <1>6, <2>1, <2>2 DEF GoesOn
<1>9. last < Len(file) => file[last + 1] # file[call.geom[1]]
  <2>1. CASE Adding
    <3>1. cursor = last + 1 /\ cursor > Len(file)
      BY <1>2, <1>3, <1>4, <2>1 DEF Adding, Line, HasNext
    <3> QED
      BY <1>3, <1>4, <3>1
  <2>2. CASE HasReadAhead
    BY <1>7, <2>2
  <2> QED
    BY <1>2, <2>1, <2>2
<1>10. Len(call.geom) = n
  BY DEF Points
<1>11. IsWhole(call.geom)
  BY <1>4, <1>6, <1>8, <1>9, <1>10 DEF IsWhole
<1> QED
  BY <1>4, <1>6, <1>7, <1>11

LEMMA ReturnStep ==
  ASSUME ReaderInv, Return
  PROVE  ReaderInv'
<1> DEFINE m == Len(returned)
           result == [id |-> TrajId, geom |-> call.geom]
<1>1. /\ returned' = Append(returned, result) /\ call' = Idle
      /\ UNCHANGED <<file, cursor, prev_line, resets, planned>>
  BY DEF Return
<1>2. TypeOK /\ ReturnedInv
  BY DEF ReaderInv
<1>3. /\ Points > 0 /\ call # Idle /\ (Adding \/ HasReadAhead) /\ (Adding => ~ HasNext)
      /\ TrajId \in Nat /\ (HasNext \/ Adding => TrajId = file[call.geom[1]])
  BY CallReturns
<1>4. result \in [id : Nat, geom : Seq(Rows)]
  BY <1>2, <1>3, RowAtHand
<1>5. /\ returned \in Seq([id : Nat, geom : Seq(Rows)]) /\ Rows' = Rows
  BY <1>1, <1>2 DEF TypeOK, Rows
<1> HIDE DEF Rows, result
<1>6. /\ m \in Nat /\ Len(returned') = m + 1 /\ returned'[m + 1] = result
      /\ \A k \in 1 .. m : returned'[k] = returned[k]
      /\ returned' \in Seq([id : Nat, geom : Seq(Rows)]) /\ returned' # <<>>
  <2> DEFINE S == [id : Nat, geom : Seq(Rows)]
  <2>1. returned \in Seq(S) /\ result \in S /\ returned' = Append(returned, result)
    BY <1>1, <1>4, <1>5 DEF result
  <2> HIDE DEF S
  <2>2. /\ m \in Nat /\ Len(returned') = m + 1 /\ returned'[m + 1] = result
        /\ \A k \in 1 .. m : returned'[k] = returned[k]
        /\ returned' \in Seq(S)
    BY <2>1
  <2>3. returned' # <<>>
    BY <2>2
  <2> QED
    BY <2>2, <2>3 DEF S
<1>7. result.geom = call.geom /\ result.id = TrajId /\ Len(call.geom) = Points
  BY DEF result, Points
<1>8. TypeOK'
  <2>1. Idle \in [geom : Seq(Rows), prev_id : Nat \cup {-1}, trid : Nat \cup {-1}, same : BOOLEAN]
    BY DEF Idle
  <2> QED
    BY <1>1, <1>2, <1>5, <1>6, <2>1 DEF TypeOK
<1>9. Points' = 0 /\ LastReturned' = call.geom[Points]
  BY <1>1, <1>6, <1>7, IdleCall DEF Points, LastReturned
<1>10. ASSUME resets = 0 PROVE GoesOn'
  <2>1. /\ LastReturned' \in Rows /\ Line' = LastReturned' + Points' + 1
        /\ HasReadAhead => cursor = prev_line + 1
        /\ IsWhole(call.geom)
    BY <1>1, <1>9, <1>10, WholeRun DEF Line, Rows
  <2>2. LastReturned' \in 0 .. Len(file')
    BY <1>1, <2>1 DEF Rows
  <2>3. LastReturned' < Len(file') => file'[LastReturned' + 1] # file'[LastReturned']
    <3>1. Points \in 1 .. Len(call.geom)
      BY <1>2, <1>3, <1>7, RowAtHand
    <3> QED
      BY <1>1, <1>7, <1>9, <2>1, <3>1 DEF IsWhole
  <2>4. prev_line' # 0 => cursor' = prev_line' + 1
    BY <1>1, <1>3, <2>1 DEF Adding
  <2> QED
    BY <1>1, <1>9, <2>1, <2>2, <2>3, <2>4 DEF GoesOn
<1>11. ReturnedInv'
  <2>1. ASSUME NEW k \in 1 .. m
        PROVE  /\ returned'[k].geom # <<>> /\ returned'[k].id = file'[returned'[k].geom[1]]
               /\ resets' = 0 => IsWhole(returned[k].geom)
    BY <1>1, <1>2, <1>3, <1>6, <2>1 DEF ReturnedInv
  <2>2. /\ returned'[m + 1].geom # <<>>
        /\ HasNext' => returned'[m + 1].id = file'[returned'[m + 1].geom[1]]
        /\ resets' = 0 => IsWhole(returned'[m + 1].geom)
    BY <1>1, <1>3, <1>6, <1>7, WholeRun DEF HasNext
  <2>3. \A k \in 1 .. m + 1 : k \in 1 .. m \/ k = m + 1
    BY <1>6
  <2>4. ~ (m + 1 < m + 1)
    BY <1>6
  <2>5. \A geom : IsWhole(geom) => IsWhole(geom)'
    BY <1>1 DEF IsWhole
  <2> QED
    BY <1>1, <1>6, <2>1, <2>2, <2>3, <2>4, <2>5 DEF ReturnedInv
<1> QED
  BY <1>1, <1>8, <1>10, <1>11 DEF ReaderInv, CallInv

LEMMA ResetStep ==
  ASSUME ReaderInv, ResetCursor
  PROVE  ReaderInv'
<1>1. /\ call = Idle /\ call' = Idle /\ cursor' = 1 /\ returned' = <<>> /\ resets' = resets + 1
      /\ resets < planned
      /\ UNCHANGED <<file, prev_line, planned>>
  BY DEF ResetCursor
<1>2. TypeOK
  BY DEF ReaderInv
<1>3. Len(file) \in Nat /\ resets \in Nat
  BY <1>2, RowAtHand DEF TypeOK
<1>4. TypeOK'
  BY <1>1, <1>2, <1>3, ReaderAssumption DEF TypeOK, Rows
<1>5. resets' # 0
  BY <1>1, <1>3
<1> QED
  BY <1>1, <1>4, <1>5 DEF ReaderInv, CallInv, ReturnedInv

-----------------------------------------------------------------------------
(* The rows taken, without those of the call in progress.                   *)
RowsOf(trajs) ==
  LET upTo[k \in 0 .. Len(trajs)] ==
        IF k = 0 THEN <<>> ELSE upTo[k - 1] \o trajs[k].geom
  IN  upTo[Len(trajs)]

Delivery(S) == [id : Nat, geom : Seq(S)]

IsJoined(f, trajs, S) ==
  /\ f \in [0 .. Len(trajs) -> Seq(S)]
  /\ f[0] = <<>>
  /\ \A k \in 1 .. Len(trajs) : f[k] = f[k - 1] \o trajs[k].geom

LEMMA RowsJoined ==
  ASSUME NEW S, NEW trajs \in Seq(Delivery(S))
  PROVE  \E f : IsJoined(f, trajs, S) /\ RowsOf(trajs) = f[Len(trajs)]
<1> DEFINE n == Len(trajs)
           Body(f) == [k \in 0 .. n |-> IF k = 0 THEN <<>> ELSE f[k - 1] \o trajs[k].geom]
           chosen == CHOOSE f : f = Body(f)
           step == [k \in 1 .. n |-> [x \in Seq(S) |-> x \o trajs[k].geom]]
<1>1. n \in Nat /\ <<>> \in Seq(S) /\ \A k \in 1 .. n : trajs[k].geom \in Seq(S)
  <2>1. n \in Nat /\ <<>> \in Seq(S) /\ \A k \in 1 .. n : trajs[k] \in Delivery(S)
    OBVIOUS
  <2> QED
    BY <2>1 DEF Delivery
<1>2. StepsWithin(n, Seq(S), step)
  <2>1. \A k \in 1 .. n : [x \in Seq(S) |-> x \o trajs[k].geom] \in [Seq(S) -> Seq(S)]
    BY <1>1
  <2> QED
    BY <2>1 DEF StepsWithin
<1>3. RowsOf(trajs) = chosen[n]
  BY DEF RowsOf
<1> HIDE DEF n
<1>4. \A k \in 1 .. n : \A x \in Seq(S) : step[k][x] = x \o trajs[k].geom
  OBVIOUS
<1> HIDE DEF step
<1>5. PICK f : Recurs(f, n, Seq(S), <<>>, step)
  BY <1>1, <1>2, RecursionExists
<1>6. f = Body(f)
  <2>1. f \in [0 .. n -> Seq(S)] /\ f[0] = <<>>
    BY <1>5 DEF Recurs
  <2>2. ASSUME NEW k \in 1 .. n PROVE f[k] = f[k - 1] \o trajs[k].geom
    <3>1. k - 1 \in 0 .. n
      BY <1>1
    <3>2. f[k - 1] \in Seq(S)
      BY <2>1, <3>1
    <3>3. f[k] = step[k][f[k - 1]]
      BY <1>5 DEF Recurs
    <3> QED
      BY <1>4, <3>2, <3>3
  <2>3. ASSUME NEW k \in 0 .. n
        PROVE  f[k] = IF k = 0 THEN <<>> ELSE f[k - 1] \o trajs[k].geom
    <3>1. CASE k = 0
      BY <2>1, <3>1
    <3>2. CASE k # 0
      <4>1. k \in 1 .. n
        BY <1>1, <3>2
      <4> QED
        BY <2>2, <3>2, <4>1, Zenon
    <3> QED
      BY <3>1, <3>2
  <2> QED
    BY <2>1, <2>3
<1>7. chosen = Body(chosen)
  <2> HIDE DEF Body
  <2> QED
    BY <1>6
<1> HIDE DEF chosen
<1>8. /\ chosen = [k \in 0 .. n |-> chosen[k]] /\ chosen[0] = <<>>
      /\ \A k \in 1 .. n : chosen[k] = chosen[k - 1] \o trajs[k].geom
  <2>1. DOMAIN chosen = 0 .. n /\ chosen = [k \in 0 .. n |-> chosen[k]]
    BY <1>7
  <2>2. 0 \in 0 .. n /\ \A k \in 1 .. n : k \in 0 .. n /\ k # 0
    BY <1>1
  <2>3. \A k \in 0 .. n : chosen[k] = IF k = 0 THEN <<>> ELSE chosen[k - 1] \o trajs[k].geom
    BY <1>7
  <2> HIDE DEF Body
  <2> QED
    BY <2>1, <2>2, <2>3
<1>9. \A k \in 1 .. n : chosen[k - 1] \in Seq(S) => chosen[k] = step[k][chosen[k - 1]]
  BY <1>4, <1>8
<1>10. Recurs(chosen, n, Seq(S), <<>>, step)
  BY <1>1, <1>2, <1>8, <1>9, RecursionTyped
<1>11. IsJoined(chosen, trajs, S)
  BY <1>8, <1>10 DEF Recurs, IsJoined, n
<1> QED
  BY <1>3, <1>11 DEF n

LEMMA RowsOfTyped ==
  ASSUME NEW S, NEW trajs \in Seq(Delivery(S))
  PROVE  RowsOf(trajs) \in Seq(S)
<1>1. PICK f : IsJoined(f, trajs, S) /\ RowsOf(trajs) = f[Len(trajs)]
  BY RowsJoined
<1>2. Len(trajs) \in 0 .. Len(trajs)
  OBVIOUS
<1> QED
  BY <1>1, <1>2 DEF IsJoined

(* A trajectory more adds its rows.                                         *)
LEMMA RowsOfAppended ==
  ASSUME NEW S, NEW trajs \in Seq(Delivery(S)), NEW t \in Delivery(S)
  PROVE  RowsOf(Append(trajs, t)) = RowsOf(trajs) \o t.geom
<1> DEFINE n == Len(trajs)
           more == Append(trajs, t)
<1>1. /\ n \in Nat /\ more \in Seq(Delivery(S)) /\ Len(more) = n + 1 /\ more[n + 1] = t
      /\ \A k \in 1 .. n : more[k] = trajs[k]
  OBVIOUS
<1>2. PICK f : IsJoined(f, trajs, S) /\ RowsOf(trajs) = f[n]
  BY RowsJoined
<1>3. PICK g : IsJoined(g, more, S) /\ RowsOf(more) = g[n + 1]
  BY <1>1, RowsJoined
<1> HIDE DEF more
<1> DEFINE T == {k \in 0 .. n : g[k] = f[k]}
<1>4. 0 \in T
  BY <1>1, <1>2, <1>3 DEF IsJoined
<1>5. ASSUME NEW k \in 1 .. n, k - 1 \in T PROVE k \in T
  <2>1. k \in 1 .. n + 1 /\ k \in 0 .. n
    BY <1>1
  <2>2. g[k] = g[k - 1] \o trajs[k].geom /\ f[k] = f[k - 1] \o trajs[k].geom
    BY <1>1, <1>2, <1>3, <2>1 DEF IsJoined
  <2> QED
    BY <1>5, <2>1, <2>2
<1> HIDE DEF T
<1>6. \A k \in 0 .. n : k \in T
  BY <1>1, <1>4, <1>5, InductionUpTo
<1>7. g[n] = f[n]
  BY <1>1, <1>6 DEF T
<1>8. f[n] \in Seq(S) /\ g[n + 1] = g[n] \o t.geom
  BY <1>1, <1>2, <1>3 DEF IsJoined
<1> QED
  BY <1>2, <1>3, <1>7, <1>8 DEF more

LEMMA RowsOfNone == RowsOf(<<>>) = <<>>
<1>1. <<>> \in Seq(Delivery({})) /\ Len(<<>>) = 0
  OBVIOUS
<1> QED
  BY <1>1, RowsJoined DEF IsJoined

-----------------------------------------------------------------------------
\* The rows taken and the one read ahead.
AllTaken == Taken \o (IF prev_line = 0 THEN <<>> ELSE <<prev_line>>)

\* The rows from skew on are the first of the file.
Counted(rows, next, skew) ==
  /\ next + skew = Len(rows) + 1
  /\ \A k \in 1 .. next - 1 : rows[k + skew] = k

TakenInv ==
  /\ \E skew \in {0, 1} : (skew = 1 => resets > 0) /\ Counted(AllTaken, cursor, skew)
  /\ resets = 0 /\ prev_line # 0 => prev_line > 1

LEMMA ConcatAppend ==
  ASSUME NEW S, NEW a \in Seq(S), NEW b \in Seq(S), NEW x \in S
  PROVE  /\ a \o Append(b, x) = Append(a \o b, x)
         /\ a \o <<x>> = Append(a, x)
         /\ a \o <<>> = a
         /\ a \o b \in Seq(S)
OBVIOUS

LEMMA TakenTyped ==
  ASSUME TypeOK
  PROVE  /\ Taken = RowsOf(returned) \o call.geom
         /\ RowsOf(returned) \in Seq(Rows) /\ call.geom \in Seq(Rows) /\ Taken \in Seq(Rows)
         /\ AllTaken \in Seq(Rows)
<1>1. Taken = RowsOf(returned) \o call.geom
  BY DEF Taken, RowsOf
<1>2. returned \in Seq(Delivery(Rows)) /\ call.geom \in Seq(Rows)
  BY DEF TypeOK, Delivery
<1>3. prev_line # 0 => prev_line \in Rows
  BY DEF TypeOK, Rows
<1> HIDE DEF Rows
<1>4. RowsOf(returned) \in Seq(Rows)
  BY <1>2, RowsOfTyped
<1>5. Taken \in Seq(Rows)
  BY <1>1, <1>2, <1>4
<1>6. prev_line # 0 => <<prev_line>> \in Seq(Rows)
  BY <1>3
<1> QED
  BY <1>1, <1>2, <1>4, <1>5, <1>6 DEF AllTaken

LEMMA CountedMore ==
  ASSUME NEW S, NEW rows \in Seq(S), NEW next \in Nat \ {0}, next \in S, NEW skew \in {0, 1},
         Counted(rows, next, skew)
  PROVE  Counted(Append(rows, next), next + 1, skew)
<1>1. /\ Len(rows) \in Nat /\ next + skew = Len(rows) + 1
      /\ Len(Append(rows, next)) = Len(rows) + 1
      /\ Append(rows, next)[Len(rows) + 1] = next
      /\ \A k \in 1 .. Len(rows) : Append(rows, next)[k] = rows[k]
  BY DEF Counted
<1>2. ASSUME NEW k \in 1 .. next PROVE Append(rows, next)[k + skew] = k
  <2>1. CASE k = next
    BY <1>1, <2>1
  <2>2. CASE k # next
    <3>1. k \in 1 .. next - 1 /\ k + skew \in 1 .. Len(rows)
      BY <1>1, <2>2
    <3> QED
      BY <1>1, <3>1 DEF Counted
  <2> QED
    BY <2>1, <2>2
<1>3. (next + 1) - 1 = next /\ (next + 1) + skew = Len(Append(rows, next)) + 1
  BY <1>1
<1> QED
  BY <1>2, <1>3 DEF Counted

(* A step that takes the next row of the file, or none.                     *)
LEMMA CountGoesOn ==
  ASSUME TypeOK, TakenInv, resets' = resets,
         \/ HasNext /\ AllTaken' = Append(AllTaken, cursor) /\ cursor' = cursor + 1
         \/ AllTaken' = AllTaken /\ cursor' = cursor,
         resets = 0 /\ prev_line' # 0 => prev_line' > 1
  PROVE  TakenInv'
<1>1. PICK skew \in {0, 1} : (skew = 1 => resets > 0) /\ Counted(AllTaken, cursor, skew)
  BY DEF TakenInv
<1>2. AllTaken \in Seq(Rows) /\ cursor \in Nat \ {0} /\ (HasNext => cursor \in Rows)
  BY TakenTyped, RowAtHand
<1>3. Counted(AllTaken', cursor', skew)
  BY <1>1, <1>2, CountedMore
<1>4. (skew = 1 => resets' > 0) /\ Counted(AllTaken, cursor, skew)'
  BY <1>1, <1>3 DEF Counted
<1> QED
  BY <1>4 DEF TakenInv

LEMMA TakenBegins == Init => TakenInv
<1> SUFFICES ASSUME Init PROVE TakenInv
  OBVIOUS
<1>1. returned = <<>> /\ call.geom = <<>> /\ prev_line = 0 /\ cursor = 1
  BY IdleCall DEF Init
<1>2. AllTaken = <<>>
  <2>1. RowsOf(returned) = <<>> /\ Taken = RowsOf(returned) \o call.geom
    BY <1>1, RowsOfNone DEF Taken, RowsOf
  <2> QED
    BY <1>1, <2>1 DEF AllTaken
<1>3. Counted(AllTaken, cursor, 0)
  BY <1>1, <1>2 DEF Counted
<1> QED
  BY <1>1, <1>3 DEF TakenInv

(* The rows taken, after a step.                                            *)
LEMMA TakenNext ==
  /\ Taken' = RowsOf(returned') \o call'.geom
  /\ AllTaken' = Taken' \o (IF prev_line' = 0 THEN <<>> ELSE <<prev_line'>>)
BY DEF Taken, RowsOf, AllTaken

LEMMA TakenStays ==
  ASSUME ReaderInv, TakenInv, [Next]_vars
  PROVE  TakenInv'
<1>1. TypeOK /\ CallInv
  BY DEF ReaderInv
<1>2. /\ Taken = RowsOf(returned) \o call.geom /\ Taken \in Seq(Rows)
      /\ RowsOf(returned) \in Seq(Rows) /\ call.geom \in Seq(Rows)
      /\ (HasNext => Line \in Rows) /\ (prev_line # 0 => prev_line \in Rows)
      /\ (HasNext => cursor \in Rows)
  <2>1. prev_line # 0 => prev_line \in Rows
    BY <1>1 DEF TypeOK, Rows
  <2> QED
    BY <1>1, <2>1, TakenTyped, RowAtHand
<1>3. /\ Taken' = RowsOf(returned') \o call'.geom
      /\ AllTaken' = Taken' \o (IF prev_line' = 0 THEN <<>> ELSE <<prev_line'>>)
      /\ AllTaken = Taken \o (IF prev_line = 0 THEN <<>> ELSE <<prev_line>>)
  BY TakenNext DEF AllTaken
<1> HIDE DEF Rows
<1>4. CASE ReadNext
  <2>1. /\ UNCHANGED <<file, cursor, prev_line, returned, resets, planned>>
        /\ call'.geom = call.geom
    BY <1>4, IdleCall DEF ReadNext
  <2>2. AllTaken' = AllTaken
    BY <1>2, <1>3, <2>1
  <2> QED
    BY <1>1, <2>1, <2>2, CountGoesOn DEF TakenInv
<1>5. CASE AddPoint
  <2>1. /\ HasNext /\ cursor' = Advance /\ prev_line' = 0
        /\ UNCHANGED <<file, returned, resets, planned>>
    BY <1>5 DEF AddPoint, Reading
  <2>2. call'.geom = Append(call.geom, Line)
    <3>1. file[Line] \in Nat
      BY <1>1, <1>2, <2>1, RowAtHand
    <3> QED
      BY <1>1, <1>2, <1>5, <2>1, <3>1, CallAdds DEF AddPoint
  <2>3. Taken' = Append(Taken, Line)
    <3> DEFINE a == RowsOf(returned)
               b == call.geom
               x == Line
    <3>1. /\ a \in Seq(Rows) /\ b \in Seq(Rows) /\ x \in Rows
          /\ Taken = a \o b
      BY <1>1, <1>2, <2>1, TakenTyped, RowAtHand
    <3>2. Taken' = a \o Append(b, x)
      BY <1>3, <2>1, <2>2
    <3> HIDE DEF a, b, x
    <3>3. a \o Append(b, x) = Append(a \o b, x)
      BY <3>1, ConcatAppend
    <3> QED
      BY <3>1, <3>2, <3>3 DEF x
  <2>4. AllTaken' = Append(Taken, Line)
    <3>1. Append(Taken, Line) \o <<>> = Append(Taken, Line)
      BY <1>2, <2>1
    <3> QED
      BY <1>3, <2>1, <2>3, <3>1
  <2>5. CASE prev_line = 0
    <3>1. AllTaken = Taken
      BY <1>2, <1>3, <2>5, ConcatAppend
    <3>2. Line = cursor /\ cursor' = cursor + 1
      BY <2>1, <2>5 DEF Line, Advance
    <3> QED
      BY <1>1, <2>1, <2>4, <3>1, <3>2, CountGoesOn
  <2>6. CASE prev_line # 0
    <3>1. AllTaken = Append(Taken, Line)
      BY <1>2, <1>3, <2>6, ConcatAppend DEF Line
    <3>2. cursor' = cursor
      BY <2>1, <2>6 DEF Advance
    <3> QED
      BY <1>1, <2>1, <2>4, <3>1, <3>2, CountGoesOn
  <2> QED
    BY <2>5, <2>6
<1>6. CASE ReadAhead
  <2>1. /\ HasNext /\ cursor' = Advance /\ prev_line' = Line
        /\ call.same /\ call.geom # <<>>
        /\ UNCHANGED <<file, returned, resets, planned>>
    BY <1>6 DEF ReadAhead, Reading, IsFirst, Kept
  <2>2. call'.geom = call.geom
    BY <1>1, <1>6 DEF ReadAhead, TypeOK
  <2>3. Adding /\ prev_line = 0 /\ Points > 0
    BY <1>1, <2>1, IdleCall DEF CallInv, AtStart, HasReadAhead, Adding
  <2>4. Line = cursor /\ cursor' = cursor + 1 /\ cursor \in Rows /\ cursor # 0
    <3>1. cursor # 0
      BY <1>1, RowAtHand
    <3> QED
      BY <1>2, <2>1, <2>3, <3>1 DEF Line, Advance
  <2>5. AllTaken = Taken /\ AllTaken' = Append(AllTaken, cursor)
    <3>1. Taken' = Taken
      BY <1>2, <1>3, <2>1, <2>2
    <3>2. AllTaken = Taken
      BY <1>2, <1>3, <2>3, ConcatAppend
    <3>3. AllTaken' = Taken \o <<cursor>>
      BY <1>3, <2>1, <2>4, <3>1
    <3> QED
      BY <1>2, <2>4, <3>2, <3>3, ConcatAppend
  <2>6. resets = 0 => prev_line' > 1
    <3>1. resets = 0 => Line = LastReturned + Points + 1 /\ LastReturned \in Nat
      BY DEF ReaderInv, GoesOn
    <3>2. Points \in Nat
      BY <1>1, RowAtHand
    <3> QED
      BY <2>1, <2>3, <3>1, <3>2
  <2> QED
    BY <1>1, <2>1, <2>4, <2>5, <2>6, CountGoesOn
<1>7. CASE Return
  <2> DEFINE result == [id |-> TrajId, geom |-> call.geom]
  <2>1. /\ returned' = Append(returned, result) /\ call' = Idle
        /\ UNCHANGED <<file, cursor, prev_line, resets, planned>>
    BY <1>7 DEF Return
  <2>2. result \in Delivery(Rows) /\ returned \in Seq(Delivery(Rows)) /\ result.geom = call.geom
    <3>1. TrajId \in Nat
      BY <1>7, CallReturns
    <3> QED
      BY <1>1, <1>2, <3>1 DEF TypeOK, Delivery
  <2> HIDE DEF result
  <2>3. RowsOf(returned') = Taken
    BY <1>2, <2>1, <2>2, RowsOfAppended
  <2>4. Taken' = Taken
    <3>1. call'.geom = <<>>
      BY <2>1, IdleCall
    <3> QED
      BY <1>2, <1>3, <2>3, <3>1
  <2>5. AllTaken' = AllTaken
    BY <1>3, <2>1, <2>4
  <2> QED
    BY <1>1, <2>1, <2>5, CountGoesOn DEF TakenInv
<1>8. CASE ResetCursor
  <2>1. /\ call = Idle /\ cursor' = 1 /\ returned' = <<>> /\ resets' = resets + 1
        /\ UNCHANGED <<file, prev_line, call, planned>>
    BY <1>8 DEF ResetCursor
  <2>2. resets \in Nat
    BY <1>1 DEF TypeOK
  <2>3. Taken' = <<>>
    BY <1>3, <2>1, IdleCall, RowsOfNone
  <2>4. CASE prev_line = 0
    <3>1. AllTaken' = <<>>
      BY <1>3, <2>1, <2>3, <2>4
    <3>2. Counted(AllTaken', cursor', 0)
      BY <2>1, <3>1 DEF Counted
    <3> QED
      BY <2>1, <2>2, <2>4, <3>2 DEF TakenInv, Counted
  <2>5. CASE prev_line # 0
    <3>1. AllTaken' = <<prev_line>>
      <4>1. <<prev_line>> \in Seq(Rows)
        BY <1>2, <2>5
      <4>2. <<>> \o <<prev_line>> = <<prev_line>>
        BY <4>1
      <4> QED
        BY <1>3, <2>1, <2>3, <2>5, <4>2
    <3>2. Counted(AllTaken', cursor', 1)
      BY <2>1, <3>1 DEF Counted
    <3> QED
      BY <2>1, <2>2, <3>2 DEF TakenInv, Counted
  <2> QED
    BY <2>4, <2>5
<1>9. CASE UNCHANGED vars
  <2>1. AllTaken' = AllTaken /\ UNCHANGED <<cursor, prev_line, resets>>
    BY <1>3, <1>2, <1>9 DEF vars
  <2> QED
    BY <1>1, <2>1, CountGoesOn DEF TakenInv
<1> QED
  BY <1>4, <1>5, <1>6, <1>7, <1>8, <1>9 DEF Next, Read

LEMMA TakenInOrder ==
  ASSUME ReaderInv, TakenInv
  PROVE  RowsInOrder
<1>1. PICK skew \in {0, 1} : (skew = 1 => resets > 0) /\ Counted(AllTaken, cursor, skew)
  BY DEF TakenInv
<1>2. TypeOK
  BY DEF ReaderInv
<1>3. /\ Taken \in Seq(Rows) /\ Len(file) \in Nat /\ cursor \in 1 .. Len(file) + 1
      /\ file \in Seq(Nat) /\ prev_line \in 0 .. Len(file)
  BY <1>2, TakenTyped, RowAtHand DEF TypeOK
<1>4. /\ prev_line = 0 => AllTaken = Taken
      /\ prev_line # 0 => AllTaken = Append(Taken, prev_line)
  <2>1. prev_line # 0 => prev_line \in Rows
    BY <1>3 DEF Rows
  <2> HIDE DEF Rows
  <2> QED
    BY <1>3, <2>1, ConcatAppend DEF AllTaken
<1>5. /\ \A k \in 1 .. Len(Taken) : AllTaken[k] = Taken[k]
      /\ Len(Taken) \in Nat /\ Len(Taken) <= Len(AllTaken)
      /\ prev_line # 0 => Len(AllTaken) = Len(Taken) + 1 /\ AllTaken[Len(Taken) + 1] = prev_line
  <2>1. CASE prev_line = 0
    BY <1>3, <1>4, <2>1
  <2>2. CASE prev_line # 0
    <3>1. prev_line \in Rows
      BY <1>3, <2>2 DEF Rows
    <3>2. Taken \in Seq(Rows) /\ AllTaken = Append(Taken, prev_line)
      BY <1>3, <1>4, <2>2
    <3> HIDE DEF Rows
    <3> QED
      BY <3>1, <3>2
  <2> QED
    BY <2>1, <2>2
<1>6. ASSUME NEW k \in 1 .. Len(Taken) - skew PROVE Taken[k + skew] = k
  <2>1. k + skew \in 1 .. Len(Taken) /\ k \in 1 .. cursor - 1
    BY <1>1, <1>3, <1>5 DEF Counted
  <2> QED
    BY <1>1, <1>5, <2>1 DEF Counted
<1>7. InOrder
  BY <1>1, <1>6 DEF InOrder
<1>8. ASSUME call = Idle, ~ HasNext, resets = 0
      PROVE  \/ Taken = [k \in Rows |-> k]
             \/ /\ Taken = [k \in 1 .. Len(file) - 1 |-> k]
                /\ Len(file) > 1 /\ file[Len(file)] # file[Len(file) - 1]
  <2>1. skew = 0 /\ cursor = Len(file) + 1 /\ Len(AllTaken) = Len(file)
    BY <1>1, <1>3, <1>5, <1>8 DEF HasNext, Counted
  <2>2. \A k \in 1 .. Len(Taken) : Taken[k] = k
    BY <1>6, <2>1
  <2>3. Taken = [k \in 1 .. Len(Taken) |-> k]
    <3>1. Taken = [k \in 1 .. Len(Taken) |-> Taken[k]]
      BY <1>3
    <3> QED
      BY <2>2, <3>1
  <2>4. CASE prev_line = 0
    <3>1. Len(Taken) = Len(file)
      BY <1>4, <2>1, <2>4
    <3> QED
      BY <2>3, <3>1 DEF Rows
  <2>5. CASE prev_line # 0
    <3>1. Len(Taken) = Len(file) - 1
      BY <1>3, <1>5, <2>1, <2>5
    <3>2. GoesOn /\ prev_line > 1
      BY <1>8, <2>5 DEF ReaderInv, TakenInv
    <3>3. /\ cursor = prev_line + 1 /\ LastReturned \in 0 .. Len(file)
          /\ prev_line = LastReturned + Points + 1
          /\ LastReturned > 0 /\ LastReturned < Len(file) =>
               file[LastReturned + 1] # file[LastReturned]
      BY <2>5, <3>2 DEF GoesOn, Line
    <3>4. Points = 0
      BY <1>8, IdleCall DEF Points
    <3>5. prev_line = Len(file) /\ LastReturned = Len(file) - 1 /\ LastReturned + 1 = Len(file)
      BY <1>3, <2>1, <3>3, <3>4
    <3>6. Len(file) > 1 /\ LastReturned > 0 /\ LastReturned < Len(file)
      BY <1>3, <3>2, <3>5
    <3> QED
      BY <2>3, <3>1, <3>3, <3>5, <3>6
  <2> QED
    BY <2>4, <2>5
<1>9. OnlyLastRowLost
  BY <1>8 DEF OnlyLastRowLost
<1> QED
  BY <1>7, <1>9 DEF RowsInOrder

-----------------------------------------------------------------------------
(* The steps of a job leave its reader where the reader's steps lead it.    *)
LEMMA JobBeginsReader == JobInit => Init
BY DEF JobInit

LEMMA JobReads == [JobNext]_jobVars => [Next]_vars
<1> SUFFICES ASSUME [JobNext]_jobVars PROVE [Next]_vars
  OBVIOUS
<1>1. CASE UNCHANGED reading
  BY <1>1 DEF reading, vars
<1>2. CASE BeginPoints \/ TakePoint \/ EndPoints \/ Rewind
  BY <1>2 DEF BeginPoints, TakePoint, EndPoints, Rewind, Next, Read
<1>3. UNCHANGED jobVars => UNCHANGED reading
  BY DEF jobVars
<1>4. \/ UNCHANGED reading
      \/ BeginPoints \/ TakePoint \/ EndPoints \/ Rewind
  BY <1>3 DEF JobNext, JobStep, LoadFails, Load, Validate, Build, Generate, OpenReader, OpenWriter,
              ReadRow, ReadBadRow, ReadBadPoint, FetchEnds, Match, MatchHex, Finish
<1> QED
  BY <1>1, <1>2, <1>4

(* Whatever the file and the resets: a call has points of one id, or has    *)
(* read one row ahead, and what it returned before are whole runs.          *)
LEMMA ReaderSteps ==
  ASSUME ReaderInv, [Next]_vars
  PROVE  ReaderInv'
<1>1. CASE UNCHANGED vars
  BY <1>1 DEF vars, ReaderInv, TypeOK, Rows, CallInv, AtStart, Adding, HasReadAhead, HasNext, Points,
              GoesOn, LastReturned, Line, ReturnedInv, IsWhole
<1> QED
  BY <1>1, BeginStep, AddStep, AheadStep, ReturnStep, ResetStep DEF Next, Read

THEOREM ReaderInvariance == JobSpec => [](ReaderInv /\ TakenInv)
<1>1. JobInit => ReaderInv /\ TakenInv
  BY JobBeginsReader, InitInv, TakenBegins
<1>2. ReaderInv /\ TakenInv /\ [JobNext]_jobVars => ReaderInv' /\ TakenInv'
  BY JobReads, ReaderSteps, TakenStays
<1> QED
  BY <1>1, <1>2, PTL DEF JobSpec

(* The trajectories of read_next_trajectory are whole runs of rows, each    *)
(* named by its points: all but one returned last of its file.              *)
THEOREM WholeRuns == JobSpec => []RunsAreWhole
<1>1. ReaderInv => RunsAreWhole
  BY DEF ReaderInv, ReturnedInv, RunsAreWhole, IsWhole
<1> QED
  BY <1>1, ReaderInvariance, PTL

(* The rows of a point file are taken in their order, each of them once; at *)
(* most the last is lost, and only where it is a trajectory of its own.     *)
THEOREM RowsTakenInOrder == JobSpec => []RowsInOrder
<1>1. ReaderInv /\ TakenInv => RowsInOrder
  BY TakenInOrder
<1> QED
  BY <1>1, ReaderInvariance, PTL

(* A run returned of a promised file is the next one.                       *)
LEMMA ReturnIsRead ==
  ASSUME ReaderInv, Return, Promised
  PROVE  /\ returned' = Append(returned, Trajectories!Trajectory(file, LastReturned + 1, LastReturned + Points))
         /\ Trajectories!IsRun(file, LastReturned + 1, LastReturned + Points)
         /\ LastReturned + Points \in 1 .. Len(file)
<1> DEFINE last == LastReturned + Points
<1>1. TypeOK /\ resets = 0
  BY DEF ReaderInv, TypeOK, Promised
<1>2. /\ LastReturned \in 0 .. Len(file)
      /\ \A k \in 1 .. Points : call.geom[k] = LastReturned + k
      /\ last \in Rows /\ call.geom[Points] = last
      /\ HasReadAhead => prev_line = last + 1 /\ cursor = prev_line + 1
      /\ IsWhole(call.geom)
  BY <1>1, WholeRun
<1>3. /\ Points > 0 /\ (Adding \/ HasReadAhead) /\ (HasNext \/ Adding => TrajId = file[call.geom[1]])
  BY CallReturns
<1>4. /\ Len(file) \in Nat /\ Points \in Nat /\ call.geom \in Seq(Rows) /\ cursor \in 1 .. Len(file) + 1
      /\ Points = Len(call.geom)
  BY <1>1, RowAtHand DEF TypeOK, Points
<1>5. call.geom[1] = LastReturned + 1
  BY <1>2, <1>3, <1>4
<1> DEFINE first == LastReturned + 1
<1>6. /\ \A k \in 1 .. Points : file[LastReturned + k] = file[first]
      /\ file[last] = file[first] /\ (last < Len(file) => file[last + 1] # file[first])
      /\ first > 1 => file[first - 1] # file[first]
  <2>1. Points \in 1 .. Points
    BY <1>3, <1>4
  <2> QED
    BY <1>2, <1>4, <1>5, <2>1 DEF IsWhole
<1>7. first \in Nat /\ last \in Nat /\ first \in 1 .. last /\ last \in 1 .. Len(file)
  BY <1>2, <1>3, <1>4 DEF Rows
<1>8. TrajId = file[first]
  <2>1. CASE HasNext \/ Adding
    BY <1>3, <1>5, <2>1
  <2>2. CASE ~ HasNext /\ HasReadAhead
    <3>1. cursor = Len(file) + 1 /\ prev_line = Len(file) /\ last = Len(file) - 1
      BY <1>2, <1>4, <2>2 DEF HasNext, Rows
    <3>2. file[Len(file)] # file[Len(file) - 1]
      <4>1. last < Len(file) /\ last + 1 = Len(file)
        BY <1>4, <3>1
      <4> QED
        BY <1>6, <3>1, <4>1
    <3>3. file # <<>>
      BY <1>2 DEF Rows
    <3> QED
      BY <1>4, <3>2, <3>3 DEF Promised
  <2> QED
    BY <1>3, <2>1, <2>2
<1>9. call.geom = [k \in 1 .. last - first + 1 |-> first + k - 1]
  <2>1. last - first + 1 = Points /\ \A k \in 1 .. Points : first + k - 1 = LastReturned + k
    BY <1>2, <1>4
  <2>2. call.geom = [k \in 1 .. Points |-> call.geom[k]]
    BY <1>4
  <2> QED
    BY <1>2, <2>1, <2>2
<1>10. Trajectories!Trajectory(file, first, last) = [id |-> TrajId, geom |-> call.geom]
  BY <1>8, <1>9 DEF Trajectories!Trajectory
<1>11. Trajectories!IsRun(file, first, last)
  <2>1. \A r \in first .. last : file[r] = file[first]
    <3>1. \A r \in first .. last : r - LastReturned \in 1 .. Points /\ LastReturned + (r - LastReturned) = r
      BY <1>2, <1>4
    <3> QED
      BY <1>6, <3>1
  <2> HIDE DEF first, last
  <2>2. last < Len(file) => file[last + 1] # file[last]
    BY <1>6
  <2> QED
    BY <1>4, <1>6, <1>7, <2>1, <2>2 DEF Trajectories!IsRun
<1> QED
  BY <1>7, <1>10, <1>11 DEF Return

(* Every step of CSVPointReader on a promised file is one of the abstract   *)
(* reader, or none: the reader returns the runs of the file in order, each  *)
(* under its id.  (That it returns all of them is liveness, which TLC       *)
(* checks.)                                                                 *)
THEOREM ReadsPromisedRuns ==
  JobSpec => Trajectories!Init
               /\ [][Trajectories!Read]_<<IF AsPromised THEN file ELSE <<>>,
                                         IF AsPromised THEN returned ELSE <<>>>>
<1>1. JobInit => Trajectories!Init
  BY DEF JobInit, Init, Trajectories!Init
<1>2. ASSUME ReaderInv, [JobNext]_jobVars
      PROVE  [Trajectories!Read]_<<IF AsPromised THEN file ELSE <<>>,
                                   IF AsPromised THEN returned ELSE <<>>>>
  <2>0. [Next]_vars
    BY <1>2, JobReads
  <2>1. UNCHANGED <<file, planned>> /\ AsPromised' = AsPromised
    <3>1. UNCHANGED <<file, planned>> /\ Promised' = Promised
      BY <2>0 DEF Next, Read, ReadNext, AddPoint, ReadAhead, Return, ResetCursor, vars, Promised
    <3>2. UNCHANGED job
      BY <1>2 DEF JobNext, JobStep, LoadFails, Load, Validate, Build, Generate, OpenReader, OpenWriter,
                  ReadRow, ReadBadRow, BeginPoints, TakePoint, ReadBadPoint, EndPoints,
                  FetchEnds, Match, MatchHex, Finish, Rewind, jobVars
    <3> QED
      BY <3>1, <3>2 DEF AsPromised
  <2>2. CASE ~ AsPromised
    BY <2>1, <2>2
  <2>3. CASE AsPromised /\ Return
    <3>1. /\ returned' = Append(returned, Trajectories!Trajectory(file, LastReturned + 1, LastReturned + Points))
          /\ Trajectories!IsRun(file, LastReturned + 1, LastReturned + Points)
          /\ LastReturned + Points \in 1 .. Len(file)
      BY <1>2, <2>3, ReturnIsRead DEF AsPromised
    <3>2. Trajectories!LastRow(IF AsPromised THEN returned ELSE <<>>) = LastReturned
      BY <2>3 DEF Trajectories!LastRow, LastReturned
    <3> QED
      BY <2>1, <2>3, <3>1, <3>2 DEF Trajectories!Read
  <2>4. CASE AsPromised /\ ~ Return
    <3>1. planned = 0 /\ resets \in Nat
      BY <1>2, <2>4 DEF AsPromised, Promised, ReaderInv, TypeOK
    <3>2. ~ ResetCursor
      BY <3>1 DEF ResetCursor
    <3>3. UNCHANGED returned
      BY <2>0, <2>4, <3>2 DEF Next, Read, ReadNext, AddPoint, ReadAhead, vars
    <3> QED
      BY <2>1, <3>3
  <2> QED
    BY <2>2, <2>3, <2>4
<1> QED
  BY <1>1, <1>2, ReaderInvariance, PTL DEF JobSpec

-----------------------------------------------------------------------------
Opening == {"start", "loaded", "valid", "built", "reader"}

\* No trajectory was read by the loop of a program.
Unread == trajectories = <<>> /\ waiting = {} /\ order = <<>>

\* What the job has been through, by its stage and by its result file.
ControlInv ==
  /\ job \in Jobs /\ file = job.ids
  /\ stage \in Opening \cup Ended \cup {"loop", "read"}
  /\ opened \in BOOLEAN
  /\ planned > 0 => job.program = "reader"
  /\ job.program = "reader" => stage \in {"loop", "threw"} /\ ~ opened /\ Unread
  /\ stage \in Opening => ~ opened /\ row = 1 /\ returned = <<>> /\ Unread
  /\ ~ opened => output = <<>>
  /\ stage = "loaded" =>
       /\ ~ LoadThrows(job.program, job.source, job.doc)
       /\ config = Loaded(job.program, job.source, job.doc)
       /\ job.source # "library" => ~ config.help

AcceptedInv ==
  job.program # "reader" =>
    /\ stage \in {"valid", "built", "reader", "loop", "read", "done"} \/ opened => Accepted
    /\ stage \in {"built", "reader", "loop", "read", "done"} \/ opened => Builds
    /\ stage \in {"reader", "loop", "read"} => job.program # "ubodt_gen"
    /\ job.program # "ubodt_gen" /\ (stage \in {"reader", "loop", "read"} \/ opened) => ReaderFits
    /\ stage \in {"loop", "read", "done"} => opened = Writable
    /\ opened => Writable
    /\ job.program # "ubodt_gen" /\ stage = "done" => ~ MoreToRead

\* What depends on the job and its configuration alone.
LEMMA Frame ==
  ASSUME UNCHANGED <<job, config>>
  PROVE  /\ Accepted' = Accepted /\ Builds' = Builds /\ ReaderFits' = ReaderFits
         /\ Writable' = Writable /\ Header' = Header /\ ByPoint' = ByPoint
         /\ StampedByPoint' = StampedByPoint /\ Mode' = Mode
         /\ Fetch' = Fetch
<1>1. Accepted' = Accepted
  BY DEF Accepted
<1>2. Builds' = Builds
  BY DEF Builds, NetworkReads, UBODTReads
<1>3. Mode' = Mode
  BY DEF Mode
<1>4. ReaderFits' = ReaderFits
  BY <1>3 DEF ReaderFits, Places
<1>5. Writable' = Writable /\ Header' = Header /\ ByPoint' = ByPoint /\ StampedByPoint' = StampedByPoint
      /\ Fetch' = Fetch
  BY <1>3 DEF Writable, Header, ByPoint, StampedByPoint, Fetch
<1> QED
  BY <1>1, <1>2, <1>3, <1>4, <1>5

(* What is kept of the output when a job stops.                             *)
LEMMA StopKeeps ==
  ASSUME NEW how, Stop(how)
  PROVE  /\ stage' = how
         /\ output = <<>> => output' = <<>>
<1>1. output = <<>> => \A kept \in 0 .. Len(output) : SubSeq(output, 1, kept) = <<>>
  OBVIOUS
<1> QED
  BY <1>1 DEF Stop

LEMMA ControlBegins == JobInit => ControlInv /\ AcceptedInv
<1> SUFFICES ASSUME JobInit PROVE ControlInv /\ AcceptedInv
  OBVIOUS
<1>1. /\ job \in Jobs /\ file = job.ids /\ (planned > 0 => job.program = "reader")
      /\ stage = IF job.program = "reader" THEN "loop" ELSE "start"
      /\ row = 1 /\ opened = FALSE /\ output = <<>> /\ returned = <<>> /\ Unread
  BY DEF JobInit, Init, Unread
<1> QED
  BY <1>1 DEF ControlInv, AcceptedInv, Opening, Ended

LEMMA ControlOpens ==
  ASSUME ControlInv, AcceptedInv,
         LoadFails \/ Load \/ Validate \/ Build \/ Generate \/ OpenReader \/ OpenWriter
  PROVE  ControlInv' /\ AcceptedInv'
<1>1. CASE LoadFails
  <2>1. stage = "start" /\ stage' = "threw" /\ output' = <<>>
        /\ UNCHANGED <<reading, job, config, timestamp_idx, row, batch, opened, order>>
    BY <1>1, StopKeeps DEF LoadFails, ControlInv, Opening
  <2> QED
    BY <2>1 DEF reading, batch, Unread, ControlInv, AcceptedInv, Opening, Ended
<1>2. CASE Load
  <2>1. /\ stage = "start" /\ stage' \in {"help", "crashed", "loaded"}
        /\ stage' = "loaded" => /\ config' = Loaded(job.program, job.source, job.doc)
                                /\ ~ LoadThrows(job.program, job.source, job.doc)
                                /\ job.source # "library" => ~ config'.help
        /\ UNCHANGED <<reading, job, timestamp_idx, row, batch, writing>>
    BY <1>2 DEF Load
  <2> QED
    BY <2>1 DEF reading, writing, batch, Unread, ControlInv, AcceptedInv, Opening, Ended
<1>3. CASE Validate
  <2>1. /\ stage = "loaded" /\ stage' = (IF Accepted THEN "valid" ELSE "refused")
        /\ UNCHANGED <<reading, job, config, timestamp_idx, row, batch, writing>>
    BY <1>3 DEF Validate
  <2> QED
    BY <2>1, Frame DEF reading, writing, batch, Unread, ControlInv, AcceptedInv, Opening, Ended
<1>4. CASE Build
  <2>1. /\ stage = "valid" /\ output' = <<>> /\ stage' = (IF Builds THEN "built" ELSE "threw")
        /\ UNCHANGED <<reading, job, config, timestamp_idx, row, batch, opened, order>>
    BY <1>4, StopKeeps DEF Build, ControlInv, Opening
  <2> QED
    BY <2>1, Frame DEF reading, batch, Unread, ControlInv, AcceptedInv, Opening, Ended
<1>5. CASE Generate
  <2>1. /\ stage = "built" /\ job.program = "ubodt_gen" /\ stage' = "done"
        /\ opened' = Writable /\ (~ Writable => output' = <<>>)
        /\ UNCHANGED <<reading, job, config, timestamp_idx, row, batch, order>>
    BY <1>5 DEF Generate
  <2>2. Writable \in BOOLEAN
    BY DEF Writable
  <2> QED
    BY <2>1, <2>2, Frame DEF reading, batch, Unread, ControlInv, AcceptedInv, Opening, Ended
<1>6. CASE OpenReader
  <2>1. /\ stage = "built" /\ job.program # "ubodt_gen" /\ output' = <<>>
        /\ stage' = (IF ReaderFits THEN "reader" ELSE "threw")
        /\ UNCHANGED <<reading, job, config, row, batch, opened, order>>
    BY <1>6, StopKeeps DEF OpenReader, ControlInv, Opening
  <2> QED
    BY <2>1, Frame DEF reading, batch, Unread, ControlInv, AcceptedInv, Opening, Ended
<1>7. CASE OpenWriter
  <2>1. /\ stage = "reader" /\ stage' = "loop"
        /\ opened' = Writable /\ (~ Writable => output' = <<>>)
        /\ UNCHANGED <<reading, job, config, timestamp_idx, row, batch, order>>
    BY <1>7 DEF OpenWriter
  <2>2. Writable \in BOOLEAN
    BY DEF Writable
  <2> QED
    BY <2>1, <2>2, Frame DEF reading, batch, Unread, ControlInv, AcceptedInv, Opening, Ended
<1> QED
  BY <1>1, <1>2, <1>3, <1>4, <1>5, <1>6, <1>7

\* A step of the loop: it keeps the job, and stays in the loop or stops.
Looping ==
  /\ stage \in {"loop", "read"}
  /\ stage' \in {"loop", "read", "threw", "crashed", "done"}
  /\ stage' # stage => job.program # "reader" \/ stage' = "threw"
  /\ UNCHANGED <<file, planned, job, config, timestamp_idx, opened>>
  /\ ~ opened => output' = <<>>
  /\ job.program = "reader" => UNCHANGED <<trajectories, waiting, order>>
  /\ stage' = "done" => ~ MoreToRead /\ UNCHANGED <<reading, row>>

LEMMA LoopSteps ==
  ASSUME ControlInv,
         \/ ReadRow \/ ReadBadRow \/ BeginPoints \/ TakePoint \/ ReadBadPoint \/ EndPoints
         \/ FetchEnds \/ Match \/ MatchHex \/ Finish \/ Rewind
  PROVE  Looping
<1>1. (~ opened => output = <<>>) /\ (job.program = "reader" => stage \in {"loop", "threw"} /\ ~ opened /\ Unread)
  BY DEF ControlInv
<1>2. CASE ReadRow
  BY <1>1, <1>2 DEF ReadRow, Looping, reading, writing, ByPoint
<1>3. CASE ReadBadRow
  <2>1. stage' \in {"crashed", "threw"} /\ (~ opened => output' = <<>>) /\ job.program # "reader"
    BY <1>1, <1>3, StopKeeps DEF ReadBadRow, ByPoint
  <2> QED
    BY <1>3, <2>1 DEF ReadBadRow, Looping, reading, batch
<1>4. CASE BeginPoints
  BY <1>1, <1>4 DEF BeginPoints, LoopPoints, ReadNext, Looping, batch, writing
<1>5. CASE TakePoint
  BY <1>1, <1>5 DEF TakePoint, LoopPoints, AddPoint, ReadAhead, Looping, batch, writing
<1>6. CASE ReadBadPoint
  <2>1. stage' = "threw" /\ (~ opened => output' = <<>>)
    BY <1>1, <1>6, StopKeeps DEF ReadBadPoint
  <2> QED
    BY <1>6, <2>1 DEF ReadBadPoint, LoopPoints, Looping, reading, batch
<1>7. CASE EndPoints
  BY <1>1, <1>7 DEF EndPoints, LoopPoints, Return, Looping, writing
<1>8. CASE Match
  <2>1. stage = "read" /\ stage' \in {"loop", "read", "crashed"} /\ (~ opened => output' = <<>>)
    <3>1. PICK i, result : WriteMatch(i, result)
      BY <1>8 DEF Match
    <3> QED
      BY <1>1, <1>8, <3>1, StopKeeps DEF Match, WriteMatch, WriteLine
  <2> QED
    BY <1>8, <2>1 DEF Match, Looping, reading
<1>9. CASE MatchHex
  <2>1. PICK i, line : WriteLine(i, line)
    BY <1>9 DEF MatchHex
  <2>2. stage' \in {"loop", "read"} /\ (~ opened => output' = <<>>)
    BY <1>1, <1>9, <2>1 DEF MatchHex, WriteLine
  <2> QED
    BY <1>9, <2>2 DEF MatchHex, Looping, reading
<1>10. CASE Finish
  BY <1>1, <1>10 DEF Finish, Looping, reading, batch, writing
<1>11. CASE Rewind
  BY <1>1, <1>11 DEF Rewind, LoopPoints, ResetCursor, Looping, batch, writing
<1>12. CASE FetchEnds
  BY <1>1, <1>12 DEF FetchEnds, Unread, Looping, reading, writing
<1> QED
  BY <1>2, <1>3, <1>4, <1>5, <1>6, <1>7, <1>8, <1>9, <1>10, <1>11, <1>12

LEMMA ControlLoops ==
  ASSUME ControlInv, AcceptedInv, Looping
  PROVE  ControlInv' /\ AcceptedInv'
<1>1. ControlInv'
  BY DEF ControlInv, Looping, Unread, Opening, Ended
<1>2. UNCHANGED <<job, config>>
  BY DEF Looping
<1>3. stage' = "done" => ~ MoreToRead'
  <2>1. ByPoint' = ByPoint
    BY <1>2, Frame
  <2>2. ASSUME stage' = "done" PROVE ~ MoreToRead /\ MoreToRead' = MoreToRead
    BY <1>2, <2>1, <2>2 DEF Looping, MoreToRead, HasNext, reading
  <2> QED
    BY <2>2
<1>4. AcceptedInv'
  BY <1>2, <1>3, Frame DEF ControlInv, AcceptedInv, Looping, Opening
<1> QED
  BY <1>1, <1>4

LEMMA ControlSteps ==
  ASSUME ControlInv, AcceptedInv, [JobNext]_jobVars
  PROVE  ControlInv' /\ AcceptedInv'
<1>1. CASE UNCHANGED jobVars
  <2>1. UNCHANGED <<file, cursor, prev_line, call, returned, resets, planned,
                    job, stage, config, timestamp_idx, row, trajectories, waiting, opened, output, order>>
    BY <1>1 DEF jobVars, reading, batch, writing
  <2>2. MoreToRead' = MoreToRead
    BY <2>1, Frame DEF MoreToRead, HasNext
  <2>3. ControlInv'
    BY <2>1 DEF ControlInv, Unread
  <2>4. AcceptedInv'
    BY <2>1, <2>2, Frame DEF AcceptedInv
  <2> QED
    BY <2>3, <2>4
<1>2. CASE JobNext
  BY <1>2, ControlOpens, LoopSteps, ControlLoops DEF JobNext, JobStep
<1> QED
  BY <1>1, <1>2

-----------------------------------------------------------------------------
(* What is asked for is a selection of the columns it is asked in.            *)
LEMMA AskedTyped ==
  ASSUME NEW S, NEW columns \in Seq(S), NEW fields
  PROVE  Asked(columns, fields) \in Seq(S) /\ Len(Asked(columns, fields)) <= Len(columns)
<1> DEFINE n == Len(columns)
           More(x, k) == IF columns[k] \in fields THEN Append(x, columns[k]) ELSE x
           Body(f) == [k \in 0 .. n |->
                         IF k = 0 THEN <<>>
                         ELSE IF columns[k] \in fields THEN Append(f[k - 1], columns[k]) ELSE f[k - 1]]
           chosen == CHOOSE f : f = Body(f)
           step == [k \in 1 .. n |-> [x \in Seq(S) |-> More(x, k)]]
<1>1. n \in Nat /\ <<>> \in Seq(S) /\ \A k \in 1 .. n : columns[k] \in S
  OBVIOUS
<1>2. StepsWithin(n, Seq(S), step)
  <2>1. \A k \in 1 .. n : [x \in Seq(S) |-> More(x, k)] \in [Seq(S) -> Seq(S)]
    BY <1>1
  <2> HIDE DEF More
  <2> QED
    BY <2>1 DEF StepsWithin
<1>3. Asked(columns, fields) = chosen[n]
  BY DEF Asked
<1>4. \A k \in 1 .. n : \A x \in Seq(S) : step[k][x] = More(x, k)
  <2> HIDE DEF More
  <2> QED
    OBVIOUS
<1> HIDE DEF step, n
<1>5. PICK f : Recurs(f, n, Seq(S), <<>>, step)
  BY <1>1, <1>2, RecursionExists
<1>6. f = Body(f)
  <2>1. f \in [0 .. n -> Seq(S)] /\ f[0] = <<>>
    BY <1>5 DEF Recurs
  <2>2. ASSUME NEW k \in 1 .. n PROVE f[k] = More(f[k - 1], k)
    <3>1. k - 1 \in 0 .. n
      BY <1>1
    <3>2. f[k - 1] \in Seq(S)
      BY <2>1, <3>1
    <3>3. f[k] = step[k][f[k - 1]]
      BY <1>5 DEF Recurs
    <3> HIDE DEF More
    <3> QED
      BY <1>4, <3>2, <3>3
  <2>3. ASSUME NEW k \in 0 .. n PROVE f[k] = Body(f)[k]
    <3>1. CASE k = 0
      BY <2>1, <3>1
    <3>2. CASE k # 0
      <4>1. k \in 1 .. n
        BY <1>1, <3>2
      <4> QED
        BY <2>2, <3>2, <4>1, Zenon
    <3> QED
      BY <3>1, <3>2
  <2>4. f = [k \in 0 .. n |-> f[k]]
    BY <2>1
  <2> QED
    BY <2>3, <2>4, Zenon
<1>7. chosen = Body(chosen)
  <2> HIDE DEF Body
  <2> QED
    BY <1>6
<1> HIDE DEF chosen
<1>8. /\ chosen = [k \in 0 .. n |-> chosen[k]] /\ chosen[0] = <<>>
      /\ \A k \in 1 .. n : chosen[k] = More(chosen[k - 1], k)
  <2>1. chosen = [k \in 0 .. n |-> chosen[k]]
    BY <1>7
  <2>2. 0 \in 0 .. n /\ \A k \in 1 .. n : k \in 0 .. n /\ k # 0
    BY <1>1
  <2>3. \A k \in 0 .. n : chosen[k] = IF k = 0 THEN <<>> ELSE More(chosen[k - 1], k)
    BY <1>7, Zenon
  <2> HIDE DEF Body, More
  <2> QED
    BY <2>1, <2>2, <2>3
<1>9. Recurs(chosen, n, Seq(S), <<>>, step)
  <2> HIDE DEF More
  <2>1. \A k \in 1 .. n : chosen[k - 1] \in Seq(S) => chosen[k] = step[k][chosen[k - 1]]
    BY <1>4, <1>8
  <2> QED
    BY <1>1, <1>2, <1>8, <2>1, RecursionTyped
<1>10. chosen \in [0 .. n -> Seq(S)]
  BY <1>9 DEF Recurs
<1> DEFINE T == {k \in 0 .. n : Len(chosen[k]) <= k}
<1>11. 0 \in T
  BY <1>1, <1>8
<1>12. ASSUME NEW k \in 1 .. n, k - 1 \in T PROVE k \in T
  <2>1. k \in 0 .. n /\ k - 1 \in 0 .. n /\ Len(chosen[k - 1]) <= k - 1
    BY <1>1, <1>12
  <2>2. chosen[k - 1] \in Seq(S)
    BY <1>10, <2>1
  <2>3. chosen[k] = Append(chosen[k - 1], columns[k]) \/ chosen[k] = chosen[k - 1]
    BY <1>8
  <2>4. Len(chosen[k]) <= k
    BY <1>1, <2>1, <2>2, <2>3
  <2> QED
    BY <2>1, <2>4
<1> HIDE DEF T
<1>13. \A k \in 0 .. n : k \in T
  BY <1>1, <1>11, <1>12, InductionUpTo
<1>14. n \in 0 .. n
  BY <1>1
<1>15. Len(chosen[n]) <= n /\ chosen[n] \in Seq(S)
  BY <1>10, <1>13, <1>14 DEF T
<1> QED
  BY <1>3, <1>15 DEF n

IsFunction(f, n) == f = [k \in 1 .. n |-> f[k]]

Prepend(first, rest) == <<first>> \o rest

\* line is rest, of n cells, behind first.
IsPrepended(line, first, rest, n) ==
  /\ Len(line) = n + 1 /\ line[1] = first
  /\ \A k \in 1 .. n : line[k + 1] = rest[k]
  /\ IsFunction(line, n + 1)

LEMMA Prepended ==
  ASSUME NEW x, NEW n \in Nat, NEW f, IsFunction(f, n)
  PROVE  IsPrepended(Prepend(x, f), x, f, n)
<1>0. f = [k \in 1 .. n |-> f[k]]
  BY DEF IsFunction
<1> DEFINE S == {x} \cup {f[k] : k \in 1 .. n}
<1>1. <<x>> \in Seq(S)
  OBVIOUS
<1>2. \A k \in 1 .. n : f[k] \in S
  OBVIOUS
<1> HIDE DEF S
<1>3. f \in Seq(S) /\ Len(f) = n
  <2>1. f \in [1 .. n -> S]
    BY <1>0, <1>2
  <2> QED
    BY <2>1
<1> DEFINE line == <<x>> \o f
<1>4. /\ line \in Seq(S) /\ Len(line) = n + 1 /\ line[1] = x
      /\ \A k \in 1 .. n : line[k + 1] = f[k]
  BY <1>1, <1>3
<1> HIDE DEF line
<1>5. line = [k \in 1 .. n + 1 |-> line[k]]
  BY <1>4
<1> QED
  BY <1>4, <1>5 DEF IsPrepended, IsFunction, Prepend, line

LEMMA Orders ==
  HeaderOrder = RowOrder /\ RowOrder \in Seq(Fields) /\ Len(RowOrder) = 13
<1>1. HeaderOrder = RowOrder
  BY DEF HeaderOrder, RowOrder
<1>2. Len(RowOrder) = 13 /\ RowOrder \in [1 .. 13 -> Fields]
  BY DEF RowOrder, Fields
<1>3. \A n \in Nat : RowOrder \in [1 .. n -> Fields] => RowOrder \in Seq(Fields)
  OBVIOUS
<1> QED
  BY <1>1, <1>2, <1>3

LEMMA FieldCount == Cardinality(Fields) = 13
<1>1. /\ RowOrder \in [1 .. 13 -> Fields]
      /\ \A f \in Fields : \E k \in 1 .. 13 : RowOrder[k] = f
  BY DEF RowOrder, Fields
<1>2. \A k, l \in 1 .. 13 : RowOrder[k] = RowOrder[l] => k = l
  BY DEF RowOrder
<1>6. \A n \in Nat : IsFiniteSet(1 .. n) /\ Cardinality(1 .. n) = n
  BY FS_Interval
<1> SUFFICES ASSUME NEW n \in Nat, n = 13 PROVE Cardinality(Fields) = n
  OBVIOUS
<1>3. RowOrder \in Surjection(1 .. n, Fields)
  BY <1>1 DEF Surjection
<1>4. RowOrder \in Injection(1 .. n, Fields)
  <2>1. RowOrder \in [1 .. n -> Fields] /\ DOMAIN RowOrder = 1 .. n
    BY <1>1
  <2> QED
    BY <1>2, <2>1 DEF Injection, IsInjective
<1>5. IsFiniteSet(1 .. n) /\ Cardinality(1 .. n) = n
  BY <1>6, Zenon
<1> QED
  BY <1>3, <1>4, <1>5, FS_Surjection

LEMMA FromIs ==
  ASSUME NEW a \in Int, NEW b \in Int
  PROVE  /\ From(a, b) \in Seq(Int)
         /\ Len(From(a, b)) = IF b < a THEN 0 ELSE b - a + 1
         /\ \A k \in 1 .. b - a + 1 : From(a, b)[k] = a + k - 1
<1> DEFINE n == b - a + 1
<1>1. CASE b < a
  <2>1. 1 .. n = {}
    BY <1>1
  <2>2. From(a, b) = <<>>
    BY <2>1 DEF From
  <2> QED
    BY <1>1, <2>1, <2>2
<1>2. CASE ~ (b < a)
  <2>1. n \in Nat
    BY <1>2
  <2>2. From(a, b) = [k \in 1 .. n |-> a + k - 1]
    BY DEF From
  <2>3. \A k \in 1 .. n : a + k - 1 \in Int
    OBVIOUS
  <2> HIDE DEF n
  <2>4. From(a, b) \in Seq(Int) /\ Len(From(a, b)) = n /\ \A k \in 1 .. n : From(a, b)[k] = a + k - 1
    BY <2>1, <2>2, <2>3
  <2> QED
    BY <1>2, <2>4 DEF n
<1> QED
  BY <1>1, <1>2

\* The fields of a line of cells.
Shows(line, n, shown) ==
  /\ Len(line) = n + 1 /\ line[1].of = "id"
  /\ \A k \in 1 .. n : line[k + 1].of = shown[k]

LEMMA FieldsOfLine ==
  ASSUME NEW n \in Nat, NEW shown, IsFunction(shown, n), NEW line, Shows(line, n, shown)
  PROVE  [c \in 1 .. Len(line) |-> line[c].of] = <<"id">> \o shown
<1>0. /\ Len(line) = n + 1 /\ line[1].of = "id"
      /\ \A k \in 1 .. n : line[k + 1].of = shown[k]
  BY DEF Shows
<1> DEFINE header == <<"id">> \o shown
<1>2. /\ header[1] = "id" /\ \A k \in 1 .. n : header[k + 1] = shown[k]
      /\ header = [k \in 1 .. n + 1 |-> header[k]]
  BY Prepended DEF IsPrepended, IsFunction
<1> HIDE DEF header
<1>3. ASSUME NEW c \in 1 .. n + 1 PROVE line[c].of = header[c]
  <2>1. CASE c = 1
    BY <1>0, <1>2, <2>1
  <2>2. CASE c # 1
    <3>1. c - 1 \in 1 .. n /\ (c - 1) + 1 = c
      BY <2>2
    <3>2. line[(c - 1) + 1].of = shown[c - 1] /\ header[(c - 1) + 1] = shown[c - 1]
      BY <1>0, <1>2, <3>1, Zenon
    <3> QED
      BY <3>1, <3>2
  <2> QED
    BY <2>1, <2>2
<1>4. [c \in 1 .. n + 1 |-> line[c].of] = header
  BY <1>2, <1>3
<1> QED
  BY <1>0, <1>4 DEF header

CellsOf(shown, stamps, result) ==
  [k \in 1 .. Len(shown) |-> [of |-> shown[k], at |-> Entries(shown[k], stamps, result)]]

LEMMA CellsOfShown ==
  ASSUME NEW shown \in Seq(Fields), NEW stamps, NEW result
  PROVE  LET rest == CellsOf(shown, stamps, result) IN
         /\ rest = [k \in 1 .. Len(shown) |-> rest[k]]
         /\ \A k \in 1 .. Len(shown) :
              rest[k].of = shown[k] /\ rest[k].at = Entries(shown[k], stamps, result)
BY DEF CellsOf

LEMMA UpTo13 ==
  ASSUME NEW n, NEW m
  PROVE  /\ n \in Nat /\ m = 13 /\ n <= m => n \in 0 .. 13
         /\ n \in 0 .. 13 /\ m = n + 1 => m \in 1 .. 14
OBVIOUS

\* A line as WriteResult writes it, and its header.
LEMMA RowShape ==
  ASSUME NEW fields, NEW stamps, NEW result, NEW line, line = WriteResult(fields, stamps, result)
  PROVE  /\ Len(line) \in 1 .. 14
         /\ line[1].of = "id" /\ line[1].at = <<result.id>>
         /\ \A c \in 2 .. Len(line) : line[c].at = Entries(line[c].of, stamps, result)
         /\ [c \in 1 .. Len(line) |-> line[c].of] = WriteHeader(fields)
<1> DEFINE shown == Asked(RowOrder, fields)
           rest == CellsOf(shown, stamps, result)
           first == [of |-> "id", at |-> <<result.id>>]
<1>1. shown \in Seq(Fields) /\ Len(shown) \in 0 .. 13
  <2>1. Len(shown) <= Len(RowOrder) /\ shown \in Seq(Fields)
    <3>1. RowOrder \in Seq(Fields)
      BY Orders
    <3> QED
      BY <3>1, AskedTyped
  <2>2. Len(RowOrder) = 13
    BY Orders
  <2> HIDE DEF shown
  <2>3. Len(shown) \in Nat
    BY <2>1
  <2>4. Len(shown) \in 0 .. 13
    BY <2>1, <2>2, <2>3, UpTo13, Zenon
  <2> QED
    BY <2>1, <2>4
<1>2. line = <<first>> \o rest /\ WriteHeader(fields) = <<"id">> \o shown
  BY Orders DEF WriteResult, WriteHeader, CellsOf
<1>3. /\ IsFunction(rest, Len(shown))
      /\ \A k \in 1 .. Len(shown) :
           rest[k].of = shown[k] /\ rest[k].at = Entries(shown[k], stamps, result)
  BY <1>1, CellsOfShown DEF IsFunction
<1>4. first.of = "id" /\ first.at = <<result.id>>
  OBVIOUS
<1>5. IsFunction(shown, Len(shown)) /\ Len(shown) \in Nat
  BY <1>1 DEF IsFunction
<1> HIDE DEF shown, rest, first
<1>6. /\ Len(line) = Len(shown) + 1 /\ line[1] = first
      /\ \A k \in 1 .. Len(shown) : line[k + 1] = rest[k]
      /\ [c \in 1 .. Len(line) |-> line[c].of] = <<"id">> \o shown
  <2>1. /\ Len(line) = Len(shown) + 1 /\ line[1] = first
        /\ \A k \in 1 .. Len(shown) : line[k + 1] = rest[k]
    <3>1. PICK n \in Nat : n = Len(shown)
      BY <1>5
    <3>2. IsFunction(rest, n) /\ line = Prepend(first, rest)
      BY <1>2, <1>3, <3>1, Zenon DEF Prepend
    <3>3. IsPrepended(line, first, rest, n)
      BY <3>2, Prepended
    <3> QED
      BY <3>1, <3>3, Zenon DEF IsPrepended
  <2>2. line[1].of = "id"
    BY <1>4, <2>1, Zenon
  <2>3. \A k \in 1 .. Len(shown) : rest[k].of = shown[k]
    BY <1>3
  <2>4. \A k \in 1 .. Len(shown) : line[k + 1].of = shown[k]
    BY <2>1, <2>3, Zenon
  <2>5. IsFunction(shown, Len(shown)) /\ Shows(line, Len(shown), shown)
    BY <1>5, <2>1, <2>2, <2>4, Zenon DEF IsFunction, Shows
  <2>6. [c \in 1 .. Len(line) |-> line[c].of] = <<"id">> \o shown
    <3>1. ASSUME NEW n \in Nat, IsFunction(shown, n), Shows(line, n, shown)
          PROVE  [c \in 1 .. Len(line) |-> line[c].of] = <<"id">> \o shown
      BY ONLY <3>1, n \in Nat, FieldsOfLine
    <3>2. Len(shown) \in Nat
      BY <1>5
    <3> QED
      BY <2>5, <3>1, <3>2, Zenon
  <2> QED
    BY <2>1, <2>6, Zenon
<1>7. ASSUME NEW c \in 2 .. Len(line) PROVE line[c].at = Entries(line[c].of, stamps, result)
  <2>1. c - 1 \in 1 .. Len(shown) /\ (c - 1) + 1 = c
    BY <1>1, <1>6
  <2>2. line[(c - 1) + 1] = rest[c - 1]
    BY <1>6, <2>1, Zenon
  <2> QED
    BY <1>3, <2>1, <2>2
<1>8. Len(line) \in 1 .. 14
  <2>1. Len(line) = Len(shown) + 1 /\ Len(shown) \in 0 .. 13
    BY <1>1, <1>6, Zenon
  <2> QED
    BY <2>1, UpTo13, Zenon
<1>9. line[1].of = "id" /\ line[1].at = <<result.id>>
  BY <1>4, <1>6, Zenon
<1>10. [c \in 1 .. Len(line) |-> line[c].of] = WriteHeader(fields)
  BY <1>2, <1>6, Zenon
<1> QED
  BY <1>7, <1>8, <1>9, <1>10, Zenon

(* The cell of a field that is shown has the entries of the field.          *)
LEMMA CellIs ==
  ASSUME NEW fields, NEW stamps, NEW result, NEW line, line = WriteResult(fields, stamps, result),
         NEW field, field # "id", Shown(line, field)
  PROVE  Cell(line, field) = Entries(field, stamps, result)
<1> DEFINE c == CHOOSE c \in 1 .. Len(line) : line[c].of = field
<1>1. /\ Len(line) \in 1 .. 14 /\ line[1].of = "id"
      /\ \A k \in 2 .. Len(line) : line[k].at = Entries(line[k].of, stamps, result)
  BY RowShape
<1>2. Cell(line, field) = line[c].at
  BY DEF Cell
<1>3. c \in 1 .. Len(line) /\ line[c].of = field
  BY DEF Shown
<1> HIDE DEF c
<1>4. c \in 2 .. Len(line)
  BY <1>1, <1>3
<1> QED
  BY <1>1, <1>2, <1>3, <1>4

LEMMA H3RowShape ==
  ASSUME NEW write_geom, NEW id, NEW hexes,
         NEW line, line = H3WriteResult(write_geom, id, hexes)
  PROVE  /\ Len(line) \in 2 .. 3
         /\ line[1].of = "id" /\ line[1].at = <<id>>
         /\ line[2].of = "hex" /\ line[2].at = hexes
         /\ \A k \in 3 .. Len(line) : line[k].of = "geom"
         /\ [c \in 1 .. Len(line) |-> line[c].of] = H3WriteHeader(write_geom)
<1> DEFINE first == [of |-> "id", at |-> <<id>>]
           second == [of |-> "hex", at |-> hexes]
           third == [of |-> "geom", at |-> hexes]
<1>1. line = IF write_geom THEN Append(<<first, second>>, third) ELSE <<first, second>>
  BY DEF H3WriteResult
<1>2. /\ first.of = "id" /\ first.at = <<id>> /\ second.of = "hex" /\ second.at = hexes
      /\ third.of = "geom"
  OBVIOUS
<1> HIDE DEF first, second, third
<1>4. CASE write_geom
  <2> DEFINE S == {first, second, third}
  <2>1. first \in S /\ second \in S /\ third \in S
    OBVIOUS
  <2> HIDE DEF S
  <2>6. \A a, b \in S : <<a, b>> \in Seq(S) /\ Len(<<a, b>>) = 2 /\ <<a, b>>[1] = a /\ <<a, b>>[2] = b
    OBVIOUS
  <2>7. ASSUME NEW s \in Seq(S), NEW x \in S, Len(s) = 2
        PROVE  Len(Append(s, x)) = 3 /\ Append(s, x)[1] = s[1] /\ Append(s, x)[2] = s[2]
               /\ Append(s, x)[3] = x
    <3>1. /\ Len(Append(s, x)) = Len(s) + 1 /\ Append(s, x)[Len(s) + 1] = x
          /\ \A k \in 1 .. Len(s) : Append(s, x)[k] = s[k]
      OBVIOUS
    <3>2. Len(s) + 1 = 3 /\ 1 \in 1 .. Len(s) /\ 2 \in 1 .. Len(s)
      BY <2>7
    <3> QED
      BY <3>1, <3>2, Zenon
  <2>8. line = Append(<<first, second>>, third)
    BY <1>1, <1>4
  <2>2. Len(line) = 3 /\ line[1] = first /\ line[2] = second /\ line[3] = third
    <3>1. /\ <<first, second>> \in Seq(S) /\ Len(<<first, second>>) = 2
          /\ <<first, second>>[1] = first /\ <<first, second>>[2] = second
      BY <2>1, <2>6, Zenon
    <3>2. PICK s : s = <<first, second>>
      OBVIOUS
    <3>3. s \in Seq(S) /\ Len(s) = 2 /\ s[1] = first /\ s[2] = second /\ line = Append(s, third)
      BY <2>8, <3>1, <3>2, Zenon
    <3>4. /\ Len(Append(s, third)) = 3 /\ Append(s, third)[1] = s[1] /\ Append(s, third)[2] = s[2]
          /\ Append(s, third)[3] = third
      BY <2>1, <2>7, <3>3, Zenon
    <3> QED
      BY <3>3, <3>4, Zenon
  <2>3. [c \in 1 .. 3 |-> line[c].of] = <<"id", "hex", "geom">>
    BY <1>2, <2>2
  <2>4. [c \in 1 .. Len(line) |-> line[c].of] = H3WriteHeader(write_geom)
    BY <1>4, <2>2, <2>3, Zenon DEF H3WriteHeader
  <2>5. Len(line) \in 2 .. 3 /\ \A k \in 3 .. Len(line) : line[k].of = "geom"
    BY <1>2, <2>2
  <2> QED
    BY <1>2, <2>2, <2>4, <2>5, Zenon
<1>5. CASE ~ write_geom
  <2>1. line = <<first, second>>
    BY <1>1, <1>5
  <2>2. Len(line) = 2 /\ line[1] = first /\ line[2] = second
    BY <2>1
  <2>3. [c \in 1 .. 2 |-> line[c].of] = <<"id", "hex">>
    BY <1>2, <2>2
  <2>4. [c \in 1 .. Len(line) |-> line[c].of] = H3WriteHeader(write_geom)
    BY <1>5, <2>2, <2>3, Zenon DEF H3WriteHeader
  <2>5. Len(line) \in 2 .. 3 /\ \A k \in 3 .. Len(line) : line[k].of = "geom"
    BY <2>2
  <2> QED
    BY <1>2, <2>2, <2>4, <2>5, Zenon
<1> QED
  BY <1>4, <1>5

-----------------------------------------------------------------------------
(* Which trajectories have rows.  f are fetched at once, n are delivered,   *)
(* the last t of them are the batch at hand.                                *)
Ordered(o, n, f) ==
  /\ o \in Seq(Nat)
  /\ \A k \in 1 .. Len(o) : o[k] \in 1 .. n /\ (o[k] - 1) \div f = (k - 1) \div f
  /\ \A k, l \in 1 .. Len(o) : o[k] = o[l] => k = l

Whole(n, f) == \E b \in Nat : n = f * b

\* Those of the batch that wait have no row, and all others have.
Shared(o, wait, n, t, f) ==
  /\ Ordered(o, n, f)
  /\ wait \subseteq 1 .. t /\ Len(o) + Cardinality(wait) = n
  /\ \A i \in wait : \A k \in 1 .. Len(o) : o[k] # n - t + i
  /\ Whole(n - t, f)

LEMMA DivisionBounds ==
  ASSUME NEW a \in Nat, NEW f \in Nat \ {0}
  PROVE  /\ a \div f \in Nat
         /\ f * (a \div f) <= a
         /\ a < f * (a \div f) + f
OBVIOUS

LEMMA Multiples ==
  ASSUME NEW f \in Nat \ {0}, NEW a \in Nat, NEW b \in Nat
  PROVE  /\ f * a \in Nat
         /\ f * (a + 1) = f * a + f
         /\ a < b => f * a + f <= f * b
OBVIOUS

LEMMA Quotient ==
  ASSUME NEW f \in Nat \ {0}, NEW b \in Nat, NEW a \in Nat, f * b <= a, a < f * b + f
  PROVE  a \div f = b
<1>1. PICK q \in Nat : q = a \div f /\ f * q <= a /\ a < f * q + f
  BY DivisionBounds
<1>2. f * q \in Nat /\ f * b \in Nat
  BY Multiples
<1>3. ~ (q < b)
  <2>1. q < b => f * q + f <= f * b
    BY Multiples
  <2> QED
    BY <1>1, <1>2, <2>1
<1>4. ~ (b < q)
  <2>1. b < q => f * b + f <= f * q
    BY Multiples
  <2> QED
    BY <1>1, <1>2, <2>1
<1> QED
  BY <1>1, <1>3, <1>4

LEMMA OneBatch ==
  ASSUME NEW f \in Nat \ {0}, NEW n \in Nat, Whole(n, f), NEW x \in n + 1 .. n + f
  PROVE  f * ((x - 1) \div f) = n
<1>1. PICK b \in Nat : n = f * b
  BY DEF Whole
<1>2. x - 1 \in Nat /\ n <= x - 1 /\ x - 1 < n + f
  OBVIOUS
<1>3. (x - 1) \div f = b
  BY <1>1, <1>2, Quotient
<1> QED
  BY <1>1, <1>3

LEMMA SameBatch ==
  ASSUME NEW f \in Nat \ {0}, NEW n \in Nat, Whole(n, f),
         NEW x \in n + 1 .. n + f, NEW y \in n + 1 .. n + f
  PROVE  (x - 1) \div f = (y - 1) \div f
<1>1. PICK b \in Nat : n = f * b
  BY DEF Whole
<1>2. /\ x - 1 \in Nat /\ n <= x - 1 /\ x - 1 < n + f
      /\ y - 1 \in Nat /\ n <= y - 1 /\ y - 1 < n + f
  OBVIOUS
<1>3. (x - 1) \div f = b /\ (y - 1) \div f = b
  BY <1>1, <1>2, Quotient
<1> QED
  BY <1>3

LEMMA OrderedMore ==
  ASSUME NEW o, NEW n \in Nat, NEW f, Ordered(o, n, f), NEW m \in Nat, n <= m
  PROVE  Ordered(o, m, f)
<1>1. \A i \in 1 .. n : i \in 1 .. m
  OBVIOUS
<1> QED
  BY <1>1 DEF Ordered

LEMMA OrderedNone == \A n, f : Ordered(<<>>, n, f)
BY DEF Ordered

\* The batch is read: none of it has a row.
LEMMA ShareOut ==
  ASSUME NEW f \in Nat \ {0}, NEW n \in Nat, NEW t \in Nat, t <= n,
         NEW o, Ordered(o, n - t, f), Len(o) = n - t, Whole(n - t, f)
  PROVE  Shared(o, 1 .. t, n, t, f)
<1>1. n - t \in Nat /\ n - t <= n
  OBVIOUS
<1>2. Ordered(o, n, f)
  BY <1>1, OrderedMore
<1>3. Cardinality(1 .. t) = t
  BY FS_Interval
<1>4. Len(o) + Cardinality(1 .. t) = n
  BY <1>3
<1>5. ASSUME NEW i \in 1 .. t, NEW k \in 1 .. Len(o) PROVE o[k] # n - t + i
  <2>1. o[k] \in 1 .. n - t
    BY DEF Ordered
  <2> QED
    BY <2>1
<1> QED
  BY <1>2, <1>4, <1>5 DEF Shared

\* One of the batch gets its row.
LEMMA ShareOne ==
  ASSUME NEW f \in Nat \ {0}, NEW n \in Nat, NEW t \in 0 .. f, t <= n,
         NEW o, NEW wait, Shared(o, wait, n, t, f), NEW i \in wait
  PROVE  /\ Shared(Append(o, n - t + i), wait \ {i}, n, t, f)
         /\ Len(o) \in Nat /\ n - t + i \in 1 .. n
<1> DEFINE base == n - t
           new == n - t + i
           longer == Append(o, n - t + i)
<1>1. /\ o \in Seq(Nat) /\ Len(o) \in Nat /\ base \in Nat
      /\ i \in 1 .. t /\ new \in base + 1 .. base + f /\ new \in 1 .. n
  BY DEF Shared, Ordered
<1>2. /\ longer \in Seq(Nat) /\ Len(longer) = Len(o) + 1 /\ longer[Len(o) + 1] = new
      /\ \A k \in 1 .. Len(o) : longer[k] = o[k]
  BY <1>1
<1>3. /\ IsFiniteSet(wait) /\ Cardinality(wait) \in Nat /\ Cardinality(wait) <= t
      /\ Cardinality(wait \ {i}) = Cardinality(wait) - 1 /\ Cardinality(wait \ {i}) \in Nat
  <2>1. IsFiniteSet(1 .. t) /\ Cardinality(1 .. t) = t
    BY FS_Interval
  <2>2. wait \in SUBSET (1 .. t)
    BY DEF Shared
  <2>3. IsFiniteSet(wait) /\ Cardinality(wait) <= t
    BY <2>1, <2>2, FS_Subset
  <2>4. IsFiniteSet(wait \ {i}) /\ Cardinality(wait \ {i}) = Cardinality(wait) - 1
    BY <2>3, FS_RemoveElement
  <2> QED
    BY <2>3, <2>4, FS_CardinalityType
<1>4. Len(o) + Cardinality(wait) = n /\ Whole(base, f) /\ \A k \in 1 .. Len(o) : o[k] # new
  BY DEF Shared
<1>5. Len(o) + 1 \in base + 1 .. base + f /\ Len(longer) + Cardinality(wait \ {i}) = n
  <2>1. PICK c \in Nat : c = Cardinality(wait)
    BY <1>3
  <2>2. c <= t /\ Cardinality(wait \ {i}) = c - 1 /\ c - 1 \in Nat /\ Len(o) + c = n
    BY <1>3, <1>4, <2>1
  <2>3. Len(o) + 1 \in base + 1 .. base + f
    BY <1>1, <2>1, <2>2
  <2>4. Len(longer) + (c - 1) = n
    <3>1. PICK m \in Nat : m = Len(o)
      BY <1>1
    <3>2. Len(longer) = m + 1
      BY <1>2, <3>1
    <3> HIDE DEF longer
    <3>3. m + c = n
      BY <2>2, <3>1
    <3> QED
      BY <2>1, <3>1, <3>2, <3>3
  <2> QED
    BY <2>2, <2>3, <2>4
<1> HIDE DEF longer, new, base
<1>6. (new - 1) \div f = ((Len(o) + 1) - 1) \div f
  BY <1>1, <1>4, <1>5, SameBatch
<1>7. Ordered(o, n, f)
  BY DEF Shared
<1>8. ASSUME NEW k \in 1 .. Len(longer)
      PROVE  longer[k] \in 1 .. n /\ (longer[k] - 1) \div f = (k - 1) \div f
  <2>1. CASE k = Len(o) + 1
    BY <1>1, <1>2, <1>6, <2>1
  <2>2. CASE k # Len(o) + 1
    <3>1. k \in 1 .. Len(o)
      BY <1>1, <1>2, <2>2
    <3> QED
      BY <1>2, <1>7, <3>1 DEF Ordered
  <2> QED
    BY <2>1, <2>2
<1>9. ASSUME NEW k \in 1 .. Len(longer), NEW l \in 1 .. Len(longer), longer[k] = longer[l]
      PROVE  k = l
  <2>1. \A m \in 1 .. Len(longer) : m = Len(o) + 1 \/ m \in 1 .. Len(o)
    BY <1>1, <1>2
  <2>2. \A m \in 1 .. Len(o) : longer[m] # longer[Len(o) + 1]
    BY <1>2, <1>4
  <2>3. \A p, q \in 1 .. Len(o) : longer[p] = longer[q] => p = q
    BY <1>2, <1>7 DEF Ordered
  <2> QED
    BY <1>9, <2>1, <2>2, <2>3
<1>10. Ordered(longer, n, f)
  BY <1>2, <1>8, <1>9 DEF Ordered
<1>11. ASSUME NEW j \in wait \ {i}, NEW k \in 1 .. Len(longer) PROVE longer[k] # base + j
  <2>1. j \in 1 .. t
    BY DEF Shared
  <2>2. CASE k = Len(o) + 1
    <3>1. new # base + j
      BY <1>1, <2>1 DEF new, base
    <3> QED
      BY <1>2, <2>2, <3>1
  <2>3. CASE k # Len(o) + 1
    <3>1. k \in 1 .. Len(o)
      BY <1>1, <1>2, <2>3
    <3> QED
      BY <1>2, <3>1 DEF Shared, base
  <2> QED
    BY <2>2, <2>3
<1>12. wait \ {i} \subseteq 1 .. t
  BY DEF Shared
<1> QED
  BY <1>1, <1>4, <1>5, <1>10, <1>11, <1>12 DEF Shared, longer, new, base

\* All of the batch have their rows.
LEMMA ShareEnds ==
  ASSUME NEW o, NEW n \in Nat, NEW t, NEW f, Shared(o, {}, n, t, f)
  PROVE  Ordered(o, n, f) /\ Len(o) = n
<1>1. Cardinality({}) = 0
  BY FS_EmptySet
<1>2. Ordered(o, n, f) /\ Len(o) + Cardinality({}) = n /\ o \in Seq(Nat)
  BY DEF Shared, Ordered
<1> QED
  BY <1>1, <1>2

-----------------------------------------------------------------------------
Trajs == [id : Nat, points : Seq(Cells), stamps : Nat]

\* A trajectory as it is delivered, with fitting timestamps.
IsRead(traj, delivered, stamped) ==
  /\ traj.id = delivered.id /\ traj.points = delivered.points
  /\ stamped => traj.stamps \in {0, Len(traj.points)}

\* A batch is what was delivered last.
IsBatch(trajs, delivered, stamped) ==
  /\ Len(trajs) <= Len(delivered)
  /\ \A i \in 1 .. Len(trajs) : IsRead(trajs[i], delivered[Len(delivered) - Len(trajs) + i], stamped)

RowsInv ==
  /\ row \in 1 .. Len(job.trajs) + 1
  /\ trajectories \in Seq(Trajs)
  /\ trajectories # <<>> => IsBatch(trajectories, Delivered, StampedByPoint)

\* Another trajectory was delivered.
Grown ==
  /\ Len(Delivered') = Len(Delivered) + 1
  /\ \A k \in 1 .. Len(Delivered) : Delivered'[k] = Delivered[k]
  /\ \/ job.program = "reader" /\ trajectories' = trajectories
     \/ \E traj \in Trajs :
          /\ trajectories' = Append(trajectories, traj)
          /\ IsRead(traj, Delivered'[Len(Delivered')], StampedByPoint)

PointsOf(places, geom) == [j \in 1 .. Len(geom) |-> places[geom[j]]]

DeliveredOf(by_point, trajs, next, j) ==
  IF by_point THEN [k \in 1 .. Len(trajs) |-> [id |-> trajs[k].id, points |-> PointsOf(j.places, trajs[k].geom)]]
  ELSE [k \in 1 .. next - 1 |-> j.trajs[k]]

LEMMA JobIs ==
  ASSUME job \in Jobs
  PROVE  /\ Len(job.trajs) \in Nat
         /\ \A k \in 1 .. Len(job.trajs) :
              job.trajs[k] \in [id : Nat, points : Seq(Cells), stamps : Nat]
         /\ job.places \in Seq(Cells) /\ Len(job.places) = Len(job.ids)
<1>1. /\ job.trajs \in Seq([id : Nat, points : Seq(Cells), stamps : Nat])
      /\ job.places \in Seq(Cells) /\ Len(job.places) = Len(job.ids)
  BY JobAssumption
<1> DEFINE S == [id : Nat, points : Seq(Cells), stamps : Nat]
<1>2. job.trajs \in Seq(S)
  BY <1>1
<1> HIDE DEF S
<1>3. Len(job.trajs) \in Nat /\ \A k \in 1 .. Len(job.trajs) : job.trajs[k] \in S
  BY <1>2
<1> QED
  BY <1>1, <1>3 DEF S

LEMMA LenIs ==
  ASSUME NEW n \in Nat, NEW f, f = [k \in 1 .. n |-> f[k]]
  PROVE  Len(f) = n
OBVIOUS

PointsDelivered(delivered, trajs, j) ==
  /\ Len(delivered) = Len(trajs)
  /\ \A k \in 1 .. Len(trajs) :
       delivered[k] = [id |-> trajs[k].id, points |-> PointsOf(j.places, trajs[k].geom)]

RowsDelivered(delivered, next, j) ==
  /\ Len(delivered) = next - 1
  /\ \A k \in 1 .. next - 1 : delivered[k] = j.trajs[k]

LEMMA DeliveredPoints ==
  ASSUME NEW trajs, Len(trajs) \in Nat, NEW next, NEW j
  PROVE  PointsDelivered(DeliveredOf(TRUE, trajs, next, j), trajs, j)
<1> DEFINE delivered == DeliveredOf(TRUE, trajs, next, j)
<1>1. delivered = [k \in 1 .. Len(trajs) |->
                     [id |-> trajs[k].id, points |-> PointsOf(j.places, trajs[k].geom)]]
  BY DEF DeliveredOf
<1> HIDE DEF delivered
<1>2. \A k \in 1 .. Len(trajs) :
        delivered[k] = [id |-> trajs[k].id, points |-> PointsOf(j.places, trajs[k].geom)]
  BY <1>1, Zenon
<1>3. delivered = [k \in 1 .. Len(trajs) |-> delivered[k]]
  BY <1>1, <1>2, Zenon
<1>4. Len(delivered) = Len(trajs)
  BY <1>3, LenIs, Zenon
<1> QED
  BY <1>2, <1>4, Zenon DEF delivered, PointsDelivered

LEMMA DeliveredRows ==
  ASSUME NEW trajs, NEW next \in Nat \ {0}, NEW j
  PROVE  RowsDelivered(DeliveredOf(FALSE, trajs, next, j), next, j)
<1> DEFINE delivered == DeliveredOf(FALSE, trajs, next, j)
<1>1. delivered = [k \in 1 .. next - 1 |-> j.trajs[k]]
  BY DEF DeliveredOf
<1> HIDE DEF delivered
<1>2. \A k \in 1 .. next - 1 : delivered[k] = j.trajs[k]
  BY <1>1, Zenon
<1>3. delivered = [k \in 1 .. next - 1 |-> delivered[k]]
  BY <1>1, <1>2, Zenon
<1>4. next - 1 \in Nat
  OBVIOUS
<1>5. Len(delivered) = next - 1
  BY <1>3, <1>4, LenIs, Zenon
<1> QED
  BY <1>2, <1>5, Zenon DEF delivered, RowsDelivered

LEMMA DeliveredIs ==
  /\ ByPoint /\ Len(returned) \in Nat => PointsDelivered(Delivered, returned, job)
  /\ ByPoint' /\ Len(returned') \in Nat => PointsDelivered(Delivered', returned', job')
  /\ ~ ByPoint /\ row \in Nat \ {0} => RowsDelivered(Delivered, row, job)
  /\ ~ ByPoint' /\ row' \in Nat \ {0} => RowsDelivered(Delivered', row', job')
<1>1. ByPoint => Delivered = DeliveredOf(TRUE, returned, row, job)
  BY DEF Delivered, DeliveredOf, PointsOf
<1>2. ByPoint' => Delivered' = DeliveredOf(TRUE, returned', row', job')
  BY DEF Delivered, DeliveredOf, PointsOf
<1>3. ~ ByPoint => Delivered = DeliveredOf(FALSE, returned, row, job)
  BY DEF Delivered, DeliveredOf
<1>4. ~ ByPoint' => Delivered' = DeliveredOf(FALSE, returned', row', job')
  BY DEF Delivered, DeliveredOf
<1> QED
  BY <1>1, <1>2, <1>3, <1>4, DeliveredPoints, DeliveredRows, Zenon

LEMMA DeliveredLen ==
  ASSUME TypeOK, row \in Nat \ {0}
  PROVE  /\ Len(Delivered) = IF ByPoint THEN Len(returned) ELSE row - 1
         /\ Len(Delivered) \in Nat
<1>1. Len(returned) \in Nat /\ row - 1 \in Nat
  <2>1. returned \in Seq([id : Nat, geom : Seq(Rows)])
    BY DEF TypeOK
  <2> QED
    BY <2>1
<1>2. CASE ByPoint
  <2>1. Len(Delivered) = Len(returned)
    BY <1>1, <1>2, DeliveredIs DEF PointsDelivered
  <2> QED
    BY <1>1, <1>2, <2>1
<1>3. CASE ~ ByPoint
  <2>1. Len(Delivered) = row - 1
    BY <1>3, DeliveredIs DEF RowsDelivered
  <2> QED
    BY <1>1, <1>3, <2>1
<1> QED
  BY <1>2, <1>3

LEMMA RowReadGrows ==
  ASSUME ControlInv, TypeOK, TypeOK', RowsInv, ReadRow
  PROVE  Grown /\ row' \in 1 .. Len(job'.trajs) + 1
<1> DEFINE traj == [id |-> job.trajs[row].id, points |-> job.trajs[row].points,
                    stamps |-> IF Mode = 1 /\ timestamp_idx >= 0 THEN job.trajs[row].stamps ELSE 0]
<1>1. /\ ~ ByPoint /\ row' = row + 1 /\ row <= Len(job.trajs)
      /\ trajectories' = Append(trajectories, traj)
      /\ UNCHANGED <<job, config, output>>
  BY DEF ReadRow, MoreToRead, writing
<1>2. /\ row \in 1 .. Len(job.trajs) + 1 /\ Len(job.trajs) \in Nat
      /\ \A k \in 1 .. Len(job.trajs) :
           job.trajs[k] \in [id : Nat, points : Seq(Cells), stamps : Nat]
  BY JobIs DEF ControlInv, RowsInv
<1>3. row \in 1 .. Len(job.trajs) /\ row' \in 1 .. Len(job.trajs) + 1 /\ row' \in Nat \ {0} /\ row \in Nat \ {0}
  BY <1>1, <1>2
<1>4. ByPoint' = ByPoint /\ StampedByPoint' = StampedByPoint
  BY <1>1, Frame
<1>5. /\ Len(Delivered) = row - 1 /\ \A k \in 1 .. row - 1 : Delivered[k] = job.trajs[k]
  <2>1. RowsDelivered(Delivered, row, job)
    BY <1>1, <1>3, DeliveredIs, Zenon
  <2> QED
    BY <2>1, Zenon DEF RowsDelivered
<1>6. /\ Len(Delivered') = row' - 1 /\ \A k \in 1 .. row' - 1 : Delivered'[k] = job'.trajs[k]
  <2>1. RowsDelivered(Delivered', row', job')
    BY <1>1, <1>3, <1>4, DeliveredIs, Zenon
  <2> QED
    BY <2>1, Zenon DEF RowsDelivered
<1>7. /\ Len(Delivered') = Len(Delivered) + 1
      /\ \A k \in 1 .. Len(Delivered) : Delivered'[k] = Delivered[k]
      /\ Delivered'[Len(Delivered')] = job.trajs[row]
  <2>1. Len(Delivered') = row /\ \A k \in 1 .. row : Delivered'[k] = job.trajs[k]
    BY <1>1, <1>3, <1>6
  <2>2. Delivered'[row] = job.trajs[row]
    BY <1>3, <2>1
  <2>3. Len(Delivered') = Len(Delivered) + 1
    BY <1>3, <1>5, <2>1
  <2>4. \A k \in 1 .. Len(Delivered) : Delivered'[k] = Delivered[k]
    BY <1>3, <1>5, <2>1
  <2> QED
    BY <2>1, <2>2, <2>3, <2>4
<1>8. job.trajs[row] \in [id : Nat, points : Seq(Cells), stamps : Nat]
  BY <1>2, <1>3
<1>9. traj \in Trajs
  BY <1>8 DEF Trajs
<1>10. IsRead(traj, job.trajs[row], StampedByPoint)
  <2>1. StampedByPoint => job.trajs[row].stamps \in {0, Len(job.trajs[row].points)}
    BY <1>3 DEF StampedByPoint
  <2>2. /\ traj.id = job.trajs[row].id /\ traj.points = job.trajs[row].points
        /\ traj.stamps = IF Mode = 1 /\ timestamp_idx >= 0 THEN job.trajs[row].stamps ELSE 0
    OBVIOUS
  <2> HIDE DEF traj
  <2> QED
    BY <2>1, <2>2 DEF IsRead
<1> HIDE DEF traj
<1>11. IsRead(traj, Delivered'[Len(Delivered')], StampedByPoint)
  BY <1>7, <1>10
<1>12. Grown
  BY <1>1, <1>7, <1>9, <1>11 DEF Grown
<1> QED
  BY <1>1, <1>3, <1>12

LEMMA PointsReadGrow ==
  ASSUME ControlInv, TypeOK, TypeOK', RowsInv, EndPoints
  PROVE  Grown /\ row' \in 1 .. Len(job'.trajs) + 1
<1> DEFINE traj == [id |-> TrajId, points |-> PointsOf(job.places, call.geom),
                    stamps |-> IF HasTimestamp THEN Len(call.geom) ELSE 0]
<1>1. /\ ByPoint
      /\ returned' = Append(returned, [id |-> TrajId, geom |-> call.geom])
      /\ trajectories' = IF job.program = "reader" THEN trajectories ELSE Append(trajectories, traj)
      /\ UNCHANGED <<job, config, row, output>>
  BY DEF EndPoints, LoopPoints, Return, writing, PointsOf
<1>2. /\ returned \in Seq([id : Nat, geom : Seq(Rows)]) /\ call.geom \in Seq(Rows)
      /\ returned' \in Seq([id : Nat, geom : Seq(Rows)]')
  BY DEF TypeOK
<1> DEFINE n == Len(returned)
           new == [id |-> TrajId, geom |-> call.geom]
<1>3. /\ n \in Nat /\ Len(returned') = n + 1 /\ returned'[n + 1] = new
      /\ \A k \in 1 .. n : returned'[k] = returned[k]
  <2> HIDE DEF new
  <2>1. returned' = Append(returned, new)
    BY <1>1 DEF new
  <2> QED
    BY <1>2, <2>1
<1>4. /\ ByPoint' = ByPoint /\ StampedByPoint' = StampedByPoint
  BY <1>1, Frame
<1>5. row \in Nat \ {0} /\ row' \in Nat \ {0}
  <2>1. Len(job.trajs) \in Nat
    BY JobIs DEF ControlInv
  <2> QED
    BY <1>1, <2>1 DEF RowsInv
<1>6. /\ Len(Delivered) = n
      /\ \A k \in 1 .. n :
           Delivered[k] = [id |-> returned[k].id, points |-> PointsOf(job.places, returned[k].geom)]
  <2>1. PointsDelivered(Delivered, returned, job)
    BY <1>1, <1>3, DeliveredIs, Zenon
  <2> QED
    BY <2>1, Zenon DEF PointsDelivered
<1>7. /\ Len(Delivered') = n + 1
      /\ \A k \in 1 .. n + 1 :
           Delivered'[k] = [id |-> returned'[k].id, points |-> PointsOf(job.places, returned'[k].geom)]
  <2>1. ByPoint' /\ Len(returned') = n + 1 /\ Len(returned') \in Nat
    BY <1>1, <1>3, <1>4
  <2>2. /\ Len(Delivered') = Len(returned')
        /\ \A k \in 1 .. Len(returned') :
             Delivered'[k] = [id |-> returned'[k].id, points |-> PointsOf(job.places, returned'[k].geom)]
    <3>1. PointsDelivered(Delivered', returned', job')
      BY <2>1, DeliveredIs, Zenon
    <3>2. job' = job
      BY <1>1
    <3> QED
      BY <3>1, <3>2, Zenon DEF PointsDelivered
  <2> QED
    BY <2>1, <2>2
<1>8. /\ Len(Delivered') = Len(Delivered) + 1
      /\ \A k \in 1 .. Len(Delivered) : Delivered'[k] = Delivered[k]
      /\ Delivered'[Len(Delivered')] = [id |-> new.id, points |-> PointsOf(job.places, new.geom)]
  <2>1. \A k \in 1 .. n : Delivered'[k] = Delivered[k]
    BY <1>3, <1>6, <1>7
  <2>2. n + 1 \in 1 .. n + 1
    BY <1>3
  <2>3. Delivered'[n + 1] = [id |-> new.id, points |-> PointsOf(job.places, new.geom)]
    BY <1>3, <1>7, <2>2
  <2> QED
    BY <1>6, <1>7, <2>1, <2>3
<1>9. new.id \in Nat
  <2>1. n + 1 \in 1 .. Len(returned')
    BY <1>3
  <2>2. \A S : \A s \in Seq(S) : \A k \in 1 .. Len(s) : s[k] \in S
    OBVIOUS
  <2>3. returned'[n + 1] \in [id : Nat, geom : Seq(Rows)]'
    BY <1>2, <2>1, <2>2, Zenon
  <2> QED
    BY <1>3, <2>3
<1>10. PointsOf(job.places, call.geom) \in Seq(Cells) /\ Len(PointsOf(job.places, call.geom)) = Len(call.geom)
       /\ Len(call.geom) \in Nat
  <2>1. /\ job.places \in Seq(Cells) /\ Len(job.places) = Len(file)
    BY JobIs DEF ControlInv
  <2>2. \A k \in 1 .. Len(call.geom) : call.geom[k] \in 1 .. Len(file)
    BY <1>2 DEF Rows
  <2>3. Len(call.geom) \in Nat
    BY <1>2
  <2>4. \A k \in 1 .. Len(call.geom) : job.places[call.geom[k]] \in Cells
    BY <2>1, <2>2
  <2> QED
    BY <2>3, <2>4 DEF PointsOf
<1>11. traj \in Trajs
  BY <1>9, <1>10 DEF Trajs
<1>12. IsRead(traj, [id |-> new.id, points |-> PointsOf(job.places, new.geom)], StampedByPoint)
  <2>1. /\ traj.id = new.id /\ traj.points = PointsOf(job.places, new.geom)
        /\ traj.stamps \in {0, Len(traj.points)}
    BY <1>10
  <2> HIDE DEF traj
  <2> QED
    BY <2>1 DEF IsRead
<1> HIDE DEF traj
<1>13. IsRead(traj, Delivered'[Len(Delivered')], StampedByPoint)
  BY <1>8, <1>12
<1>14. Grown
  BY <1>1, <1>8, <1>11, <1>13 DEF Grown
<1> QED
  BY <1>1, <1>14 DEF RowsInv

LEMMA Longer ==
  ASSUME NEW S, NEW s \in Seq(S), NEW x \in S
  PROVE  /\ Append(s, x) \in Seq(S) /\ Append(s, x) # <<>>
         /\ Len(Append(s, x)) = Len(s) + 1 /\ Append(s, x)[Len(s) + 1] = x
         /\ \A i \in 1 .. Len(s) : Append(s, x)[i] = s[i]
         /\ Len(s) \in Nat
OBVIOUS

LEMMA BatchGrows ==
  ASSUME NEW trajs \in Seq(Trajs), NEW delivered, Len(delivered) \in Nat, NEW stamped,
         trajs # <<>> => IsBatch(trajs, delivered, stamped),
         NEW more, Len(more) = Len(delivered) + 1, \A k \in 1 .. Len(delivered) : more[k] = delivered[k],
         NEW traj \in Trajs, IsRead(traj, more[Len(more)], stamped)
  PROVE  /\ Append(trajs, traj) \in Seq(Trajs) /\ Append(trajs, traj) # <<>>
         /\ Len(Append(trajs, traj)) = Len(trajs) + 1
         /\ IsBatch(Append(trajs, traj), more, stamped)
<1> DEFINE longer == Append(trajs, traj)
           t == Len(trajs)
           n == Len(delivered)
<1>1. /\ longer \in Seq(Trajs) /\ longer # <<>> /\ Len(longer) = t + 1 /\ longer[t + 1] = traj
      /\ \A i \in 1 .. t : longer[i] = trajs[i]
      /\ t \in Nat
  BY Longer
<1>2. t <= n /\ \A i \in 1 .. t : IsRead(trajs[i], delivered[n - t + i], stamped)
  <2>1. CASE trajs = <<>>
    BY <2>1
  <2>2. CASE trajs # <<>>
    BY <2>2 DEF IsBatch
  <2> QED
    BY <2>1, <2>2
<1>3. n \in Nat /\ Len(more) = n + 1 /\ IsRead(traj, more[n + 1], stamped)
      /\ \A k \in 1 .. n : more[k] = delivered[k]
  OBVIOUS
<1> HIDE DEF longer, t, n
<1>4. ASSUME NEW i \in 1 .. t + 1
      PROVE  IsRead(longer[i], more[(n + 1) - (t + 1) + i], stamped)
  <2>1. (n + 1) - (t + 1) + i = n - t + i
    BY <1>1, <1>3
  <2>2. CASE i = t + 1
    <3>1. n - t + i = n + 1
      BY <1>1, <1>3, <2>2
    <3> QED
      BY <1>1, <1>3, <2>1, <2>2, <3>1
  <2>3. CASE i # t + 1
    <3>1. i \in 1 .. t /\ n - t + i \in 1 .. n
      BY <1>1, <1>2, <1>3, <2>3
    <3> QED
      BY <1>1, <1>2, <1>3, <2>1, <3>1
  <2> QED
    BY <2>2, <2>3
<1>5. t + 1 <= n + 1
  BY <1>1, <1>2, <1>3
<1>6. IsBatch(longer, more, stamped)
  BY <1>1, <1>3, <1>4, <1>5 DEF IsBatch
<1> QED
  BY <1>1, <1>6 DEF longer, t

LEMMA RowsGrow ==
  ASSUME ControlInv, TypeOK, TypeOK', RowsInv, ReadRow \/ EndPoints
  PROVE  /\ RowsInv' /\ Grown
         /\ job.program # "reader" => /\ trajectories' # <<>>
                                      /\ Len(trajectories') = Len(trajectories) + 1
<1>1. Grown /\ row' \in 1 .. Len(job'.trajs) + 1 /\ UNCHANGED <<job, config>>
  BY RowReadGrows, PointsReadGrow DEF ReadRow, EndPoints
<1>2. Len(Delivered) \in Nat
  BY DeliveredLen, JobIs DEF RowsInv, ControlInv
<1>3. StampedByPoint' = StampedByPoint
  BY <1>1, Frame
<1>4. trajectories \in Seq(Trajs) /\ (trajectories # <<>> => IsBatch(trajectories, Delivered, StampedByPoint))
  BY DEF RowsInv
<1>5. CASE job.program = "reader"
  <2>1. trajectories = <<>> /\ trajectories' = trajectories
    BY <1>5 DEF ControlInv, Unread, ReadRow, EndPoints, ByPoint
  <2> QED
    BY <1>1, <1>4, <1>5, <2>1 DEF RowsInv
<1>6. CASE job.program # "reader"
  <2>1. PICK traj \in Trajs : /\ trajectories' = Append(trajectories, traj)
                             /\ IsRead(traj, Delivered'[Len(Delivered')], StampedByPoint)
    BY <1>1, <1>6 DEF Grown
  <2>2. /\ trajectories' \in Seq(Trajs) /\ trajectories' # <<>>
        /\ Len(trajectories') = Len(trajectories) + 1
        /\ IsBatch(trajectories', Delivered', StampedByPoint)
    <3>1. Len(Delivered') = Len(Delivered) + 1 /\ \A k \in 1 .. Len(Delivered) : Delivered'[k] = Delivered[k]
      BY <1>1 DEF Grown
    <3>2. IsRead(traj, Delivered'[Len(Delivered')], StampedByPoint)
      BY <2>1
    <3>3. LET longer == Append(trajectories, traj) IN
          /\ longer \in Seq(Trajs) /\ longer # <<>>
          /\ Len(longer) = Len(trajectories) + 1
          /\ IsBatch(longer, Delivered', StampedByPoint)
      BY <1>2, <1>4, <3>1, <3>2, BatchGrows, Zenon
    <3> QED
      BY <2>1, <3>3, Zenon
  <2> QED
    BY <1>1, <1>3, <1>6, <2>2 DEF RowsInv
<1> QED
  BY <1>5, <1>6

LEMMA RowsStay ==
  ASSUME RowsInv, UNCHANGED <<row, job>>, trajectories' \in {trajectories, <<>>},
         trajectories' # <<>> => UNCHANGED <<config, returned>>
  PROVE  RowsInv'
<1>1. StampedByPoint' = StampedByPoint
  BY DEF StampedByPoint
<1>2. trajectories' # <<>> => Delivered' = Delivered
  BY DEF Delivered, ByPoint, Mode
<1>3. <<>> \in Seq(Trajs)
  OBVIOUS
<1> QED
  BY <1>1, <1>2, <1>3 DEF RowsInv

-----------------------------------------------------------------------------
\* The trajectories read before the batch at hand.
Base == Len(Delivered) - Len(trajectories)

\* The fetch is not over.
Goes == MoreToRead \/ call # Idle \/ trajectories # <<>>

\* Every whole batch before the one at hand has its rows, one each.
OrderInv ==
  /\ Ordered(order, Len(Delivered), Fetch)
  /\ waiting \subseteq 1 .. Len(trajectories)
  /\ job.program # "reader" =>
       /\ stage \in {"loop", "read"} => Len(trajectories) <= Fetch
       /\ stage = "loop" =>
            /\ Ordered(order, Base, Fetch) /\ Len(order) = Base
            /\ Goes => Whole(Base, Fetch)
       /\ stage = "read" =>
            /\ Shared(order, waiting, Len(Delivered), Len(trajectories), Fetch)
            /\ call = Idle /\ (Len(trajectories) = Fetch \/ ~ MoreToRead)
       /\ stage = "done" /\ job.program # "ubodt_gen" => Len(order) = Len(Delivered)
       /\ stage = "threw" /\ opened => Len(order) = Fetch * (Len(Delivered) \div Fetch)

LEMMA FetchTyped == Fetch \in Nat \ {0} /\ Fetch' \in Nat \ {0}
<1>1. Buffer \in Nat \ {0}
  BY JobAssumption
<1> QED
  BY <1>1 DEF Fetch

LEMMA BatchSizes ==
  ASSUME ControlInv, RowsInv, TypeOK
  PROVE  /\ Len(Delivered) \in Nat /\ Len(trajectories) \in Nat
         /\ Len(trajectories) <= Len(Delivered) /\ Fetch \in Nat \ {0}
         /\ Base \in Nat /\ Base + Len(trajectories) = Len(Delivered)
<1>1. Len(Delivered) \in Nat
  BY DeliveredLen, JobIs DEF RowsInv, ControlInv
<1>2. trajectories \in Seq(Trajs) /\ Len(trajectories) \in Nat
  BY DEF RowsInv
<1>3. Len(trajectories) <= Len(Delivered)
  <2>1. trajectories = <<>> \/ IsBatch(trajectories, Delivered, StampedByPoint)
    BY DEF RowsInv
  <2> QED
    BY <1>1, <2>1 DEF IsBatch
<1>4. Fetch \in Nat \ {0}
  BY FetchTyped
<1> QED
  BY <1>1, <1>2, <1>3, <1>4 DEF Base

LEMMA DeliveredSame ==
  ASSUME UNCHANGED <<job, config, row, returned>>
  PROVE  Delivered' = Delivered
BY DEF Delivered, ByPoint, Mode

LEMMA NoneDelivered ==
  ASSUME row' = 1, returned' = <<>>
  PROVE  Len(Delivered') = 0
<1>1. row' \in Nat \ {0} /\ Len(returned') = 0 /\ Len(returned') \in Nat /\ row' - 1 = 0
  OBVIOUS
<1>2. ByPoint' => Len(Delivered') = Len(returned')
  BY <1>1, DeliveredIs, Zenon DEF PointsDelivered
<1>3. ~ ByPoint' => Len(Delivered') = row' - 1
  BY <1>1, DeliveredIs, Zenon DEF RowsDelivered
<1> QED
  BY <1>1, <1>2, <1>3, Zenon

\* The job is on the way to its loop, or reaches it.
LEMMA OpeningStep ==
  ASSUME ControlInv, AcceptedInv,
         LoadFails \/ Load \/ Validate \/ Build \/ Generate \/ OpenReader \/ OpenWriter
  PROVE  /\ stage \in Opening /\ ~ opened /\ row = 1 /\ returned = <<>> /\ output = <<>>
         /\ job.program # "reader" /\ Unread
         /\ UNCHANGED <<job, row, returned, trajectories, waiting, order>>
         /\ stage' # "read"
         /\ stage' = "loop" => OpenWriter
         /\ stage' = "done" => job.program = "ubodt_gen"
         /\ stage' = "threw" => ~ opened'
<1>1. /\ stage \in Opening /\ UNCHANGED <<job, row, returned, trajectories, waiting, order>>
      /\ stage' # "read" /\ (stage' = "loop" => OpenWriter)
      /\ stage' = "done" => job.program = "ubodt_gen"
      /\ stage' = "threw" => opened' = opened
  BY DEF LoadFails, Load, Validate, Build, Generate, OpenReader, OpenWriter, Stop, reading, batch, writing,
         Opening
<1> QED
  BY <1>1 DEF ControlInv, Opening

LEMMA OrderOpens ==
  ASSUME ControlInv, AcceptedInv,
         LoadFails \/ Load \/ Validate \/ Build \/ Generate \/ OpenReader \/ OpenWriter
  PROVE  OrderInv'
<1>1. /\ trajectories' = <<>> /\ waiting' = {} /\ order' = <<>> /\ row' = 1 /\ returned' = <<>>
      /\ stage' # "read" /\ (stage' = "done" => job'.program = "ubodt_gen") /\ (stage' = "threw" => ~ opened')
  BY OpeningStep DEF Unread
<1>2. \A n, f : Ordered(order', n, f)
  BY <1>1, OrderedNone
<1>3. Len(Delivered') = 0 /\ Len(trajectories') = 0 /\ Len(order') = 0 /\ Base' = 0
  BY <1>1, NoneDelivered DEF Base
<1>4. Fetch' \in Nat \ {0}
  BY FetchTyped
<1>5. Whole(Base', Fetch')
  <2>1. \A f \in Nat : 0 = f * 0
    OBVIOUS
  <2> QED
    BY <1>3, <1>4, <2>1 DEF Whole
<1>6. Len(trajectories') <= Fetch'
  BY <1>3, <1>4
<1> QED
  BY <1>1, <1>2, <1>3, <1>5, <1>6 DEF OrderInv

LEMMA OrderDelivers ==
  ASSUME ControlInv, RowsInv, OrderInv, TypeOK, TypeOK', ReadRow \/ EndPoints
  PROVE  OrderInv'
<1>1. /\ stage = "loop" /\ Room /\ stage' = stage
      /\ UNCHANGED <<job, config, waiting, order, opened>> /\ Goes
  <2>1. CASE ReadRow
    BY <2>1 DEF ReadRow, Goes, writing
  <2>2. CASE EndPoints
    BY <2>2 DEF EndPoints, LoopPoints, Return, Goes, writing
  <2> QED
    BY <2>1, <2>2
<1>2. /\ Len(Delivered) \in Nat /\ Len(trajectories) \in Nat /\ Fetch \in Nat \ {0} /\ Base \in Nat
  BY BatchSizes
<1>3. Len(Delivered') = Len(Delivered) + 1
  BY RowsGrow DEF Grown
<1>4. Fetch' = Fetch
  BY <1>1, Frame
<1>5. Ordered(order', Len(Delivered'), Fetch')
  <2>1. Ordered(order, Len(Delivered), Fetch)
    BY DEF OrderInv
  <2>2. Len(Delivered') \in Nat /\ Len(Delivered) <= Len(Delivered')
    BY <1>2, <1>3
  <2> QED
    BY <1>1, <1>2, <1>4, <2>1, <2>2, OrderedMore
<1>6. CASE job.program = "reader"
  <2>1. waiting' = {}
    BY <1>1, <1>6 DEF ControlInv, Unread
  <2> QED
    BY <1>1, <1>5, <1>6, <2>1 DEF OrderInv
<1>7. CASE job.program # "reader"
  <2>1. Len(trajectories') = Len(trajectories) + 1
    BY <1>7, RowsGrow
  <2>2. Base' = Base
    BY <1>2, <1>3, <2>1 DEF Base
  <2>3. Ordered(order, Base, Fetch) /\ Len(order) = Base /\ Whole(Base, Fetch)
    BY <1>1, <1>7 DEF OrderInv
  <2>4. Len(trajectories') <= Fetch'
    BY <1>1, <1>2, <1>4, <2>1 DEF Room
  <2>5. waiting' \subseteq 1 .. Len(trajectories')
    <3>1. waiting \subseteq 1 .. Len(trajectories)
      BY DEF OrderInv
    <3>2. \A i \in 1 .. Len(trajectories) : i \in 1 .. Len(trajectories')
      BY <1>2, <2>1
    <3> QED
      BY <1>1, <3>1, <3>2
  <2> QED
    BY <1>1, <1>4, <1>5, <2>2, <2>3, <2>4, <2>5 DEF OrderInv
<1> QED
  BY <1>6, <1>7

LEMMA OrderFetched ==
  ASSUME ControlInv, RowsInv, OrderInv, TypeOK, FetchEnds
  PROVE  OrderInv'
<1>1. /\ stage = "loop" /\ stage' = "read" /\ call = Idle /\ trajectories # <<>>
      /\ Len(trajectories) = Fetch \/ ~ MoreToRead
      /\ waiting' = Fetched
      /\ UNCHANGED <<reading, job, config, row, trajectories, order>>
  BY DEF FetchEnds, writing
<1>2. /\ Len(Delivered) \in Nat /\ Len(trajectories) \in Nat /\ Len(trajectories) <= Len(Delivered)
      /\ Fetch \in Nat \ {0}
  BY BatchSizes
<1>3. job.program # "reader"
  BY <1>1 DEF ControlInv, Unread
<1>4. /\ Len(trajectories) <= Fetch /\ Ordered(order, Len(Delivered), Fetch)
      /\ Ordered(order, Base, Fetch) /\ Len(order) = Base /\ Whole(Base, Fetch)
  BY <1>1, <1>3 DEF OrderInv, Goes
<1>5. waiting' = 1 .. Len(trajectories)
  <2>1. trajectories \in Seq(Trajs)
    BY DEF RowsInv
  <2> QED
    BY <1>1, <2>1 DEF Fetched
<1>6. Shared(order, 1 .. Len(trajectories), Len(Delivered), Len(trajectories), Fetch)
  BY <1>2, <1>4, ShareOut DEF Base
<1>7. /\ Delivered' = Delivered /\ Fetch' = Fetch /\ MoreToRead' = MoreToRead /\ ByPoint' = ByPoint
      /\ call' = call
  <2>1. UNCHANGED <<file, cursor, call, returned>>
    BY <1>1 DEF reading
  <2>2. ByPoint' = ByPoint /\ Fetch' = Fetch
    BY <1>1, Frame
  <2> QED
    BY <1>1, <2>1, <2>2, DeliveredSame DEF MoreToRead, HasNext
<1> QED
  BY <1>1, <1>4, <1>5, <1>6, <1>7 DEF OrderInv

LEMMA WholeNext ==
  ASSUME NEW f \in Nat \ {0}, NEW n \in Nat, Whole(n - f, f)
  PROVE  Whole(n, f)
<1>1. PICK b \in Nat : n - f = f * b
  BY DEF Whole
<1>2. f * (b + 1) = f * b + f /\ f * b \in Nat /\ b + 1 \in Nat
  BY Multiples
<1>3. n = f * (b + 1)
  BY <1>1, <1>2
<1> QED
  BY <1>2, <1>3 DEF Whole

LEMMA OrderWrites ==
  ASSUME ControlInv, RowsInv, OrderInv, TypeOK, stage = "read",
         NEW i \in waiting, NEW line, WriteLine(i, line), UNCHANGED <<reading, job, config, row>>
  PROVE  OrderInv'
<1> DEFINE n == Len(Delivered)
           t == Len(trajectories)
<1>1. /\ order' = Append(order, n - t + i) /\ waiting' = waiting \ {i}
      /\ waiting' = {} => stage' = "loop" /\ trajectories' = <<>>
      /\ waiting' # {} => UNCHANGED <<stage, trajectories>>
  BY DEF WriteLine
<1>2. n \in Nat /\ t \in Nat /\ t <= n /\ Fetch \in Nat \ {0}
  BY BatchSizes
<1>3. job.program # "reader"
  BY DEF ControlInv
<1>4. /\ t <= Fetch /\ Shared(order, waiting, n, t, Fetch)
      /\ call = Idle /\ (t = Fetch \/ ~ MoreToRead)
  BY <1>3 DEF OrderInv
<1>5. /\ Delivered' = Delivered /\ Fetch' = Fetch /\ MoreToRead' = MoreToRead /\ call' = call
  <2>1. UNCHANGED <<file, cursor, call, returned>>
    BY DEF reading
  <2>2. ByPoint' = ByPoint /\ Fetch' = Fetch
    BY Frame
  <2> QED
    BY <2>1, <2>2, DeliveredSame DEF MoreToRead, HasNext
<1> HIDE DEF n, t
<1>6. Shared(order', waiting', n, t, Fetch)
  <2>1. t \in 0 .. Fetch
    BY <1>2, <1>4
  <2>2. Shared(Append(order, n - t + i), waiting \ {i}, n, t, Fetch)
    BY <1>2, <1>4, <2>1, ShareOne
  <2> QED
    BY <1>1, <2>2
<1>7. Ordered(order', n, Fetch) /\ waiting' \subseteq 1 .. t /\ Whole(n - t, Fetch)
  BY <1>6 DEF Shared
<1>8. CASE waiting' # {}
  <2>1. stage' = "read" /\ Len(trajectories') = t
    BY <1>1, <1>8 DEF t
  <2> QED
    BY <1>4, <1>5, <1>6, <1>7, <2>1 DEF OrderInv, n
<1>9. CASE waiting' = {}
  <2>1. stage' = "loop" /\ trajectories' = <<>> /\ Len(trajectories') = 0
    BY <1>1, <1>9
  <2>2. Ordered(order', n, Fetch) /\ Len(order') = n
    BY <1>2, <1>6, <1>9, ShareEnds
  <2>3. Base' = n
    BY <1>2, <1>5, <2>1 DEF Base, n
  <2>4. ASSUME Goes' PROVE Whole(n, Fetch)
    <3>1. MoreToRead
      BY <1>4, <1>5, <2>1, <2>4 DEF Goes
    <3>2. t = Fetch
      BY <1>4, <3>1
    <3> QED
      BY <1>2, <1>7, <3>2, WholeNext
  <2>5. Len(trajectories') <= Fetch'
    BY <1>2, <1>5, <2>1
  <2> QED
    BY <1>5, <1>9, <2>1, <2>2, <2>3, <2>4, <2>5 DEF OrderInv, n
<1> QED
  BY <1>8, <1>9

LEMMA OrderStops ==
  ASSUME ControlInv, RowsInv, OrderInv, TypeOK, stage' \in {"threw", "crashed"},
         stage' = "threw" => stage = "loop" /\ Room /\ Goes,
         UNCHANGED <<job, config, row, returned, trajectories, waiting, order, opened>>
  PROVE  OrderInv'
<1>1. Delivered' = Delivered /\ Fetch' = Fetch
  BY DeliveredSame, Frame
<1>2. Ordered(order, Len(Delivered), Fetch) /\ waiting \subseteq 1 .. Len(trajectories)
  BY DEF OrderInv
<1>3. ASSUME job.program # "reader", stage' = "threw"
      PROVE  Len(order) = Fetch * (Len(Delivered) \div Fetch)
  <2>1. Len(order) = Base /\ Whole(Base, Fetch) /\ Len(trajectories) < Fetch
    BY <1>3 DEF OrderInv, Room
  <2> DEFINE x == Len(Delivered) + 1
  <2>2. /\ Base \in Nat /\ Fetch \in Nat \ {0} /\ x \in Base + 1 .. Base + Fetch
        /\ x - 1 = Len(Delivered)
    BY <2>1, BatchSizes
  <2> HIDE DEF x
  <2>3. Fetch * ((x - 1) \div Fetch) = Base
    BY <2>1, <2>2, OneBatch
  <2> QED
    BY <2>1, <2>2, <2>3
<1> QED
  BY <1>1, <1>2, <1>3 DEF OrderInv

\* The other steps: reading points, rewinding, the end.
LEMMA OrderStays ==
  ASSUME ControlInv, RowsInv, OrderInv, TypeOK, BeginPoints \/ TakePoint \/ Rewind \/ Finish
  PROVE  OrderInv'
<1>1. /\ UNCHANGED <<job, config, row, trajectories, waiting, order>> /\ stage = "loop"
      /\ stage' = IF Finish THEN "done" ELSE "loop"
  BY DEF BeginPoints, TakePoint, Rewind, Finish, LoopPoints, batch, writing
<1>2. Fetch' = Fetch
  BY <1>1, Frame
<1>3. Ordered(order, Len(Delivered), Fetch) /\ waiting \subseteq 1 .. Len(trajectories)
  BY DEF OrderInv
<1>4. CASE job.program = "reader"
  <2>1. order' = <<>> /\ waiting' = {}
    BY <1>1, <1>4 DEF ControlInv, Unread
  <2> QED
    BY <1>1, <1>4, <2>1, OrderedNone DEF OrderInv
<1>5. CASE job.program # "reader"
  <2>1. ~ Rewind
    BY <1>5, ReaderAssumption DEF ControlInv, TypeOK, Rewind, ResetCursor
  <2>2. returned' = returned
    BY <2>1 DEF BeginPoints, ReadNext, TakePoint, AddPoint, ReadAhead, Finish, reading
  <2>3. Delivered' = Delivered /\ Base' = Base
    BY <1>1, <2>2, DeliveredSame DEF Base
  <2>4. Ordered(order, Base, Fetch) /\ Len(order) = Base /\ Len(trajectories) <= Fetch
    BY <1>1, <1>5 DEF OrderInv
  <2>5. CASE Finish
    <3>1. trajectories = <<>> /\ stage' = "done"
      BY <1>1, <2>5 DEF Finish
    <3>2. Len(order) = Len(Delivered)
      BY <2>4, <3>1, BatchSizes DEF Base
    <3> QED
      BY <1>1, <1>2, <1>3, <2>3, <3>1, <3>2 DEF OrderInv
  <2>6. CASE ~ Finish
    <3>1. Goes
      BY <2>1, <2>6 DEF BeginPoints, ReadNext, TakePoint, AddPoint, ReadAhead, Reading, LoopPoints,
                        MoreToRead, Goes
    <3>2. Whole(Base, Fetch)
      BY <1>1, <1>5, <3>1 DEF OrderInv
    <3> QED
      BY <1>1, <1>2, <1>3, <2>3, <2>4, <2>6, <3>2 DEF OrderInv
  <2> QED
    BY <2>5, <2>6
<1> QED
  BY <1>4, <1>5

-----------------------------------------------------------------------------
HexesOf(points, c) ==
  IF H3MMValid(c.params) THEN MatchHexes(points, c.params.interpolate) ELSE <<>>

ResultsOf(id, points) ==
  LET n == Len(points) IN
  IF n = 0 THEN {MatchResult(0, 0, 0, <<>>)}
  ELSE {r \in Matches(id, n) : r.edges > 0 => Locates(r.indices, r.edges)}

Stamped(j) == \A k \in 1 .. Len(j.trajs) : j.trajs[k].stamps \in {0, Len(j.trajs[k].points)}

\* What may be written of a trajectory.
IsRow(line, id, points, j, c) ==
  IF j.program = "h3mm" THEN line = H3WriteResult(c.result.write_geom, id, HexesOf(points, c))
  ELSE \E stamps \in Nat : \E result \in ResultsOf(id, points) :
         /\ line = WriteResult(c.result.fields, stamps, result)
         /\ Stamped(j) => stamps \in {0, Len(points)}

\* After a header, a line for every trajectory delivered, or for the first.
Written(lines, delivered, header, j, c) ==
  /\ \E S : lines \in Seq(S)
  /\ Len(lines) <= Len(delivered) + 1
  /\ lines # <<>> => lines[1] = header
  /\ \A k \in 1 .. Len(lines) - 1 : IsRow(lines[k + 1], delivered[k].id, delivered[k].points, j, c)

\* The rows delivered which were matched, in the order they were.
MatchedOf(o, delivered) == [k \in 1 .. Len(o) |-> delivered[o[k]]]

OutputInv ==
  /\ opened /\ job.program # "ubodt_gen" =>
       /\ Written(output, MatchedOf(order, Delivered), Header, job, config)
       /\ stage \in {"loop", "read", "done"} \/ (stage = "threw" /\ job.source = "library") =>
            Len(output) = Len(order) + 1
  /\ job.program = "ubodt_gen" => output \in {<<>>, <<UBODTHeader>>}

LEMMA MatchedIs ==
  ASSUME NEW o, Len(o) \in Nat, NEW delivered
  PROVE  /\ Len(MatchedOf(o, delivered)) = Len(o)
         /\ \A k \in 1 .. Len(o) : MatchedOf(o, delivered)[k] = delivered[o[k]]
<1> DEFINE matched == MatchedOf(o, delivered)
           n == Len(o)
<1>1. matched = [k \in 1 .. n |-> delivered[o[k]]]
  BY DEF MatchedOf
<1> HIDE DEF matched, n
<1>2. \A k \in 1 .. n : matched[k] = delivered[o[k]]
  BY <1>1
<1>3. matched = [k \in 1 .. n |-> matched[k]]
  BY <1>1
<1>4. n \in Nat
  BY DEF n
<1>5. Len(matched) = n
  BY <1>3, <1>4, LenIs, Zenon
<1> QED
  BY <1>2, <1>5 DEF matched, n

\* What is delivered later changes no row matched before.
LEMMA MatchedKept ==
  ASSUME NEW o, NEW n \in Nat, NEW f, Ordered(o, n, f),
         NEW delivered, NEW more, \A i \in 1 .. n : more[i] = delivered[i]
  PROVE  MatchedOf(o, more) = MatchedOf(o, delivered)
<1>1. \A k \in 1 .. Len(o) : more[o[k]] = delivered[o[k]]
  BY DEF Ordered
<1> QED
  BY <1>1, Zenon DEF MatchedOf

LEMMA MatchedMore ==
  ASSUME NEW o \in Seq(Nat), NEW i \in Nat, NEW delivered
  PROVE  /\ Len(MatchedOf(Append(o, i), delivered)) = Len(MatchedOf(o, delivered)) + 1
         /\ \A k \in 1 .. Len(MatchedOf(o, delivered)) :
              MatchedOf(Append(o, i), delivered)[k] = MatchedOf(o, delivered)[k]
         /\ MatchedOf(Append(o, i), delivered)[Len(o) + 1] = delivered[i]
         /\ Len(MatchedOf(o, delivered)) = Len(o)
<1> DEFINE longer == Append(o, i)
           n == Len(o)
<1>1. /\ n \in Nat /\ Len(longer) = n + 1 /\ longer[n + 1] = i
      /\ \A k \in 1 .. n : longer[k] = o[k]
  OBVIOUS
<1>2. /\ Len(MatchedOf(o, delivered)) = n
      /\ \A k \in 1 .. n : MatchedOf(o, delivered)[k] = delivered[o[k]]
  BY <1>1, MatchedIs
<1>3. /\ Len(MatchedOf(longer, delivered)) = n + 1
      /\ \A k \in 1 .. n + 1 : MatchedOf(longer, delivered)[k] = delivered[longer[k]]
  <2>1. Len(longer) \in Nat /\ Len(longer) = n + 1
    BY <1>1
  <2>2. /\ Len(MatchedOf(longer, delivered)) = Len(longer)
        /\ \A k \in 1 .. Len(longer) : MatchedOf(longer, delivered)[k] = delivered[longer[k]]
    BY <2>1, MatchedIs, Zenon
  <2> QED
    BY <2>1, <2>2, Zenon
<1> HIDE DEF longer, n
<1>4. n + 1 \in 1 .. n + 1 /\ \A k \in 1 .. n : k \in 1 .. n + 1
  <2>1. n \in Nat
    BY <1>1
  <2> QED
    BY ONLY <2>1
<1>5. ASSUME NEW k \in 1 .. n PROVE MatchedOf(longer, delivered)[k] = MatchedOf(o, delivered)[k]
  <2>1. k \in 1 .. n + 1 /\ longer[k] = o[k]
    BY <1>1, <1>4
  <2>2. MatchedOf(longer, delivered)[k] = delivered[longer[k]]
    BY <1>3, <2>1, Zenon
  <2>3. MatchedOf(o, delivered)[k] = delivered[o[k]]
    BY <1>2, Zenon
  <2> QED
    BY <2>1, <2>2, <2>3, Zenon
<1>6. MatchedOf(longer, delivered)[n + 1] = delivered[i]
  BY <1>1, <1>3, <1>4, Zenon
<1> QED
  BY <1>2, <1>3, <1>5, <1>6 DEF longer, n

\* What is kept of a file that is cut off.
LEMMA WrittenCut ==
  ASSUME NEW lines, NEW delivered, Len(delivered) \in Nat, NEW header, NEW j, NEW c,
         Written(lines, delivered, header, j, c), NEW kept \in 0 .. Len(lines)
  PROVE  Written(SubSeq(lines, 1, kept), delivered, header, j, c)
<1> DEFINE cut == SubSeq(lines, 1, kept)
<1>1. PICK S : lines \in Seq(S)
  BY DEF Written
<1>2. /\ cut \in Seq(S) /\ Len(cut) = kept /\ kept \in Nat /\ Len(lines) \in Nat
      /\ \A k \in 1 .. kept : cut[k] = lines[k]
  BY <1>1
<1>3. /\ Len(lines) <= Len(delivered) + 1
      /\ lines # <<>> => lines[1] = header
      /\ \A k \in 1 .. Len(lines) - 1 : IsRow(lines[k + 1], delivered[k].id, delivered[k].points, j, c)
  BY DEF Written
<1> HIDE DEF cut
<1>4. Len(cut) <= Len(delivered) + 1
  BY <1>2, <1>3
<1>5. cut # <<>> => cut[1] = header
  <2>1. cut # <<>> => kept > 0 /\ lines # <<>>
    BY <1>1, <1>2
  <2>2. kept > 0 => 1 \in 1 .. kept
    BY <1>2
  <2> QED
    BY <1>2, <1>3, <2>1, <2>2
<1>6. ASSUME NEW k \in 1 .. Len(cut) - 1
      PROVE  IsRow(cut[k + 1], delivered[k].id, delivered[k].points, j, c)
  <2>1. k \in 1 .. Len(lines) - 1 /\ k + 1 \in 1 .. kept
    BY <1>2
  <2>2. cut[k + 1] = lines[k + 1]
    BY <1>2, <2>1, Zenon
  <2> QED
    BY <1>3, <2>1, <2>2, Zenon
<1>7. \E T : cut \in Seq(T)
  BY <1>2, Zenon
<1> QED
  BY <1>4, <1>5, <1>6, <1>7, Zenon DEF cut, Written

\* Another trajectory is delivered.
LEMMA WrittenMore ==
  ASSUME NEW lines, NEW delivered, Len(delivered) \in Nat, NEW header, NEW j, NEW c,
         Written(lines, delivered, header, j, c),
         NEW more, Len(more) = Len(delivered) + 1,
         \A k \in 1 .. Len(delivered) : more[k] = delivered[k]
  PROVE  Written(lines, more, header, j, c)
<1>1. PICK S : lines \in Seq(S)
  BY DEF Written
<1>2. /\ Len(lines) <= Len(delivered) + 1
      /\ lines # <<>> => lines[1] = header
      /\ \A k \in 1 .. Len(lines) - 1 : IsRow(lines[k + 1], delivered[k].id, delivered[k].points, j, c)
  BY DEF Written
<1>3. Len(lines) \in Nat
  BY <1>1
<1>4. ASSUME NEW k \in 1 .. Len(lines) - 1
      PROVE  IsRow(lines[k + 1], more[k].id, more[k].points, j, c)
  <2>1. k \in 1 .. Len(delivered)
    BY <1>2, <1>3
  <2> QED
    BY <1>2, <2>1, Zenon
<1>5. Len(lines) <= Len(more) + 1
  BY <1>2, <1>3
<1> QED
  BY <1>1, <1>2, <1>4, <1>5, Zenon DEF Written

\* A line of the trajectory delivered last is written.
LEMMA WrittenAppended ==
  ASSUME NEW lines, NEW delivered, Len(delivered) \in Nat, NEW header, NEW j, NEW c,
         Written(lines, delivered, header, j, c),
         Len(lines) = Len(delivered), Len(delivered) > 0,
         NEW line,
         IsRow(line, delivered[Len(delivered)].id, delivered[Len(delivered)].points, j, c)
  PROVE  /\ Written(Append(lines, line), delivered, header, j, c)
         /\ Len(Append(lines, line)) = Len(delivered) + 1
<1> DEFINE longer == Append(lines, line)
           n == Len(delivered)
<1>1. PICK S : lines \in Seq(S)
  BY DEF Written
<1>2. /\ lines # <<>> => lines[1] = header
      /\ \A k \in 1 .. Len(lines) - 1 : IsRow(lines[k + 1], delivered[k].id, delivered[k].points, j, c)
  BY DEF Written
<1>3. lines \in Seq(S \cup {line}) /\ line \in S \cup {line}
  BY <1>1
<1>4. /\ longer \in Seq(S \cup {line}) /\ Len(longer) = n + 1 /\ longer[n + 1] = line
      /\ \A k \in 1 .. n : longer[k] = lines[k]
  <2> DEFINE T == S \cup {line}
  <2>1. lines \in Seq(T) /\ line \in T
    BY <1>3
  <2> HIDE DEF T
  <2>2. /\ longer \in Seq(T) /\ Len(longer) = n + 1 /\ longer[n + 1] = line
        /\ \A k \in 1 .. n : longer[k] = lines[k]
    BY <2>1
  <2> QED
    BY <2>2 DEF T
<1>5. lines[1] = header
  <2>1. lines # <<>>
    BY <1>1
  <2> QED
    BY <1>2, <2>1
<1> HIDE DEF longer
<1>6. longer[1] = header
  BY <1>4, <1>5
<1>7. ASSUME NEW k \in 1 .. Len(longer) - 1
      PROVE  IsRow(longer[k + 1], delivered[k].id, delivered[k].points, j, c)
  <2>1. CASE k = n
    BY <1>4, <2>1
  <2>2. CASE k # n
    <3>1. k \in 1 .. Len(lines) - 1 /\ k + 1 \in 1 .. n
      BY <1>4, <2>2
    <3>2. longer[k + 1] = lines[k + 1]
      BY <1>4, <3>1, Zenon
    <3> QED
      BY <1>2, <3>1, <3>2, Zenon
  <2> QED
    BY <2>1, <2>2
<1>8. Len(longer) <= n + 1
  BY <1>4
<1>9. \E T : longer \in Seq(T)
  BY <1>4, Zenon
<1> QED
  BY <1>4, <1>6, <1>7, <1>8, <1>9, Zenon DEF longer, Written

LEMMA OutputOpens ==
  ASSUME ControlInv, AcceptedInv, OutputInv,
         LoadFails \/ Load \/ Validate \/ Build \/ Generate \/ OpenReader \/ OpenWriter
  PROVE  OutputInv'
<1>1. /\ stage \in Opening /\ ~ opened /\ output = <<>> /\ order' = <<>>
      /\ job' = job /\ row' = 1 /\ returned' = <<>>
  BY OpeningStep DEF Unread
<1>2. CASE Generate
  <2>1. job'.program = "ubodt_gen" /\ output' \in {<<>>, <<UBODTHeader>>}
    BY <1>1, <1>2 DEF Generate
  <2>2. UBODTHeader' = UBODTHeader
    BY DEF UBODTHeader
  <2> QED
    BY <2>1, <2>2 DEF OutputInv
<1>3. CASE LoadFails \/ Load \/ Validate \/ Build \/ OpenReader
  <2>1. ~ opened' /\ output' = <<>>
    BY <1>1, <1>3, StopKeeps DEF LoadFails, Load, Validate, Build, OpenReader, writing
  <2> QED
    BY <2>1 DEF OutputInv
<1>4. CASE OpenWriter
  <2>1. /\ job.program # "ubodt_gen" /\ stage' = "loop" /\ opened' = Writable
        /\ output' = IF Writable THEN <<Header>> ELSE <<>>
        /\ UNCHANGED <<job, config>>
    BY <1>1, <1>4 DEF OpenWriter, AcceptedInv
  <2>2. Header' = Header
    BY <2>1, Frame
  <2> DEFINE matched == MatchedOf(order', Delivered')
  <2>3. Len(order') = 0 /\ Len(matched) = 0
    <3>1. Len(order') = 0 /\ Len(order') \in Nat
      BY <1>1
    <3> QED
      BY <3>1, MatchedIs
  <2> HIDE DEF matched
  <2>4. ASSUME opened'
        PROVE  Written(output', matched, Header', job', config') /\ Len(output') = 1
    <3>1. output' = <<Header>>
      BY <2>1, <2>4
    <3>2. (\E S : output' \in Seq(S)) /\ Len(output') = 1 /\ output'[1] = Header
      <4>1. <<Header>> \in Seq({Header}) /\ Len(<<Header>>) = 1 /\ <<Header>>[1] = Header
        OBVIOUS
      <4> QED
        BY <3>1, <4>1, Zenon
    <3>3. 1 .. Len(output') - 1 = {} /\ Len(output') <= Len(matched) + 1
      BY <2>3, <3>2
    <3> QED
      BY <2>2, <3>2, <3>3, Zenon DEF Written
  <2>5. opened' => Len(output') = Len(order') + 1
    BY <2>3, <2>4
  <2> QED
    BY <2>1, <2>4, <2>5 DEF OutputInv, matched
<1> QED
  BY <1>2, <1>3, <1>4

\* A job that stops in its loop.
LEMMA OutputStops ==
  ASSUME ControlInv, OutputInv, OrderInv, NEW how, Stop(how),
         \/ stage = "loop" /\ how \in {"threw", "crashed"}
         \/ stage = "read" /\ how = "crashed",
         UNCHANGED <<job, config, row, returned, order, opened>>
  PROVE  OutputInv'
<1>1. stage' = how
  BY DEF Stop
<1>2. Delivered' = Delivered /\ Header' = Header
  BY DeliveredSame, Frame
<1> DEFINE matched == MatchedOf(order, Delivered)
<1>3. Len(matched) \in Nat
  <2>1. Len(order) \in Nat
    BY DEF OrderInv, Ordered
  <2> QED
    BY <2>1, MatchedIs
<1>4. MatchedOf(order', Delivered') = matched
  BY <1>2
<1> HIDE DEF matched
<1>5. output' = output \/ \E kept \in 0 .. Len(output) : output' = SubSeq(output, 1, kept)
  BY DEF Stop
<1>6. ASSUME opened, job.program # "ubodt_gen"
      PROVE  Written(output', MatchedOf(order', Delivered'), Header', job', config')
  <2>1. Written(output, matched, Header, job, config)
    BY <1>6 DEF OutputInv, matched
  <2>2. Written(output', matched, Header, job, config)
    BY <1>3, <1>5, <2>1, WrittenCut
  <2> QED
    BY <1>2, <1>4, <2>2
<1>7. ASSUME opened, job.program # "ubodt_gen", stage' = "threw", job.source = "library"
      PROVE  Len(output') = Len(order') + 1
  <2>1. stage = "loop" /\ output' = output
    BY <1>1, <1>7 DEF Stop
  <2> QED
    BY <1>7, <2>1 DEF OutputInv
<1>8. ASSUME job.program = "ubodt_gen" PROVE output' \in {<<>>, <<UBODTHeader>>}
  <2>1. output \in {<<>>, <<UBODTHeader>>}
    BY <1>8 DEF OutputInv
  <2>2. ASSUME NEW x, NEW kept \in 0 .. Len(<<x>>) PROVE SubSeq(<<x>>, 1, kept) \in {<<>>, <<x>>}
    <3>1. <<x>> \in Seq({x}) /\ Len(<<x>>) = 1 /\ <<x>>[1] = x
      OBVIOUS
    <3>2. kept = 0 \/ kept = 1
      BY <3>1
    <3>3. SubSeq(<<x>>, 1, 0) = <<>>
      BY <3>1
    <3>4. SubSeq(<<x>>, 1, 1) = <<x>>
      <4>1. \A s \in Seq({x}) : Len(s) = 1 => SubSeq(s, 1, 1) = s
        OBVIOUS
      <4> QED
        BY <3>1, <4>1, Zenon
    <3> QED
      BY <3>2, <3>3, <3>4
  <2>3. \A kept \in 0 .. Len(<<>>) : SubSeq(<<>>, 1, kept) = <<>>
    OBVIOUS
  <2> QED
    BY <1>5, <2>1, <2>2, <2>3, Zenon
<1>9. UBODTHeader' = UBODTHeader /\ stage' \in {"threw", "crashed"}
  BY <1>1 DEF UBODTHeader
<1> QED
  BY <1>6, <1>7, <1>8, <1>9 DEF OutputInv

\* A step that writes nothing, even if a trajectory is delivered.
LEMMA OutputStays ==
  ASSUME OutputInv, OrderInv, Len(Delivered) \in Nat,
         UNCHANGED <<job, config, order, opened, output>>,
         stage' # stage => stage \in {"loop", "read"} /\ stage' \in {"loop", "read", "done"},
         opened => \A k \in 1 .. Len(Delivered) : Delivered'[k] = Delivered[k]
  PROVE  OutputInv'
<1>1. Header' = Header /\ UBODTHeader' = UBODTHeader
  BY Frame DEF UBODTHeader
<1>2. opened => MatchedOf(order', Delivered') = MatchedOf(order, Delivered)
  BY MatchedKept DEF OrderInv
<1> QED
  BY <1>1, <1>2 DEF OutputInv

\* The line of a trajectory is written.
LEMMA OutputWrites ==
  ASSUME ControlInv, RowsInv, OrderInv, OutputInv, TypeOK, stage = "read",
         NEW i \in waiting, NEW line, WriteLine(i, line), job.program # "ubodt_gen",
         IsRow(line, trajectories[i].id, trajectories[i].points, job, config),
         UNCHANGED <<job, config, row, returned, opened>>
  PROVE  OutputInv'
<1> DEFINE at == Len(Delivered) - Len(trajectories) + i
           matched == MatchedOf(order, Delivered)
           longer == MatchedOf(order', Delivered)
<1>1. /\ stage' \in {"loop", "read"} /\ order' = Append(order, at)
      /\ output' = IF opened THEN Append(output, line) ELSE output
  BY DEF WriteLine
<1>2. Delivered' = Delivered /\ Header' = Header
  BY DeliveredSame, Frame
<1>3. /\ Len(Delivered) \in Nat /\ Len(trajectories) \in Nat /\ Len(trajectories) <= Len(Delivered)
      /\ i \in 1 .. Len(trajectories) /\ order \in Seq(Nat)
  BY BatchSizes DEF OrderInv, Ordered
<1>4. at \in Nat
  BY <1>3
<1>5. Delivered[at].id = trajectories[i].id /\ Delivered[at].points = trajectories[i].points
  <2>1. trajectories # <<>>
    BY <1>3
  <2>2. IsRead(trajectories[i], Delivered[at], StampedByPoint)
    BY <1>3, <2>1 DEF RowsInv, IsBatch
  <2> QED
    BY <2>2 DEF IsRead
<1> HIDE DEF at
<1>6. /\ Len(longer) = Len(order) + 1 /\ Len(matched) = Len(order) /\ Len(order) \in Nat
      /\ \A k \in 1 .. Len(matched) : longer[k] = matched[k]
      /\ longer[Len(order) + 1] = Delivered[at]
      /\ Len(order') = Len(order) + 1
  BY <1>1, <1>3, <1>4, MatchedMore
<1>7. longer = MatchedOf(order', Delivered')
  BY <1>2
<1>8. ASSUME opened PROVE Written(output, matched, Header, job, config) /\ Len(output) = Len(order) + 1
  BY <1>8 DEF OutputInv
<1> HIDE DEF matched, longer
<1>9. ASSUME opened
      PROVE  /\ Written(output', longer, Header', job', config')
             /\ Len(output') = Len(order') + 1
  <2>1. Written(output, longer, Header, job, config)
    BY <1>6, <1>8, <1>9, WrittenMore
  <2>2. IsRow(line, longer[Len(longer)].id, longer[Len(longer)].points, job, config)
    BY <1>5, <1>6
  <2>3. Len(longer) \in Nat /\ Len(longer) > 0 /\ Len(output) = Len(longer)
    BY <1>6, <1>8, <1>9
  <2>4. /\ Written(Append(output, line), longer, Header, job, config)
        /\ Len(Append(output, line)) = Len(longer) + 1
    BY <2>1, <2>2, <2>3, WrittenAppended
  <2> QED
    BY <1>1, <1>2, <1>6, <1>9, <2>4
<1> QED
  BY <1>1, <1>7, <1>9 DEF OutputInv

\* A line is written: what remains of the batch is as it was.
LEMMA LineSteps ==
  ASSUME ControlInv, RowsInv, OrderInv, OutputInv, TypeOK, stage = "read",
         NEW i \in waiting, NEW line, WriteLine(i, line), job.program # "ubodt_gen",
         IsRow(line, trajectories[i].id, trajectories[i].points, job, config),
         UNCHANGED <<reading, job, config, row, opened>>
  PROVE  RowsInv' /\ OrderInv' /\ OutputInv'
<1>1. UNCHANGED returned /\ trajectories' \in {trajectories, <<>>}
  BY DEF WriteLine, reading
<1>2. RowsInv'
  BY <1>1, RowsStay
<1>3. OrderInv'
  BY OrderWrites
<1>4. OutputInv'
  BY <1>1, OutputWrites
<1> QED
  BY <1>2, <1>3, <1>4

\* The job stops in its loop or while it writes.
LEMMA StopSteps ==
  ASSUME ControlInv, RowsInv, OrderInv, OutputInv, TypeOK, NEW how, Stop(how),
         \/ stage = "loop" /\ how \in {"threw", "crashed"} /\ Room /\ Goes
         \/ stage = "read" /\ how = "crashed",
         UNCHANGED <<reading, job, config, row, batch, order, opened>>
  PROVE  RowsInv' /\ OrderInv' /\ OutputInv'
<1>1. /\ stage' = how
      /\ UNCHANGED <<job, config, row, returned, trajectories, waiting, order, opened>>
  BY DEF Stop, reading, batch
<1>2. RowsInv'
  BY <1>1, RowsStay
<1>3. OrderInv'
  BY <1>1, OrderStops
<1>4. OutputInv'
  BY <1>1, OutputStops
<1> QED
  BY <1>2, <1>3, <1>4

LEMMA OutputSteps ==
  ASSUME ControlInv, AcceptedInv, RowsInv, OrderInv, OutputInv, TypeOK, TypeOK', [JobNext]_jobVars
  PROVE  RowsInv' /\ OrderInv' /\ OutputInv'
<1>1. Len(Delivered) \in Nat
  BY BatchSizes
<1>2. CASE UNCHANGED jobVars
  <2>1. /\ UNCHANGED <<file, cursor, call, returned, job, config, row, trajectories, waiting, order, opened, output>>
        /\ stage' = stage
    BY <1>2 DEF jobVars, reading, batch, writing
  <2>2. RowsInv'
    BY <2>1, RowsStay
  <2>3. Delivered' = Delivered /\ Fetch' = Fetch /\ ByPoint' = ByPoint
    BY <2>1, DeliveredSame, Frame
  <2>4. OrderInv'
    <3>1. MoreToRead' = MoreToRead
      BY <2>1, <2>3 DEF MoreToRead, HasNext
    <3>2. Base' = Base /\ Goes' = Goes
      BY <2>1, <2>3, <3>1 DEF Base, Goes
    <3> QED
      BY <2>1, <2>3, <3>1, <3>2 DEF OrderInv
  <2>5. OutputInv'
    BY <1>1, <2>1, <2>3, OutputStays
  <2> QED
    BY <2>2, <2>4, <2>5
<1>3. CASE LoadFails \/ Load \/ Validate \/ Build \/ Generate \/ OpenReader \/ OpenWriter
  <2>1. RowsInv'
    <3>1. trajectories' = <<>> /\ UNCHANGED <<row, job>>
      BY <1>3, OpeningStep DEF Unread
    <3> QED
      BY <3>1, RowsStay
  <2> QED
    BY <1>3, <2>1, OrderOpens, OutputOpens
<1>4. CASE ReadRow \/ EndPoints
  <2>1. RowsInv' /\ Grown
    BY <1>4, RowsGrow
  <2>2. UNCHANGED <<job, config, order, opened, output>> /\ stage' = stage
    BY <1>4 DEF ReadRow, EndPoints, writing
  <2>3. OutputInv'
    BY <1>1, <2>1, <2>2, OutputStays DEF Grown
  <2> QED
    BY <1>4, <2>1, <2>3, OrderDelivers
<1>5. CASE ReadBadRow \/ ReadBadPoint
  <2>1. PICK how \in {"threw", "crashed"} : Stop(how)
    BY <1>5 DEF ReadBadRow, ReadBadPoint
  <2>2. stage = "loop" /\ Room /\ Goes /\ UNCHANGED <<reading, job, config, row, batch, order, opened>>
    <3>1. CASE ReadBadRow
      BY <3>1 DEF ReadBadRow, Goes
    <3>2. CASE ReadBadPoint
      BY <3>2 DEF ReadBadPoint, LoopPoints, Reading, Goes, MoreToRead
    <3> QED
      BY <1>5, <3>1, <3>2
  <2> QED
    BY <2>1, <2>2, StopSteps
<1>6. CASE FetchEnds
  <2>1. /\ UNCHANGED <<reading, job, config, row, trajectories, order, opened, output>>
        /\ stage = "loop" /\ stage' = "read"
    BY <1>6 DEF FetchEnds, writing
  <2>2. UNCHANGED returned
    BY <2>1 DEF reading
  <2>3. RowsInv'
    BY <2>1, <2>2, RowsStay
  <2>4. OrderInv'
    BY <1>6, OrderFetched
  <2>5. Delivered' = Delivered
    BY <2>1, <2>2, DeliveredSame
  <2>6. OutputInv'
    BY <1>1, <2>1, <2>5, OutputStays
  <2> QED
    BY <2>3, <2>4, <2>6
<1>7. CASE Match
  <2>1. /\ stage = "read" /\ job.program \in {"fmm", "stmatch"}
        /\ UNCHANGED <<reading, job, config, row, opened>>
    BY <1>7 DEF Match
  <2>2. PICK i \in waiting : \E result \in Results(trajectories[i]) : WriteMatch(i, result)
    BY <1>7 DEF Match
  <2> PICK result \in Results(trajectories[i]) : WriteMatch(i, result)
    BY <2>2
  <2>3. CASE Stop("crashed") /\ UNCHANGED <<batch, order>>
    BY <2>1, <2>3, StopSteps
  <2>4. CASE WriteLine(i, WriteResult(config.result.fields, trajectories[i].stamps, result))
    <3> DEFINE traj == trajectories[i]
               line == WriteResult(config.result.fields, traj.stamps, result)
    <3>1. result \in ResultsOf(traj.id, traj.points)
      BY DEF Results, ResultsOf
    <3>2. traj.stamps \in Nat /\ (Stamped(job) => traj.stamps \in {0, Len(traj.points)})
      <4>1. i \in 1 .. Len(trajectories) /\ trajectories \in Seq(Trajs)
        BY DEF OrderInv, RowsInv
      <4>2. traj \in Trajs /\ trajectories # <<>>
        BY <4>1
      <4>3. StampedByPoint => traj.stamps \in {0, Len(traj.points)}
        BY <4>1, <4>2 DEF RowsInv, IsBatch, IsRead
      <4> HIDE DEF traj
      <4> QED
        BY <4>2, <4>3 DEF Trajs, StampedByPoint, Stamped
    <3>3. IsRow(line, traj.id, traj.points, job, config)
      BY <2>1, <3>1, <3>2 DEF IsRow
    <3>4. WriteLine(i, line)
      BY <2>4
    <3> HIDE DEF line
    <3>5. job.program # "ubodt_gen"
      BY <2>1
    <3> QED
      BY <2>1, <3>3, <3>4, <3>5, LineSteps
  <2> QED
    BY <2>3, <2>4 DEF WriteMatch
<1>8. CASE MatchHex
  <2>1. PICK i \in waiting :
          WriteLine(i, H3WriteResult(config.result.write_geom, trajectories[i].id, Hexes(trajectories[i])))
    BY <1>8 DEF MatchHex
  <2> DEFINE line == H3WriteResult(config.result.write_geom, trajectories[i].id, Hexes(trajectories[i]))
  <2>2. /\ stage = "read" /\ job.program = "h3mm" /\ WriteLine(i, line)
        /\ UNCHANGED <<reading, job, config, row, opened>>
    BY <1>8, <2>1 DEF MatchHex
  <2>3. Hexes(trajectories[i]) = HexesOf(trajectories[i].points, config)
    BY DEF Hexes, HexesOf
  <2>4. IsRow(line, trajectories[i].id, trajectories[i].points, job, config)
    BY <2>2, <2>3 DEF IsRow
  <2> HIDE DEF line
  <2>5. job.program # "ubodt_gen"
    BY <2>2
  <2> QED
    BY <2>2, <2>4, <2>5, LineSteps
<1>9. CASE BeginPoints \/ TakePoint \/ Rewind \/ Finish
  <2>1. /\ stage = "loop" /\ stage' \in {"loop", "done"}
        /\ UNCHANGED <<job, config, row, trajectories, order, opened, output>>
    BY <1>9 DEF BeginPoints, TakePoint, Rewind, Finish, LoopPoints, batch, writing
  <2>2. job.program # "reader" => returned' = returned
    <3>1. job.program # "reader" => planned = 0
      BY ReaderAssumption DEF ControlInv, TypeOK
    <3>2. ~ Rewind => returned' = returned
      BY <1>9 DEF BeginPoints, ReadNext, TakePoint, AddPoint, ReadAhead, Finish, reading
    <3>3. Rewind => planned > 0
      BY DEF Rewind, ResetCursor, TypeOK
    <3> QED
      BY <3>1, <3>2, <3>3
  <2>3. opened => job.program # "reader"
    BY DEF ControlInv
  <2>4. trajectories # <<>> => job.program # "reader"
    BY DEF ControlInv, Unread
  <2>5. RowsInv'
    BY <2>1, <2>2, <2>4, RowsStay
  <2>6. opened => Delivered' = Delivered
    BY <2>1, <2>2, <2>3, DeliveredSame
  <2>7. OutputInv'
    BY <1>1, <2>1, <2>6, OutputStays
  <2> QED
    BY <1>9, <2>5, <2>7, OrderStays
<1> QED
  BY <1>2, <1>3, <1>4, <1>5, <1>6, <1>7, <1>8, <1>9 DEF JobNext, JobStep

JobInv == ReaderInv /\ ControlInv /\ AcceptedInv /\ RowsInv /\ OrderInv /\ OutputInv

LEMMA JobInvariance == JobSpec => []JobInv
<1>1. JobInit => JobInv
  <2> SUFFICES ASSUME JobInit PROVE JobInv
    OBVIOUS
  <2>1. ReaderInv /\ ControlInv /\ AcceptedInv
    BY JobBeginsReader, InitInv, ControlBegins
  <2>2. /\ row = 1 /\ trajectories = <<>> /\ waiting = {} /\ order = <<>> /\ ~ opened /\ output = <<>>
        /\ job \in Jobs /\ stage = IF job.program = "reader" THEN "loop" ELSE "start"
    BY DEF JobInit
  <2>3. RowsInv
    <3>1. row \in 1 .. Len(job.trajs) + 1
      BY <2>2, JobIs
    <3>2. <<>> \in Seq(Trajs)
      OBVIOUS
    <3> QED
      BY <2>2, <3>1, <3>2 DEF RowsInv
  <2>4. OrderInv
    BY <2>2, OrderedNone DEF OrderInv
  <2>5. OutputInv
    BY <2>2 DEF OutputInv
  <2> QED
    BY <2>1, <2>3, <2>4, <2>5 DEF JobInv
<1>2. JobInv /\ [JobNext]_jobVars => JobInv'
  <2> SUFFICES ASSUME JobInv, [JobNext]_jobVars PROVE JobInv'
    OBVIOUS
  <2>1. ReaderInv' /\ ControlInv' /\ AcceptedInv'
    BY JobReads, ReaderSteps, ControlSteps DEF JobInv
  <2>2. TypeOK /\ TypeOK'
    BY <2>1 DEF JobInv, ReaderInv
  <2>3. RowsInv' /\ OrderInv' /\ OutputInv'
    BY <2>2, OutputSteps DEF JobInv
  <2> QED
    BY <2>1, <2>3 DEF JobInv
<1> QED
  BY <1>1, <1>2, PTL DEF JobSpec

-----------------------------------------------------------------------------
LEMMA RowId ==
  ASSUME NEW line, NEW id, NEW points, NEW j, NEW c, IsRow(line, id, points, j, c)
  PROVE  line[1].at[1] \in {id} \cup (IF j.program = "h3mm" THEN {} ELSE {0})
<1>1. CASE j.program = "h3mm"
  <2>1. line = H3WriteResult(c.result.write_geom, id, HexesOf(points, c))
    BY <1>1 DEF IsRow
  <2>2. line[1].at = <<id>>
    BY <2>1, H3RowShape
  <2> QED
    BY <2>2
<1>2. CASE j.program # "h3mm"
  <2>1. PICK stamps \in Nat, result \in ResultsOf(id, points) :
          line = WriteResult(c.result.fields, stamps, result)
    BY <1>2 DEF IsRow
  <2>2. line[1].at = <<result.id>>
    BY <2>1, RowShape
  <2>3. result.id \in {0, id}
    BY DEF ResultsOf, Matches, MatchResult
  <2> QED
    BY <1>2, <2>2, <2>3
<1> QED
  BY <1>1, <1>2

\* A row written is of a trajectory that was delivered.
LEMMA RowsAre ==
  ASSUME OrderInv, OutputInv, opened, job.program # "ubodt_gen", NEW k \in 1 .. Len(output) - 1
  PROVE  /\ Len(output) \in Nat /\ output # <<>> /\ output[1] = Header
         /\ k \in 1 .. Len(order) /\ order[k] \in 1 .. Len(Delivered)
         /\ IsRow(output[k + 1], Delivered[order[k]].id, Delivered[order[k]].points, job, config)
<1> DEFINE matched == MatchedOf(order, Delivered)
<1>1. Written(output, matched, Header, job, config)
  BY DEF OutputInv
<1>2. PICK S : output \in Seq(S)
  BY <1>1 DEF Written
<1>3. Ordered(order, Len(Delivered), Fetch) /\ Len(order) \in Nat
  BY DEF OrderInv, Ordered
<1>4. Len(matched) = Len(order) /\ \A l \in 1 .. Len(order) : matched[l] = Delivered[order[l]]
  BY <1>3, MatchedIs
<1> HIDE DEF matched
<1>5. Len(output) \in Nat /\ output # <<>>
  BY <1>2
<1>6. k \in 1 .. Len(order)
  BY <1>1, <1>3, <1>4, <1>5 DEF Written
<1>7. matched[k] = Delivered[order[k]] /\ order[k] \in 1 .. Len(Delivered)
  BY <1>3, <1>4, <1>6 DEF Ordered
<1>8. IsRow(output[k + 1], matched[k].id, matched[k].points, job, config) /\ output[1] = Header
  BY <1>1, <1>5, Zenon DEF Written
<1> QED
  BY <1>5, <1>6, <1>7, <1>8

(* An existing result file is not emptied for a job that is refused or      *)
(* whose input cannot be read.  Every row after its header is of another    *)
(* trajectory read, batch by batch.  A job that is done has the row of      *)
(* every trajectory; one that throws in the library has those of the whole  *)
(* batches read before, and none of the batch it was reading.               *)
THEOREM Accounts == JobSpec => []ResultAccounts
<1>1. JobInv => ResultAccounts
  <2> SUFFICES ASSUME JobInv PROVE ResultAccounts
    OBVIOUS
  <2>1. ControlInv /\ AcceptedInv /\ RowsInv /\ OrderInv /\ OutputInv /\ TypeOK
    BY DEF JobInv, ReaderInv
  <2>2. opened => /\ Writable /\ Accepted /\ Builds /\ job.program # "reader"
                  /\ job.program # "ubodt_gen" => ReaderFits
    BY <2>1 DEF ControlInv, AcceptedInv
  <2>3. row \in 1 .. Len(job.trajs) + 1 /\ Len(job.trajs) \in Nat
    BY <2>1, JobIs DEF ControlInv, RowsInv
  <2>4. ASSUME opened, job.program # "ubodt_gen", NEW k \in 1 .. RowsWritten
        PROVE  /\ output[k + 1][1].at[1]
                    \in {Delivered[order[k]].id} \cup (IF job.program = "h3mm" THEN {} ELSE {0})
               /\ BatchOf(order[k]) = BatchOf(k)
               /\ \A l \in 1 .. RowsWritten : order[k] = order[l] => k = l
    <3>1. k \in 1 .. Len(order)
          /\ IsRow(output[k + 1], Delivered[order[k]].id, Delivered[order[k]].points, job, config)
      BY <2>1, <2>4, RowsAre DEF RowsWritten
    <3>2. \A l \in 1 .. RowsWritten : l \in 1 .. Len(order)
      BY <2>1, <2>4, RowsAre DEF RowsWritten
    <3>3. Ordered(order, Len(Delivered), Fetch)
      BY <2>1 DEF OrderInv
    <3>4. BatchOf(order[k]) = BatchOf(k)
      BY <3>1, <3>3 DEF Ordered, BatchOf
    <3>5. \A l \in 1 .. RowsWritten : order[k] = order[l] => k = l
      BY <3>1, <3>2, <3>3 DEF Ordered
    <3> QED
      BY <3>1, <3>4, <3>5, RowId
  <2>5. ASSUME opened, job.program # "ubodt_gen"
        PROVE  RowsWritten >= 0 => output[1] = Header
    <3>1. Written(output, MatchedOf(order, Delivered), Header, job, config)
      BY <2>1, <2>5 DEF OutputInv
    <3>2. PICK S : output \in Seq(S)
      BY <3>1 DEF Written
    <3>3. RowsWritten >= 0 => output # <<>>
      BY <3>2 DEF RowsWritten
    <3> QED
      BY <3>1, <3>3 DEF Written
  <2>6. ASSUME opened, job.program # "ubodt_gen"
        PROVE  /\ stage = "done" => RowsWritten = Len(Delivered)
               /\ stage = "threw" /\ job.source = "library" =>
                    RowsWritten = Fetch * (Len(Delivered) \div Fetch)
    <3>1. /\ stage = "done" => Len(order) = Len(Delivered)
          /\ stage = "threw" => Len(order) = Fetch * (Len(Delivered) \div Fetch)
          /\ Len(order) \in Nat
      BY <2>1, <2>2, <2>6 DEF OrderInv, Ordered
    <3>2. stage = "done" \/ (stage = "threw" /\ job.source = "library") => Len(output) = Len(order) + 1
      BY <2>1, <2>6 DEF OutputInv
    <3> DEFINE whole == Fetch * (Len(Delivered) \div Fetch)
    <3> HIDE DEF whole
    <3>3. stage = "threw" => Len(order) = whole
      BY <3>1 DEF whole
    <3>4. stage = "done" \/ (stage = "threw" /\ job.source = "library") => RowsWritten = Len(order)
      BY <3>1, <3>2 DEF RowsWritten
    <3> QED
      BY <3>1, <3>3, <3>4 DEF whole
  <2>7. ASSUME opened, job.program # "ubodt_gen", stage = "done", ~ ByPoint
        PROVE  Len(Delivered) = Len(job.trajs)
    <3>1. ~ (row <= Len(job.trajs))
      BY <2>1, <2>2, <2>7 DEF AcceptedInv, MoreToRead
    <3>2. Len(Delivered) = row - 1
      BY <2>1, <2>3, <2>7, DeliveredLen
    <3> QED
      BY <2>3, <3>1, <3>2
  <2>8. ASSUME stage = "done", ~ opened
        PROVE  config.result.file = NoPath \/ (job.program = "h3mm" /\ job.source = "library")
    <3>1. Accepted /\ ~ Writable /\ job.program # "reader" /\ job \in Jobs
      BY <2>1, <2>8 DEF ControlInv, AcceptedInv
    <3>2. /\ job.program \in {"fmm", "stmatch", "h3mm", "ubodt_gen"}
          /\ job.program = "ubodt_gen" => job.source # "library"
      BY <3>1, JobAssumption
    <3>3. \/ job.program = "h3mm" /\ job.source = "library"
          \/ FolderExist(GetFileDirectory(config.result.file))
      BY <3>1, <3>2 DEF Accepted, MatchGpsFileValid, AppValid, FMMAppValid, STMATCHAppValid,
                        UBODTGenAppValid, H3MMAppValid, ResultValid, H3ResultValid
    <3> QED
      BY <3>1, <3>3 DEF Writable
  <2> QED
    BY <2>2, <2>4, <2>5, <2>6, <2>7, <2>8 DEF ResultAccounts
<1> QED
  BY <1>1, JobInvariance, PTL

-----------------------------------------------------------------------------
\* The first and the last of the columns of a name.
LEMMA FirstAndLast ==
  ASSUME NEW n \in Nat, NEW T \in SUBSET (1 .. n), T # {}
  PROVE  /\ \E k \in T : \A l \in T : k <= l
         /\ \E k \in T : \A l \in T : l <= k
<1>1. T \in SUBSET Nat
  OBVIOUS
<1>2. \E k \in T : \A l \in T : k <= l
  BY <1>1, LeastElement, Zenon
<1>3. \E k \in T : \A l \in T : l <= k
  <2> DEFINE Behind == {n - k : k \in T}
  <2>1. Behind \in SUBSET Nat /\ Behind # {}
    <3>1. \A k \in T : n - k \in Nat
      OBVIOUS
    <3>2. Behind \in SUBSET Nat
      BY <3>1
    <3>3. PICK k \in T : TRUE
      OBVIOUS
    <3>4. n - k \in Behind
      OBVIOUS
    <3> QED
      BY <3>2, <3>4
  <2>2. PICK m \in Behind : \A l \in Behind : m <= l
    <3> HIDE DEF Behind
    <3> QED
      BY <2>1, LeastElement
  <2>3. PICK k \in T : m = n - k
    OBVIOUS
  <2>4. \A l \in T : n - l \in Behind
    OBVIOUS
  <2>5. \A l \in T : n - k <= n - l
    BY <2>2, <2>3, <2>4, Zenon
  <2>6. \A l \in T : l <= k
    BY <2>5
  <2> QED
    BY <2>6
<1> QED
  BY <1>2, <1>3

LEMMA ColumnFound ==
  ASSUME Len(job.header) \in Nat, NEW name
  PROVE  ColumnIndex(name) \in -1 .. Len(job.header) - 1
<1> DEFINE n == Len(job.header)
           T == Places(name)
<1>1. n \in Nat /\ T \in SUBSET (1 .. n)
  BY DEF Places
<1>2. CASE T = {}
  BY <1>1, <1>2 DEF ColumnIndex
<1>3. CASE T # {}
  <2> HIDE DEF T, n
  <2>1. /\ \E k \in T : \A l \in T : k <= l
        /\ \E k \in T : \A l \in T : l <= k
    BY <1>1, <1>3, FirstAndLast
  <2> DEFINE column == CHOOSE k \in T : \A l \in T : IF Mode = 0 THEN k <= l ELSE l <= k
  <2>2. column \in T
    <3>1. CASE Mode = 0
      BY <2>1, <3>1
    <3>2. CASE Mode # 0
      BY <2>1, <3>2
    <3> QED
      BY <3>1, <3>2
  <2>3. ColumnIndex(name) = column - 1
    BY <1>3 DEF ColumnIndex, T
  <2> HIDE DEF column
  <2>4. column \in 1 .. n
    BY <1>1, <2>2
  <2> QED
    BY <1>1, <2>3, <2>4 DEF n
<1> QED
  BY <1>2, <1>3

TimeInv == timestamp_idx \in -1 .. Len(job.header) - 1

LEMMA HeaderIs == job \in Jobs => Len(job.header) \in Nat
BY JobAssumption

LEMMA TimeInvariance == JobSpec => []TimeInv
<1>1. JobInit => TimeInv
  BY HeaderIs DEF JobInit, TimeInv
<1>2. TimeInv /\ ControlInv /\ [JobNext]_jobVars => TimeInv'
  <2> SUFFICES ASSUME TimeInv, ControlInv, [JobNext]_jobVars PROVE TimeInv'
    OBVIOUS
  <2>1. job' = job
    BY DEF JobNext, JobStep, LoadFails, Load, Validate, Build, Generate, OpenReader, OpenWriter,
           ReadRow, ReadBadRow, BeginPoints, TakePoint, ReadBadPoint, EndPoints, FetchEnds,
           Match, MatchHex, Finish, Rewind, jobVars
  <2>2. CASE OpenReader
    <3>1. timestamp_idx' = timestamp_idx \/ timestamp_idx' = ColumnIndex(config.gps.timestamp)
      BY <2>2 DEF OpenReader
    <3> QED
      BY <2>1, <3>1, HeaderIs, ColumnFound DEF TimeInv, ControlInv
  <2>3. CASE ~ OpenReader
    <3>1. timestamp_idx' = timestamp_idx
      BY <2>3 DEF JobNext, JobStep, LoadFails, Load, Validate, Build, Generate, OpenWriter,
           ReadRow, ReadBadRow, BeginPoints, TakePoint, ReadBadPoint, EndPoints, FetchEnds,
           Match, MatchHex, Finish, Rewind, jobVars
    <3> QED
      BY <2>1, <3>1 DEF TimeInv
  <2> QED
    BY <2>2, <2>3
<1>3. JobInv => ControlInv
  BY DEF JobInv
<1> QED
  BY <1>1, <1>2, <1>3, JobInvariance, PTL DEF JobSpec

\* A header and a row have a column for the id and at most one for a field.
LEMMA HeaderLength ==
  ASSUME NEW j, NEW c
  PROVE  /\ \A fields : Len(WriteHeader(fields)) \in 1 .. 14
         /\ \A geom : Len(H3WriteHeader(geom)) \in 1 .. 14
         /\ Len(UBODTHeader) \in 1 .. 14
<1>1. ASSUME NEW fields PROVE Len(WriteHeader(fields)) \in 1 .. 14
  <2> DEFINE line == WriteResult(fields, 0, MatchResult(0, 0, 0, <<>>))
             m == Len(line)
  <2>1. m \in 1 .. 14 /\ [k \in 1 .. m |-> line[k].of] = WriteHeader(fields)
    BY RowShape
  <2> HIDE DEF m, line
  <2>2. WriteHeader(fields) = [k \in 1 .. m |-> line[k].of]
    BY <2>1, Zenon
  <2>3. \A k \in 1 .. m : WriteHeader(fields)[k] = line[k].of
    BY <2>2, Zenon
  <2>4. WriteHeader(fields) = [k \in 1 .. m |-> WriteHeader(fields)[k]]
    BY <2>2, <2>3, Zenon
  <2>5. m \in Nat
    BY <2>1
  <2>6. Len(WriteHeader(fields)) = m
    BY <2>4, <2>5, LenIs, Zenon
  <2> QED
    BY <2>1, <2>6, Zenon
<1>2. \A geom : Len(H3WriteHeader(geom)) \in 1 .. 14
  BY DEF H3WriteHeader
<1>3. Len(UBODTHeader) \in 1 .. 14
  BY DEF UBODTHeader
<1> QED
  BY <1>1, <1>2, <1>3

LEMMA RowLength ==
  ASSUME NEW line, NEW id, NEW points, NEW j, NEW c, IsRow(line, id, points, j, c)
  PROVE  Len(line) \in 1 .. 14
<1>1. CASE j.program = "h3mm"
  <2>1. line = H3WriteResult(c.result.write_geom, id, HexesOf(points, c))
    BY <1>1 DEF IsRow
  <2>2. Len(line) \in 2 .. 3
    BY <2>1, H3RowShape
  <2>3. \A m \in 2 .. 3 : m \in 1 .. 14
    OBVIOUS
  <2> QED
    BY <2>2, <2>3, Zenon
<1>2. CASE j.program # "h3mm"
  <2>1. PICK stamps \in Nat, result \in ResultsOf(id, points) :
          line = WriteResult(c.result.fields, stamps, result)
    BY <1>2 DEF IsRow
  <2> QED
    BY <2>1, RowShape
<1> QED
  BY <1>1, <1>2

(* The types, the column of the timestamps and the lengths of the lines.    *)
THEOREM JobTypes == JobSpec => []JobTypeOK
<1>1. JobInv /\ TimeInv => JobTypeOK
  <2> SUFFICES ASSUME JobInv, TimeInv PROVE JobTypeOK
    OBVIOUS
  <2>1. ControlInv /\ AcceptedInv /\ RowsInv /\ OrderInv /\ OutputInv /\ TypeOK
    BY DEF JobInv, ReaderInv
  <2>2. /\ stage \in Ended \cup {"start", "loaded", "valid", "built", "reader", "loop", "read"}
        /\ timestamp_idx \in -1 .. Len(job.header) - 1
        /\ row \in 1 .. Len(job.trajs) + 1
        /\ trajectories \in Seq([id : Nat, points : Seq(Cells), stamps : Nat])
        /\ waiting \subseteq 1 .. Len(trajectories)
        /\ opened \in BOOLEAN
        /\ order \in Seq(Nat) /\ \A k \in 1 .. Len(order) : order[k] \in 1 .. Len(Delivered)
    BY <2>1 DEF ControlInv, RowsInv, OrderInv, Ordered, Trajs, TimeInv, Opening
  <2>3. ASSUME NEW k \in 1 .. Len(output) PROVE Len(output[k]) \in 1 .. 14
    <3>1. CASE ~ opened /\ job.program # "ubodt_gen"
      <4>1. output = <<>>
        BY <2>1, <3>1 DEF ControlInv
      <4> QED
        BY <4>1
    <3>2. CASE job.program = "ubodt_gen"
      <4>1. output \in {<<>>, <<UBODTHeader>>}
        BY <2>1, <3>2 DEF OutputInv
      <4>2. \A x : Len(<<x>>) = 1 /\ <<x>>[1] = x
        OBVIOUS
      <4>3. output = <<UBODTHeader>>
        BY <4>1
      <4>4. k = 1 /\ output[1] = UBODTHeader
        <5>1. Len(output) = 1 /\ output[1] = UBODTHeader
          BY <4>2, <4>3, Zenon
        <5> QED
          BY <5>1
      <4> QED
        BY <4>4, HeaderLength, Zenon
    <3>3. CASE opened /\ job.program # "ubodt_gen"
      <4>1. Written(output, MatchedOf(order, Delivered), Header, job, config)
        BY <2>1, <3>3 DEF OutputInv
      <4>2. PICK S : output \in Seq(S)
        BY <4>1 DEF Written
      <4>3. CASE k = 1
        <5>1. output[k] = Header
          BY <4>1, <4>2, <4>3 DEF Written
        <5> QED
          BY <5>1, HeaderLength DEF Header
      <4>4. CASE k # 1
        <5>1. k - 1 \in 1 .. Len(output) - 1 /\ (k - 1) + 1 = k
          BY <4>2, <4>4
        <5>2. PICK traj : IsRow(output[(k - 1) + 1], traj.id, traj.points, job, config)
          BY <2>1, <3>3, <5>1, RowsAre
        <5> QED
          BY <5>1, <5>2, RowLength
      <4> QED
        BY <4>3, <4>4
    <3> QED
      BY <3>1, <3>2, <3>3
  <2>4. Cardinality(Fields) + 1 = 14
    BY FieldCount
  <2> QED
    BY <2>1, <2>2, <2>3, <2>4, Zenon DEF JobTypeOK
<1> QED
  BY <1>1, JobInvariance, TimeInvariance, PTL

-----------------------------------------------------------------------------
\* Arguments a parser takes.
Parses(doc, options, flags) ==
  /\ DOMAIN doc \subseteq DOMAIN options \cup flags
  /\ \A option \in DOMAIN doc : doc[option] # Malformed

LEMMA OptionIs ==
  ASSUME NEW doc, NEW options, NEW flags, Parses(doc, options, flags)
  PROVE  LET arg == Parsed(doc, options) IN
         /\ \A option \in DOMAIN options :
              arg[option] = XmlGet(doc, option, options[option])
         /\ \A option \in DOMAIN doc : arg[option] = doc[option]
         /\ \A option : Has(arg, option) <=> Has(doc, option) \/ option \in DOMAIN options
BY DEF Parses, Parsed, ++, XmlGet, Has

LEMMA MergedDomain ==
  \A f, g, option : option \in DOMAIN (f ++ g) <=> option \in DOMAIN f \/ option \in DOMAIN g
BY DEF ++

\* The default of every option that the programs share.
SharedOptions(options) ==
  /\ {"network", "network_id", "source", "target", "output"} \subseteq DOMAIN options
  /\ options["network_id"] = "id" /\ options["source"] = "source" /\ options["target"] = "target"

PointOptions(options) ==
  /\ {"gps", "gps_id", "gps_x", "gps_y", "gps_geom", "gps_timestamp",
      "candidates", "radius", "error", "reverse_tolerance", "log_level", "step"} \subseteq DOMAIN options
  /\ options["gps_id"] = "id" /\ options["gps_x"] = "x" /\ options["gps_y"] = "y"
  /\ options["gps_geom"] = "geom" /\ options["gps_timestamp"] = "timestamp"
  /\ options["candidates"] = 8 /\ options["radius"] = 300 /\ options["error"] = 50
  /\ options["reverse_tolerance"] = 0 /\ options["log_level"] = 2 /\ options["step"] = 100

LEMMA OptionsOfFMM ==
  /\ SharedOptions(FMMAppOptions) /\ PointOptions(FMMAppOptions)
  /\ "ubodt" \in DOMAIN FMMAppOptions
  /\ "use_omp" \notin DOMAIN FMMAppOptions /\ "gps_point" \notin DOMAIN FMMAppOptions
  /\ "output_fields" \notin DOMAIN FMMAppOptions
<1>0. \A option : option \in DOMAIN FMMAppOptions <=>
        \/ option \in DOMAIN NetworkOptions \/ option \in DOMAIN GPSOptions
        \/ option \in DOMAIN ResultOptions \/ option \in DOMAIN FMMOptions
        \/ option \in DOMAIN [ubodt |-> NoPath] \/ option \in DOMAIN OtherOptions
  BY MergedDomain DEF FMMAppOptions
<1>1. SharedOptions(FMMAppOptions)
  <2>1. {"network", "network_id", "source", "target", "output"} \subseteq DOMAIN FMMAppOptions
    BY <1>0 DEF NetworkOptions, GPSOptions, ResultOptions, FMMOptions, OtherOptions
  <2>2. /\ FMMAppOptions["network_id"] = "id" /\ FMMAppOptions["source"] = "source"
        /\ FMMAppOptions["target"] = "target"
    BY DEF FMMAppOptions, NetworkOptions, GPSOptions, ResultOptions, FMMOptions, OtherOptions, ++
  <2> QED
    BY <2>1, <2>2 DEF SharedOptions
<1>2. PointOptions(FMMAppOptions)
  <2>1. {"gps", "gps_id", "gps_x", "gps_y", "gps_geom", "gps_timestamp"} \subseteq DOMAIN FMMAppOptions
    BY <1>0 DEF NetworkOptions, GPSOptions, ResultOptions, FMMOptions, OtherOptions
  <2>2. {"candidates", "radius", "error", "reverse_tolerance", "log_level", "step"}
          \subseteq DOMAIN FMMAppOptions
    BY <1>0 DEF NetworkOptions, GPSOptions, ResultOptions, FMMOptions, OtherOptions
  <2>3. /\ FMMAppOptions["gps_id"] = "id" /\ FMMAppOptions["gps_geom"] = "geom"
        /\ FMMAppOptions["gps_x"] = "x" /\ FMMAppOptions["gps_y"] = "y"
    BY DEF FMMAppOptions, NetworkOptions, GPSOptions, ResultOptions, FMMOptions, OtherOptions, ++
  <2>4. /\ FMMAppOptions["gps_timestamp"] = "timestamp"
        /\ FMMAppOptions["candidates"] = 8 /\ FMMAppOptions["radius"] = 300
    BY DEF FMMAppOptions, NetworkOptions, GPSOptions, ResultOptions, FMMOptions, OtherOptions, ++
  <2>5. /\ FMMAppOptions["error"] = 50 /\ FMMAppOptions["reverse_tolerance"] = 0
        /\ FMMAppOptions["log_level"] = 2 /\ FMMAppOptions["step"] = 100
    BY DEF FMMAppOptions, NetworkOptions, GPSOptions, ResultOptions, FMMOptions, OtherOptions, ++
  <2> QED
    BY <2>1, <2>2, <2>3, <2>4, <2>5 DEF PointOptions
<1>3. "ubodt" \in DOMAIN FMMAppOptions
  BY <1>0 DEF NetworkOptions, GPSOptions, ResultOptions, FMMOptions, OtherOptions
<1>4. /\ "use_omp" \notin DOMAIN FMMAppOptions /\ "gps_point" \notin DOMAIN FMMAppOptions
      /\ "output_fields" \notin DOMAIN FMMAppOptions
  BY <1>0 DEF NetworkOptions, GPSOptions, ResultOptions, FMMOptions, OtherOptions
<1> QED
  BY <1>1, <1>2, <1>3, <1>4

LEMMA OptionsOfSTMATCH ==
  /\ SharedOptions(STMATCHAppOptions) /\ PointOptions(STMATCHAppOptions)
  /\ {"vmax", "factor"} \subseteq DOMAIN STMATCHAppOptions /\ STMATCHAppOptions["factor"] = 15
  /\ "use_omp" \notin DOMAIN STMATCHAppOptions /\ "gps_point" \notin DOMAIN STMATCHAppOptions
  /\ "output_fields" \notin DOMAIN STMATCHAppOptions
<1>0. \A option : option \in DOMAIN STMATCHAppOptions <=>
        \/ option \in DOMAIN NetworkOptions \/ option \in DOMAIN GPSOptions
        \/ option \in DOMAIN ResultOptions \/ option \in DOMAIN STMATCHOptions
        \/ option \in DOMAIN OtherOptions
  BY MergedDomain DEF STMATCHAppOptions
<1>1. SharedOptions(STMATCHAppOptions)
  <2>1. {"network", "network_id", "source", "target", "output"} \subseteq DOMAIN STMATCHAppOptions
    BY <1>0 DEF NetworkOptions, GPSOptions, ResultOptions, STMATCHOptions, OtherOptions
  <2>2. /\ STMATCHAppOptions["network_id"] = "id" /\ STMATCHAppOptions["source"] = "source"
        /\ STMATCHAppOptions["target"] = "target"
    BY DEF STMATCHAppOptions, NetworkOptions, GPSOptions, ResultOptions, STMATCHOptions,
           OtherOptions, ++
  <2> QED
    BY <2>1, <2>2 DEF SharedOptions
<1>2. PointOptions(STMATCHAppOptions)
  <2>1. {"gps", "gps_id", "gps_x", "gps_y", "gps_geom", "gps_timestamp"} \subseteq DOMAIN STMATCHAppOptions
    BY <1>0 DEF NetworkOptions, GPSOptions, ResultOptions, STMATCHOptions, OtherOptions
  <2>2. {"candidates", "radius", "error", "reverse_tolerance", "log_level", "step"}
          \subseteq DOMAIN STMATCHAppOptions
    BY <1>0 DEF NetworkOptions, GPSOptions, ResultOptions, STMATCHOptions, OtherOptions
  <2>3. /\ STMATCHAppOptions["gps_id"] = "id" /\ STMATCHAppOptions["gps_geom"] = "geom"
        /\ STMATCHAppOptions["gps_x"] = "x" /\ STMATCHAppOptions["gps_y"] = "y"
    BY DEF STMATCHAppOptions, NetworkOptions, GPSOptions, ResultOptions, STMATCHOptions,
           OtherOptions, ++
  <2>4. /\ STMATCHAppOptions["gps_timestamp"] = "timestamp"
        /\ STMATCHAppOptions["candidates"] = 8 /\ STMATCHAppOptions["radius"] = 300
    BY DEF STMATCHAppOptions, NetworkOptions, GPSOptions, ResultOptions, STMATCHOptions,
           OtherOptions, ++
  <2>5. /\ STMATCHAppOptions["error"] = 50 /\ STMATCHAppOptions["reverse_tolerance"] = 0
        /\ STMATCHAppOptions["log_level"] = 2 /\ STMATCHAppOptions["step"] = 100
    BY DEF STMATCHAppOptions, NetworkOptions, GPSOptions, ResultOptions, STMATCHOptions,
           OtherOptions, ++
  <2> QED
    BY <2>1, <2>2, <2>3, <2>4, <2>5 DEF PointOptions
<1>3. /\ {"vmax", "factor"} \subseteq DOMAIN STMATCHAppOptions /\ STMATCHAppOptions["factor"] = 15
  BY DEF STMATCHAppOptions, NetworkOptions, GPSOptions, ResultOptions, STMATCHOptions,
           OtherOptions, ++
<1>4. /\ "use_omp" \notin DOMAIN STMATCHAppOptions /\ "gps_point" \notin DOMAIN STMATCHAppOptions
      /\ "output_fields" \notin DOMAIN STMATCHAppOptions
  BY <1>0 DEF NetworkOptions, GPSOptions, ResultOptions, STMATCHOptions, OtherOptions
<1> QED
  BY <1>1, <1>2, <1>3, <1>4

LEMMA OptionsOfUBODTGen ==
  /\ SharedOptions(UBODTGenAppOptions)
  /\ {"delta", "log_level"} \subseteq DOMAIN UBODTGenAppOptions
  /\ UBODTGenAppOptions["delta"] = 3000 /\ UBODTGenAppOptions["log_level"] = 2
  /\ "use_omp" \notin DOMAIN UBODTGenAppOptions
<1>1. SharedOptions(UBODTGenAppOptions)
  BY DEF SharedOptions, UBODTGenAppOptions, NetworkOptions, ResultOptions, ++
<1>2. /\ {"delta", "log_level"} \subseteq DOMAIN UBODTGenAppOptions
      /\ UBODTGenAppOptions["delta"] = 3000 /\ UBODTGenAppOptions["log_level"] = 2
      /\ "use_omp" \notin DOMAIN UBODTGenAppOptions
  BY DEF UBODTGenAppOptions, NetworkOptions, ResultOptions, ++
<1> QED
  BY <1>1, <1>2

\* The parts of a configuration that the programs share.
LEMMA PartsAgree ==
  ASSUME NEW doc, NEW options, NEW flags, Parses(doc, options, flags), SharedOptions(options),
         {"network", "output"} \subseteq DOMAIN doc,
         NEW arg, arg = Parsed(doc, options)
  PROVE  /\ NetworkFromArg(arg) = NetworkFromXml(doc)
         /\ arg.output = doc.output
         /\ "output_fields" \notin DOMAIN options => ResultFromArg(arg) = ResultFromXml(doc)
         /\ "use_omp" \notin DOMAIN options => Has(arg, "use_omp") = Has(doc, "use_omp")
<1>1. /\ \A option \in DOMAIN options : arg[option] = XmlGet(doc, option, options[option])
      /\ \A option \in DOMAIN doc : arg[option] = doc[option]
      /\ \A option : Has(arg, option) <=> Has(doc, option) \/ option \in DOMAIN options
  BY OptionIs
<1>2. NetworkFromArg(arg) = NetworkFromXml(doc)
  BY <1>1 DEF SharedOptions, NetworkFromArg, NetworkFromXml
<1>3. arg["output"] = doc["output"]
  BY <1>1
<1>4. ASSUME "output_fields" \notin DOMAIN options PROVE ResultFromArg(arg) = ResultFromXml(doc)
  <2>1. Has(arg, "output_fields") = Has(doc, "output_fields")
    BY <1>1, <1>4 DEF Has
  <2>2. Has(doc, "output_fields") => arg["output_fields"] = doc["output_fields"]
    BY <1>1 DEF Has
  <2> QED
    BY <1>3, <2>1, <2>2 DEF ResultFromArg, ResultFromXml
<1>5. "use_omp" \notin DOMAIN options => Has(arg, "use_omp") = Has(doc, "use_omp")
  BY <1>1 DEF Has
<1> QED
  BY <1>2, <1>3, <1>4, <1>5

LEMMA PointPartsAgree ==
  ASSUME NEW doc, NEW options, NEW flags, Parses(doc, options, flags), PointOptions(options),
         "gps" \in DOMAIN doc, "gps_point" \notin DOMAIN options,
         NEW arg, arg = Parsed(doc, options)
  PROVE  /\ GPSFromArg(arg) = GPSFromXml(doc)
         /\ FMMFromArg(arg) = FMMFromXml(doc)
         /\ arg.log_level = XmlGet(doc, "log_level", 2)
         /\ arg.step = XmlGet(doc, "step", 100)
<1>1. /\ \A option \in DOMAIN options : arg[option] = XmlGet(doc, option, options[option])
      /\ \A option \in DOMAIN doc : arg[option] = doc[option]
      /\ \A option : Has(arg, option) <=> Has(doc, option) \/ option \in DOMAIN options
  BY OptionIs
<1>2. Has(arg, "gps_point") = Has(doc, "gps_point")
  BY <1>1 DEF Has
<1>3. GPSFromArg(arg) = GPSFromXml(doc)
  BY <1>1, <1>2 DEF PointOptions, GPSFromArg, GPSFromXml
<1>4. FMMFromArg(arg) = FMMFromXml(doc)
  BY <1>1 DEF PointOptions, FMMFromArg, FMMFromXml
<1>5. arg.log_level = XmlGet(doc, "log_level", 2) /\ arg.step = XmlGet(doc, "step", 100)
  BY <1>1 DEF PointOptions
<1> QED
  BY <1>3, <1>4, <1>5

LEMMA FMMAgrees ==
  ASSUME NEW doc, Parses(doc, FMMAppOptions, Flags("fmm")), ~ Help(doc),
         Needed("fmm") \subseteq DOMAIN doc
  PROVE  FMMLoadArg(doc) = FMMLoadXml(doc)
<1> DEFINE arg == Parsed(doc, FMMAppOptions)
<1>0. {"network", "gps", "output", "ubodt"} \subseteq DOMAIN doc
  BY DEF Needed
<1>1. /\ NetworkFromArg(arg) = NetworkFromXml(doc)
      /\ ResultFromArg(arg) = ResultFromXml(doc)
      /\ Has(arg, "use_omp") = Has(doc, "use_omp")
  BY <1>0, OptionsOfFMM, PartsAgree
<1>2. /\ GPSFromArg(arg) = GPSFromXml(doc)
      /\ FMMFromArg(arg) = FMMFromXml(doc)
      /\ arg.log_level = XmlGet(doc, "log_level", 2)
      /\ arg.step = XmlGet(doc, "step", 100)
  BY <1>0, OptionsOfFMM, PointPartsAgree
<1>3. arg["ubodt"] = doc["ubodt"]
  BY <1>0, OptionIs
<1>4. Help(doc) = FALSE
  BY DEF Help, Has
<1> HIDE DEF arg
<1> QED
  BY <1>1, <1>2, <1>3, <1>4 DEF FMMLoadArg, FMMLoadXml, arg

LEMMA STMATCHAgrees ==
  ASSUME NEW doc, Parses(doc, STMATCHAppOptions, Flags("stmatch")), ~ Help(doc),
         Needed("stmatch") \subseteq DOMAIN doc, Has(doc, "vmax")
  PROVE  STMATCHLoadArg(doc) = STMATCHLoadXml(doc)
<1> DEFINE arg == Parsed(doc, STMATCHAppOptions)
<1>0. {"network", "gps", "output"} \subseteq DOMAIN doc
  BY DEF Needed
<1>1. /\ NetworkFromArg(arg) = NetworkFromXml(doc)
      /\ ResultFromArg(arg) = ResultFromXml(doc)
      /\ Has(arg, "use_omp") = Has(doc, "use_omp")
  BY <1>0, OptionsOfSTMATCH, PartsAgree
<1>2. /\ GPSFromArg(arg) = GPSFromXml(doc)
      /\ FMMFromArg(arg) = FMMFromXml(doc)
      /\ arg.log_level = XmlGet(doc, "log_level", 2)
      /\ arg.step = XmlGet(doc, "step", 100)
  BY <1>0, OptionsOfSTMATCH, PointPartsAgree
<1>3. /\ \A option \in DOMAIN STMATCHAppOptions :
           arg[option] = XmlGet(doc, option, STMATCHAppOptions[option])
  BY OptionIs
<1>4. Help(doc) = FALSE
  BY DEF Help, Has
<1>5. XmlGet(doc, "vmax", STMATCHAppOptions["vmax"]) = XmlGet(doc, "vmax", 80)
  BY DEF XmlGet, Has, Parses
<1>6. /\ arg["vmax"] = XmlGet(doc, "vmax", 80) /\ arg["factor"] = XmlGet(doc, "factor", 15)
      /\ \A option \in {"candidates", "radius", "error", "reverse_tolerance"} :
           arg[option] = XmlGet(doc, option, STMATCHAppOptions[option])
  BY <1>3, <1>5, OptionsOfSTMATCH DEF PointOptions
<1> HIDE DEF arg
<1>7. STMATCHFromArg(arg) = STMATCHFromXml(doc)
  BY <1>6, OptionsOfSTMATCH DEF STMATCHFromArg, STMATCHFromXml, PointOptions
<1> QED
  BY <1>1, <1>2, <1>4, <1>7 DEF STMATCHLoadArg, STMATCHLoadXml, arg

LEMMA UBODTGenAgrees ==
  ASSUME NEW doc, Parses(doc, UBODTGenAppOptions, Flags("ubodt_gen")), ~ Help(doc),
         Needed("ubodt_gen") \subseteq DOMAIN doc
  PROVE  UBODTGenLoadArg(doc) = UBODTGenLoadXml(doc)
<1> DEFINE arg == Parsed(doc, UBODTGenAppOptions)
<1>0. {"network", "output"} \subseteq DOMAIN doc
  BY DEF Needed
<1>1. /\ NetworkFromArg(arg) = NetworkFromXml(doc)
      /\ arg.output = doc.output
      /\ Has(arg, "use_omp") = Has(doc, "use_omp")
  BY <1>0, OptionsOfUBODTGen, PartsAgree
<1>2. arg["delta"] = XmlGet(doc, "delta", 3000) /\ arg["log_level"] = XmlGet(doc, "log_level", 2)
  BY OptionsOfUBODTGen, OptionIs
<1>3. Help(doc) = FALSE
  BY DEF Help, Has
<1> HIDE DEF arg
<1>4. PICK m : m = 3000
  OBVIOUS
<1>5. arg.delta = XmlGet(doc, "delta", m) /\ arg.log_level = XmlGet(doc, "log_level", 2)
  BY <1>2, <1>4
<1>6. UBODTGenLoadXml(doc) =
        [network |-> NetworkFromXml(doc), delta |-> XmlGet(doc, "delta", m),
         result |-> [file |-> doc.output], log_level |-> XmlGet(doc, "log_level", 2),
         use_omp |-> Has(doc, "use_omp"), help |-> FALSE]
  BY <1>4 DEF UBODTGenLoadXml
<1> QED
  BY <1>1, <1>3, <1>5, <1>6 DEF UBODTGenLoadArg, arg

(* The same options mean the same job, whether they stand in an XML file or *)
(* are arguments, but for the default of vmax.                              *)
THEOREM ConfigsAgree == JobSpec => []SameConfig
<1>1. JobInv => SameConfig
  <2> SUFFICES ASSUME ControlInv,
                      stage = "loaded", job.source = "arg", job.program # "h3mm",
                      Needed(job.program) \subseteq DOMAIN job.doc,
                      job.program = "stmatch" => Has(job.doc, "vmax")
               PROVE  config = Loaded(job.program, "xml", job.doc)
    BY DEF JobInv, SameConfig
  <2> DEFINE doc == job.doc
  <2>1. /\ job.program \in {"fmm", "stmatch", "ubodt_gen"}
        /\ ~ LoadThrows(job.program, "arg", doc)
        /\ config = Loaded(job.program, "arg", doc) /\ ~ config.help
    BY JobAssumption DEF ControlInv
  <2>2. "network" \in DOMAIN doc
    BY <2>1 DEF Needed
  <2>3. Parses(doc, Options(job.program), Flags(job.program))
    <3>1. ~ ParseThrows(doc, Options(job.program), Flags(job.program))
      BY <2>1, <2>2 DEF LoadThrows
    <3> QED
      BY <3>1 DEF ParseThrows, Parses
  <2> HIDE DEF doc
  <2>4. CASE job.program = "fmm"
    <3>1. config = FMMLoadArg(doc) /\ Loaded(job.program, "xml", doc) = FMMLoadXml(doc)
      BY <2>1, <2>4 DEF Loaded
    <3>2. ~ Help(doc)
      BY <2>1, <3>1 DEF FMMLoadArg
    <3>3. Options("fmm") = FMMAppOptions
      BY DEF Options
    <3> QED
      BY <2>3, <2>4, <3>1, <3>2, <3>3, FMMAgrees DEF doc
  <2>5. CASE job.program = "stmatch"
    <3>1. config = STMATCHLoadArg(doc) /\ Loaded(job.program, "xml", doc) = STMATCHLoadXml(doc)
      BY <2>1, <2>5 DEF Loaded
    <3>2. ~ Help(doc)
      BY <2>1, <3>1 DEF STMATCHLoadArg
    <3>3. Options("stmatch") = STMATCHAppOptions
      BY DEF Options
    <3> QED
      BY <2>3, <2>5, <3>1, <3>2, <3>3, STMATCHAgrees DEF doc
  <2>6. CASE job.program = "ubodt_gen"
    <3>1. config = UBODTGenLoadArg(doc) /\ Loaded(job.program, "xml", doc) = UBODTGenLoadXml(doc)
      BY <2>1, <2>6 DEF Loaded
    <3>2. ~ Help(doc)
      BY <2>1, <3>1 DEF UBODTGenLoadArg
    <3>3. Options("ubodt_gen") = UBODTGenAppOptions
      BY DEF Options
    <3> QED
      BY <2>3, <2>6, <3>1, <3>2, <3>3, UBODTGenAgrees DEF doc
  <2> QED
    BY <2>1, <2>4, <2>5, <2>6
<1> QED
  BY <1>1, JobInvariance, PTL

-----------------------------------------------------------------------------
LEMMA SameSequence ==
  ASSUME NEW S, NEW s \in Seq(S), NEW t \in Seq(S), Len(s) = Len(t),
         \A k \in 1 .. Len(s) : s[k] = t[k]
  PROVE  s = t
OBVIOUS

\* Two paths that meet in an edge.
LEMMA FromJoins ==
  ASSUME NEW b \in Nat, NEW c \in Nat, b <= c
  PROVE  /\ Head(From(b, c)) = From(0, b)[Len(From(0, b))]
         /\ From(0, b) \o Tail(From(b, c)) = From(0, c)
<1> DEFINE s == From(0, b)
           t == From(b, c)
           u == From(0, c)
<1>1. /\ s \in Seq(Int) /\ Len(s) = b + 1 /\ \A k \in 1 .. b + 1 : s[k] = k - 1
  <2>1. /\ From(0, b) \in Seq(Int)
        /\ Len(From(0, b)) = IF b < 0 THEN 0 ELSE b - 0 + 1
        /\ \A k \in 1 .. b - 0 + 1 : From(0, b)[k] = 0 + k - 1
    BY FromIs
  <2> QED
    BY <2>1
<1>2. /\ u \in Seq(Int) /\ Len(u) = c + 1 /\ \A k \in 1 .. c + 1 : u[k] = k - 1
  <2>1. /\ From(0, c) \in Seq(Int)
        /\ Len(From(0, c)) = IF c < 0 THEN 0 ELSE c - 0 + 1
        /\ \A k \in 1 .. c - 0 + 1 : From(0, c)[k] = 0 + k - 1
    BY FromIs
  <2> QED
    BY <2>1
<1>3. /\ t \in Seq(Int) /\ Len(t) = c - b + 1 /\ \A k \in 1 .. c - b + 1 : t[k] = b + k - 1
  BY FromIs
<1> HIDE DEF s, t, u
<1>4. t # <<>> /\ Head(t) = b
  <2>1. 1 \in 1 .. c - b + 1
    OBVIOUS
  <2>2. t # <<>>
    BY <1>3
  <2> QED
    BY <1>3, <2>1, <2>2
<1>5. s[Len(s)] = b
  <2>1. b + 1 \in 1 .. b + 1
    OBVIOUS
  <2> QED
    BY <1>1, <2>1
<1>6. /\ Tail(t) \in Seq(Int) /\ Len(Tail(t)) = c - b
      /\ \A k \in 1 .. c - b : Tail(t)[k] = b + k
  BY <1>3, <1>4
<1>7. /\ s \o Tail(t) \in Seq(Int) /\ Len(s \o Tail(t)) = c + 1
      /\ \A k \in 1 .. b + 1 : (s \o Tail(t))[k] = s[k]
      /\ \A k \in b + 2 .. c + 1 : (s \o Tail(t))[k] = Tail(t)[k - (b + 1)]
  <2>1. ASSUME NEW w \in Seq(Int), Len(w) = c - b
        PROVE  /\ s \o w \in Seq(Int) /\ Len(s \o w) = c + 1
               /\ \A k \in 1 .. b + 1 : (s \o w)[k] = s[k]
               /\ \A k \in b + 2 .. c + 1 : (s \o w)[k] = w[k - (b + 1)]
    <3>1. s \o w \in Seq(Int) /\ Len(s \o w) = c + 1
      <4>1. s \o w \in Seq(Int) /\ Len(s \o w) = Len(s) + Len(w)
        <5>1. \A p, q \in Seq(Int) : p \o q \in Seq(Int) /\ Len(p \o q) = Len(p) + Len(q)
          OBVIOUS
        <5> QED
          BY <1>1, <5>1, Zenon
      <4>2. Len(s) + Len(w) = (b + 1) + (c - b)
        BY <1>1, <2>1
      <4>3. (b + 1) + (c - b) = c + 1
        OBVIOUS
      <4> QED
        BY <4>1, <4>2, <4>3, Zenon
    <3>2. \A k \in 1 .. b + 1 : (s \o w)[k] = s[k]
      BY <1>1, <2>1
    <3>3. \A k \in b + 2 .. c + 1 : (s \o w)[k] = w[k - (b + 1)]
      BY <1>1, <2>1
    <3> QED
      BY <3>1, <3>2, <3>3
  <2> QED
    BY <1>6, <2>1, Zenon
<1>8. ASSUME NEW k \in 1 .. c + 1 PROVE (s \o Tail(t))[k] = u[k]
  <2>1. CASE k <= b + 1
    BY <1>1, <1>2, <1>7, <2>1
  <2>2. CASE ~ (k <= b + 1)
    <3>1. k \in b + 2 .. c + 1 /\ k - (b + 1) \in 1 .. c - b
      BY <2>2
    <3>2. (s \o Tail(t))[k] = Tail(t)[k - (b + 1)]
      BY <1>7, <3>1, Zenon
    <3>3. Tail(t)[k - (b + 1)] = b + (k - (b + 1))
      BY <1>6, <3>1, Zenon
    <3>4. u[k] = k - 1
      BY <1>2
    <3>5. b + (k - (b + 1)) = k - 1
      OBVIOUS
    <3> QED
      BY <3>2, <3>3, <3>4, <3>5, Zenon
  <2> QED
    BY <2>1, <2>2
<1>9. s \o Tail(t) = u
  <2> DEFINE st == s \o Tail(t)
  <2>1. st \in Seq(Int) /\ u \in Seq(Int) /\ Len(st) = Len(u) /\ \A k \in 1 .. Len(st) : st[k] = u[k]
    BY <1>2, <1>7, <1>8
  <2> HIDE DEF st
  <2>2. st = u
    BY <2>1, SameSequence
  <2> QED
    BY <2>2 DEF st
<1> QED
  BY <1>4, <1>5, <1>9 DEF s, t, u

\* The paths between the points, joined as RowFitsHeader joins them.
Joined(tpath) ==
  LET joined[j \in 1 .. Len(tpath)] ==
        IF j = 1 THEN tpath[1]
        ELSE IF Head(tpath[j]) = joined[j - 1][Len(joined[j - 1])]
        THEN joined[j - 1] \o Tail(tpath[j]) ELSE <<>>
  IN  joined[Len(tpath)]

LEMMA PathsJoin ==
  ASSUME NEW m \in Nat, m > 0, NEW at \in [1 .. m + 1 -> Nat], at[1] = 0,
         \A j \in 1 .. m : at[j] <= at[j + 1],
         NEW tpath, Len(tpath) = m, \A j \in 1 .. m : tpath[j] = From(at[j], at[j + 1])
  PROVE  Joined(tpath) = From(0, at[m + 1])
<1> DEFINE Step(x, j) == IF Head(tpath[j]) = x[Len(x)] THEN x \o Tail(tpath[j]) ELSE <<>>
           Entry(f, j) == IF j = 1 THEN tpath[1]
                          ELSE IF Head(tpath[j]) = f[j - 1][Len(f[j - 1])]
                          THEN f[j - 1] \o Tail(tpath[j]) ELSE <<>>
           Body(f) == [j \in 1 .. m |-> Entry(f, j)]
           joined == CHOOSE f : f = Body(f)
           whole == [j \in 1 .. m |-> From(0, at[j + 1])]
<1>1. Joined(tpath) = joined[m]
  BY DEF Joined
<1>2. ASSUME NEW j \in 1 .. m, j # 1
      PROVE  Step(From(0, at[(j - 1) + 1]), j) = From(0, at[j + 1])
  <2>1. j \in 1 .. m + 1 /\ j + 1 \in 1 .. m + 1 /\ (j - 1) + 1 = j
    OBVIOUS
  <2>2. at[j] \in Nat /\ at[j + 1] \in Nat /\ at[j] <= at[j + 1] /\ tpath[j] = From(at[j], at[j + 1])
    BY <2>1
  <2>3. /\ Head(From(at[j], at[j + 1])) = From(0, at[j])[Len(From(0, at[j]))]
        /\ From(0, at[j]) \o Tail(From(at[j], at[j + 1])) = From(0, at[j + 1])
    BY <2>2, FromJoins
  <2>4. Step(From(0, at[j]), j) = From(0, at[j + 1])
    BY <2>2, <2>3, Zenon
  <2> QED
    BY <2>1, <2>4
<1>3. tpath[1] = From(0, at[1 + 1])
  <2>1. 1 \in 1 .. m
    OBVIOUS
  <2> QED
    BY <2>1
<1>4. whole = Body(whole)
  <2>1. ASSUME NEW j \in 1 .. m PROVE whole[j] = Body(whole)[j]
    <3>1. CASE j = 1
      <4>1. whole[1] = From(0, at[1 + 1])
        BY <3>1
      <4>2. Body(whole)[1] = tpath[1]
        BY <3>1
      <4> QED
        BY <1>3, <3>1, <4>1, <4>2, Zenon
    <3>2. CASE j # 1
      <4>1. j - 1 \in 1 .. m
        BY <3>2
      <4>2. whole[j] = From(0, at[j + 1]) /\ whole[j - 1] = From(0, at[(j - 1) + 1])
        BY <4>1, Zenon
      <4> HIDE DEF whole
      <4>3. Body(whole)[j] = Step(whole[j - 1], j)
        BY <3>2, Zenon
      <4> QED
        BY <1>2, <3>2, <4>2, <4>3, Zenon
    <3> QED
      BY <3>1, <3>2
  <2>2. whole = [j \in 1 .. m |-> whole[j]]
    BY Zenon
  <2>3. Body(whole) = [j \in 1 .. m |-> Body(whole)[j]]
    <3> HIDE DEF Entry, whole
    <3> QED
      BY Zenon
  <2> HIDE DEF whole, Body
  <2> QED
    BY <2>1, <2>2, <2>3, Zenon
<1>5. joined = Body(joined)
  <2> HIDE DEF Body, whole
  <2> QED
    BY <1>4
<1> HIDE DEF joined
<1>6. \A j \in 1 .. m : joined[j] = IF j = 1 THEN tpath[1] ELSE Step(joined[j - 1], j)
  BY <1>5, Zenon
<1> HIDE DEF Body, Step, whole
<1> DEFINE T == {k \in 0 .. m : k = 0 \/ joined[k] = From(0, at[k + 1])}
<1>7. 0 \in T
  OBVIOUS
<1>8. ASSUME NEW k \in 1 .. m, k - 1 \in T PROVE k \in T
  <2>1. k \in 0 .. m
    OBVIOUS
  <2>2. CASE k = 1
    BY <1>3, <1>6, <2>1, <2>2
  <2>3. CASE k # 1
    <3>1. joined[k - 1] = From(0, at[(k - 1) + 1])
      BY <1>8, <2>3
    <3>2. joined[k] = Step(joined[k - 1], k)
      BY <1>6, <2>3
    <3>3. joined[k] = From(0, at[k + 1])
      BY <1>2, <2>3, <3>1, <3>2, Zenon
    <3> QED
      BY <2>1, <3>3
  <2> QED
    BY <2>2, <2>3
<1> HIDE DEF T
<1>9. \A k \in 0 .. m : k \in T
  BY <1>7, <1>8, InductionUpTo
<1>10. m \in 0 .. m /\ m # 0
  OBVIOUS
<1>11. joined[m] = From(0, at[m + 1])
  BY <1>9, <1>10 DEF T
<1> QED
  BY <1>1, <1>11

LEMMA DeliveredSized ==
  ASSUME ControlInv, RowsInv, TypeOK, NEW k \in 1 .. Len(Delivered)
  PROVE  Delivered[k].points \in Seq(Cells) /\ Len(Delivered[k].points) \in Nat
<1>1. /\ Len(job.trajs) \in Nat
      /\ \A i \in 1 .. Len(job.trajs) :
           job.trajs[i] \in [id : Nat, points : Seq(Cells), stamps : Nat]
      /\ job.places \in Seq(Cells) /\ Len(job.places) = Len(file)
  BY JobIs DEF ControlInv
<1>2. row \in 1 .. Len(job.trajs) + 1 /\ row \in Nat \ {0}
  BY <1>1 DEF RowsInv
<1>3. returned \in Seq([id : Nat, geom : Seq(Rows)]) /\ Len(returned) \in Nat
      /\ file \in Seq(Nat) /\ Len(file) \in Nat
  <2>1. returned \in Seq([id : Nat, geom : Seq(Rows)]) /\ file \in Seq(Nat)
    BY DEF TypeOK
  <2> DEFINE R == [id : Nat, geom : Seq(Rows)]
  <2>2. returned \in Seq(R)
    BY <2>1
  <2> HIDE DEF R
  <2>3. Len(returned) \in Nat
    BY <2>2
  <2> QED
    BY <2>1, <2>3
<1>4. CASE ByPoint
  <2>1. PointsDelivered(Delivered, returned, job)
    BY <1>3, <1>4, DeliveredIs
  <2>2. /\ k \in 1 .. Len(returned)
        /\ Delivered[k] = [id |-> returned[k].id, points |-> PointsOf(job.places, returned[k].geom)]
    BY <2>1 DEF PointsDelivered
  <2>3. returned[k] \in [id : Nat, geom : Seq(Rows)]
    <3>1. \A S : \A s \in Seq(S) : \A i \in 1 .. Len(s) : s[i] \in S
      OBVIOUS
    <3> QED
      BY <1>3, <2>2, <3>1, Zenon
  <2>4. PICK geom \in Seq(Rows) : geom = returned[k].geom
    BY <2>3
  <2>5. \A i \in 1 .. Len(geom) : job.places[geom[i]] \in Cells
    <3>1. \A i \in 1 .. Len(geom) : geom[i] \in 1 .. Len(file)
      BY DEF Rows
    <3> QED
      BY <1>1, <1>3, <3>1
  <2>6. PointsOf(job.places, geom) \in Seq(Cells) /\ Len(geom) \in Nat
    BY <2>5 DEF PointsOf
  <2>7. Delivered[k].points = PointsOf(job.places, geom)
    BY <2>2, <2>4
  <2> QED
    BY <2>6, <2>7
<1>5. CASE ~ ByPoint
  <2>1. RowsDelivered(Delivered, row, job)
    BY <1>2, <1>5, DeliveredIs
  <2>2. k \in 1 .. row - 1 /\ Delivered[k] = job.trajs[k]
    BY <2>1 DEF RowsDelivered
  <2>3. k \in 1 .. Len(job.trajs)
    BY <1>1, <1>2, <2>2
  <2>4. job.trajs[k] \in [id : Nat, points : Seq(Cells), stamps : Nat]
    BY <1>1, <2>3
  <2>5. Delivered[k].points \in Seq(Cells)
    BY <2>2, <2>4
  <2> QED
    BY <2>5
<1> QED
  BY <1>4, <1>5

\* What RowFitsHeader says of a line.
Fits(line, header, stamped) ==
  LET both(f, g) == Shown(line, f) /\ Shown(line, g)
      n == Len(Cell(line, "opath"))
      tpath == Cell(line, "tpath")
  IN
  /\ [c \in 1 .. Len(line) |-> line[c].of] = header
  /\ \A f \in {"error", "offset", "pgeom", "ep", "tp", "length"} :
       both("opath", f) => Len(Cell(line, f)) = n
  /\ both("opath", "spdist") => Len(Cell(line, "spdist")) = IF n = 0 THEN 0 ELSE n - 1
  /\ both("opath", "speed") /\ stamped =>
       \A i \in 1 .. Len(Cell(line, "speed")) : Cell(line, "speed")[i] \in 2 .. n
  /\ both("spdist", "speed") /\ stamped => Len(Cell(line, "speed")) <= Len(Cell(line, "spdist"))
  /\ both("cpath", "tpath") /\ tpath # <<>> => Joined(tpath) = Cell(line, "cpath")

LEMMA FitsAll ==
  ASSUME \A k \in 2 .. Len(output) : Fits(output[k], output[1], StampedByPoint)
  PROVE  RowFitsHeader
BY DEF RowFitsHeader, Fits, Joined

\* A result has no points, or all, and a complete path only with all.
LEMMA ResultIs ==
  ASSUME NEW id, NEW points, Len(points) \in Nat, NEW result \in ResultsOf(id, points)
  PROVE  /\ result.points \in {0, Len(points)} /\ result.edges \in Nat
         /\ result.edges > 0 =>
              /\ Len(points) > 0 /\ result.indices \in [1 .. Len(points) -> Nat]
              /\ Locates(result.indices, result.edges)
<1> DEFINE n == Len(points)
<1>1. MaxEdges \in Nat
  BY JobAssumption
<1>2. CASE n = 0
  <2>1. result = MatchResult(0, 0, 0, <<>>)
    BY <1>2 DEF ResultsOf
  <2> QED
    BY <2>1 DEF MatchResult
<1>3. CASE n # 0
  <2>1. result \in Matches(id, n) /\ (result.edges > 0 => Locates(result.indices, result.edges))
    BY <1>3 DEF ResultsOf
  <2>2. CASE \E edges \in 1 .. MaxEdges : \E indices \in [1 .. n -> 0 .. MaxEdges - 1] :
               result = MatchResult(id, n, edges, indices)
    <3>1. PICK edges \in 1 .. MaxEdges, indices \in [1 .. n -> 0 .. MaxEdges - 1] :
             result = MatchResult(id, n, edges, indices)
      BY <2>2
    <3>2. result.points = n /\ result.edges = edges /\ result.indices = indices
      BY <3>1 DEF MatchResult
    <3>3. indices \in [1 .. n -> Nat] /\ edges \in Nat
      BY <1>1
    <3> QED
      BY <1>3, <2>1, <3>2, <3>3
  <2>3. CASE result \in {MatchResult(0, 0, 0, <<>>), MatchResult(id, 0, 0, <<>>), MatchResult(id, n, 0, <<>>)}
    BY <2>3 DEF MatchResult
  <2> QED
    BY <2>1, <2>2, <2>3 DEF Matches
<1> QED
  BY <1>2, <1>3

LEMMA FromLength ==
  ASSUME NEW n \in Nat
  PROVE  /\ Len(From(1, n)) = n
         /\ Len(From(2, n)) = IF n = 0 THEN 0 ELSE n - 1
         /\ \A k \in 1 .. Len(From(2, n)) : From(2, n)[k] \in 2 .. n
<1>1. /\ Len(From(1, n)) = IF n < 1 THEN 0 ELSE n - 1 + 1
      /\ Len(From(2, n)) = IF n < 2 THEN 0 ELSE n - 2 + 1
      /\ \A k \in 1 .. n - 2 + 1 : From(2, n)[k] = 2 + k - 1
  <2>1. Len(From(1, n)) = IF n < 1 THEN 0 ELSE n - 1 + 1
    BY FromIs
  <2>2. Len(From(2, n)) = IF n < 2 THEN 0 ELSE n - 2 + 1
    <3>1. \A a \in Int : Len(From(a, n)) = IF n < a THEN 0 ELSE n - a + 1
      BY FromIs
    <3>2. 2 \in Int
      OBVIOUS
    <3> QED
      BY <3>1, <3>2, Zenon
  <2>3. \A k \in 1 .. n - 2 + 1 : From(2, n)[k] = 2 + k - 1
    BY FromIs
  <2> QED
    BY <2>1, <2>2, <2>3
<1>2. Len(From(1, n)) = n
  BY <1>1
<1>3. Len(From(2, n)) = IF n = 0 THEN 0 ELSE n - 1
  BY <1>1
<1>4. ASSUME NEW k \in 1 .. Len(From(2, n)) PROVE From(2, n)[k] \in 2 .. n
  <2>1. k \in 1 .. n - 2 + 1
    BY <1>3
  <2>2. From(2, n)[k] = 2 + k - 1
    BY <1>1, <2>1
  <2> QED
    BY <2>1, <2>2
<1> QED
  BY <1>2, <1>3, <1>4

\* The paths between the points of a result join to its complete path.
LEMMA TraversedJoins ==
  ASSUME NEW n \in Nat, n > 0, NEW result, result.edges \in Nat,
         result.edges > 0 => /\ result.indices \in [1 .. n -> Nat]
                             /\ Locates(result.indices, result.edges),
         TraversedPath(result) # <<>>
  PROVE  Joined(TraversedPath(result)) = From(0, result.edges - 1)
<1> DEFINE at == result.indices
           tpath == TraversedPath(result)
<1>1. result.edges # 0
  BY DEF TraversedPath
<1>2. at \in [1 .. n -> Nat] /\ Locates(at, result.edges)
  BY <1>1
<1> HIDE DEF at
<1>3. Len(at) = n
  BY <1>2
<1>4. /\ at[1] = 0 /\ at[n] = result.edges - 1
      /\ \A k \in 2 .. n : at[k - 1] <= at[k]
  BY <1>2, <1>3 DEF Locates
<1>5. tpath = [j \in 1 .. n - 1 |-> From(at[j], at[j + 1])]
  BY <1>1, <1>3 DEF TraversedPath, at
<1>6. n # 1
  <2> SUFFICES ASSUME n = 1 PROVE FALSE
    OBVIOUS
  <2>1. 1 .. n - 1 = {}
    OBVIOUS
  <2>2. tpath = <<>>
    BY <1>5, <2>1
  <2> QED
    BY <2>2
<1> HIDE DEF tpath
<1>7. PICK m \in Nat : m = n - 1 /\ m > 0 /\ n = m + 1
  BY <1>6
<1>8. \A j \in 1 .. m : tpath[j] = From(at[j], at[j + 1])
  BY <1>5, <1>7
<1>9. Len(tpath) = m
  <2>1. tpath = [j \in 1 .. m |-> tpath[j]]
    BY <1>5, <1>7, <1>8, Zenon
  <2> QED
    BY <2>1, LenIs
<1>10. \A j \in 1 .. m : at[j] <= at[j + 1]
  <2> TAKE j \in 1 .. m
  <2>1. j + 1 \in 2 .. n /\ (j + 1) - 1 = j
    BY <1>7
  <2>2. at[(j + 1) - 1] <= at[j + 1]
    BY <1>4, <2>1, Zenon
  <2> QED
    BY <2>1, <2>2
<1>11. at \in [1 .. m + 1 -> Nat] /\ at[1] = 0 /\ at[m + 1] = result.edges - 1
  BY <1>2, <1>4, <1>7
<1>12. Joined(tpath) = From(0, at[m + 1])
  BY <1>7, <1>8, <1>9, <1>10, <1>11, PathsJoin
<1> QED
  BY <1>11, <1>12 DEF tpath

LEMMA MatchFits ==
  ASSUME NEW fields, NEW stamps \in Nat, NEW id, NEW points, Len(points) \in Nat,
         NEW result \in ResultsOf(id, points), NEW stamped,
         stamped => stamps \in {0, Len(points)},
         NEW line, line = WriteResult(fields, stamps, result)
  PROVE  Fits(line, WriteHeader(fields), stamped)
<1>1. [c \in 1 .. Len(line) |-> line[c].of] = WriteHeader(fields)
  BY RowShape
<1>2. \A f : f # "id" /\ Shown(line, f) => Cell(line, f) = Entries(f, stamps, result)
  BY CellIs
<1>3. /\ result.points \in {0, Len(points)} /\ result.edges \in Nat
      /\ result.edges > 0 =>
           /\ Len(points) > 0 /\ result.indices \in [1 .. Len(points) -> Nat]
           /\ Locates(result.indices, result.edges)
  BY ResultIs
<1>4. PICK p \in Nat : p = result.points
  BY <1>3
<1>5. ASSUME NEW f \in {"opath", "error", "offset", "pgeom", "ep", "tp", "length"}, Shown(line, f)
      PROVE  Len(Cell(line, f)) = p
  <2>1. Entries(f, stamps, result) = From(1, p)
    BY <1>4 DEF Entries
  <2>2. f # "id" /\ Shown(line, f)
    BY <1>5
  <2>3. Cell(line, f) = From(1, p)
    BY <1>2, <2>1, <2>2, Zenon
  <2>4. Len(From(1, p)) = p
    BY FromLength
  <2> QED
    BY <2>3, <2>4, Zenon
<1>6. ASSUME Shown(line, "spdist") PROVE Len(Cell(line, "spdist")) = IF p = 0 THEN 0 ELSE p - 1
  <2>1. Entries("spdist", stamps, result) = From(2, p)
    BY <1>4 DEF Entries
  <2> QED
    BY <1>2, <1>6, <2>1, FromLength
<1>7. ASSUME Shown(line, "speed"), stamped
      PROVE  /\ \A i \in 1 .. Len(Cell(line, "speed")) : Cell(line, "speed")[i] \in 2 .. p
             /\ Len(Cell(line, "speed")) <= IF p = 0 THEN 0 ELSE p - 1
  <2>1. Cell(line, "speed") = IF p = 0 THEN <<>> ELSE From(2, stamps)
    BY <1>2, <1>4, <1>7 DEF Entries
  <2>2. CASE p = 0 \/ stamps = 0
    <3>1. Cell(line, "speed") = <<>> \/ Len(Cell(line, "speed")) = 0
      BY <2>1, <2>2, FromLength
    <3>2. Len(Cell(line, "speed")) = 0
      BY <3>1
    <3> QED
      BY <3>2
  <2>3. CASE p # 0 /\ stamps # 0
    <3>1. stamps = p
      BY <1>3, <1>4, <1>7, <2>3
    <3>2. Cell(line, "speed") = From(2, p)
      BY <2>1, <2>3, <3>1
    <3>3. /\ Len(From(2, p)) = IF p = 0 THEN 0 ELSE p - 1
          /\ \A k \in 1 .. Len(From(2, p)) : From(2, p)[k] \in 2 .. p
      BY FromLength
    <3>4. Len(From(2, p)) <= IF p = 0 THEN 0 ELSE p - 1
      BY <3>3
    <3> QED
      BY <3>2, <3>3, <3>4, Zenon
  <2> QED
    BY <2>2, <2>3
<1>8. ASSUME Shown(line, "cpath"), Shown(line, "tpath"), Cell(line, "tpath") # <<>>
      PROVE  Joined(Cell(line, "tpath")) = Cell(line, "cpath")
  <2>1. Cell(line, "tpath") = TraversedPath(result)
    BY <1>2, <1>8 DEF Entries
  <2>2. Cell(line, "cpath") = From(0, result.edges - 1)
    BY <1>2, <1>8 DEF Entries
  <2>3. result.edges # 0
    BY <1>8, <2>1 DEF TraversedPath
  <2>4. PICK n \in Nat : n = Len(points)
    OBVIOUS
  <2>5. /\ n > 0 /\ result.indices \in [1 .. n -> Nat]
        /\ Locates(result.indices, result.edges)
    BY <1>3, <2>3, <2>4
  <2>6. Joined(TraversedPath(result)) = From(0, result.edges - 1)
    BY <1>3, <1>8, <2>1, <2>5, TraversedJoins
  <2> QED
    BY <2>1, <2>2, <2>6
<1>9. ASSUME Shown(line, "opath") PROVE Len(Cell(line, "opath")) = p
  BY <1>5, <1>9
<1>10. ASSUME Shown(line, "spdist"), Shown(line, "speed"), stamped
       PROVE  Len(Cell(line, "speed")) <= Len(Cell(line, "spdist"))
  BY <1>6, <1>7, <1>10
<1> QED
  BY <1>1, <1>5, <1>6, <1>7, <1>8, <1>9, <1>10 DEF Fits

LEMMA HexFits ==
  ASSUME NEW write_geom, NEW id, NEW hexes, NEW line, line = H3WriteResult(write_geom, id, hexes),
         NEW stamped
  PROVE  Fits(line, H3WriteHeader(write_geom), stamped)
<1>1. /\ Len(line) \in 2 .. 3 /\ line[1].of = "id" /\ line[2].of = "hex"
      /\ \A k \in 3 .. Len(line) : line[k].of = "geom"
      /\ [c \in 1 .. Len(line) |-> line[c].of] = H3WriteHeader(write_geom)
  BY H3RowShape
<1>2. \A c \in 1 .. Len(line) : line[c].of \in {"id", "hex", "geom"}
  <2> TAKE c \in 1 .. Len(line)
  <2>1. c = 1 \/ c = 2 \/ c \in 3 .. Len(line)
    BY <1>1
  <2> QED
    BY <1>1, <2>1
<1>3. \A f \in {"opath", "spdist", "cpath"} : ~ Shown(line, f)
  BY <1>2 DEF Shown
<1> QED
  BY <1>1, <1>3 DEF Fits

(* A row has the columns of the header in its order, and the columns of a   *)
(* row fit together.                                                        *)
THEOREM RowsFit == JobSpec => []RowFitsHeader
<1>1. JobInv => RowFitsHeader
  <2> SUFFICES ASSUME ControlInv, RowsInv, OrderInv, OutputInv, TypeOK,
                      NEW k \in 2 .. Len(output)
               PROVE  Fits(output[k], output[1], StampedByPoint)
    BY FitsAll DEF JobInv, ReaderInv
  <2>1. CASE ~ opened /\ job.program # "ubodt_gen"
    <3>1. output = <<>>
      BY <2>1 DEF ControlInv
    <3> QED
      BY <3>1
  <2>2. CASE job.program = "ubodt_gen"
    <3>1. output \in {<<>>, <<UBODTHeader>>}
      BY <2>2 DEF OutputInv
    <3>2. \A x : Len(<<x>>) = 1
      OBVIOUS
    <3>3. output = <<>> \/ Len(output) = 1
      BY <3>1, <3>2, Zenon
    <3> QED
      BY <3>3
  <2>3. CASE opened /\ job.program # "ubodt_gen"
    <3>1. Written(output, MatchedOf(order, Delivered), Header, job, config)
      BY <2>3 DEF OutputInv
    <3>2. PICK S : output \in Seq(S)
      BY <3>1 DEF Written
    <3>3. k - 1 \in 1 .. Len(output) - 1 /\ (k - 1) + 1 = k
      BY <3>2
    <3> DEFINE traj == Delivered[order[k - 1]]
    <3>4. /\ output[1] = Header /\ order[k - 1] \in 1 .. Len(Delivered)
          /\ IsRow(output[k], traj.id, traj.points, job, config)
      <4>1. /\ output[1] = Header /\ order[k - 1] \in 1 .. Len(Delivered)
            /\ IsRow(output[(k - 1) + 1], traj.id, traj.points, job, config)
        BY <2>3, <3>3, RowsAre
      <4> QED
        BY <3>3, <4>1
    <3>5. CASE job.program = "h3mm"
      <4>1. output[k] = H3WriteResult(config.result.write_geom, traj.id,
                                      HexesOf(traj.points, config))
        BY <3>4, <3>5 DEF IsRow
      <4> QED
        BY <3>4, <3>5, <4>1, HexFits DEF Header
    <3>6. CASE job.program # "h3mm"
      <4>1. PICK stamps \in Nat, result \in ResultsOf(traj.id, traj.points) :
              /\ output[k] = WriteResult(config.result.fields, stamps, result)
              /\ Stamped(job) => stamps \in {0, Len(traj.points)}
        BY <3>4, <3>6 DEF IsRow
      <4>2. Len(traj.points) \in Nat
        BY <3>4, DeliveredSized
      <4>3. StampedByPoint => stamps \in {0, Len(traj.points)}
        BY <4>1 DEF StampedByPoint, Stamped
      <4>4. Fits(output[k], WriteHeader(config.result.fields), StampedByPoint)
        BY <4>1, <4>2, <4>3, MatchFits
      <4> QED
        BY <3>4, <3>6, <4>4 DEF Header
    <3> QED
      BY <3>5, <3>6
  <2> QED
    BY <2>1, <2>2, <2>3
<1> QED
  BY <1>1, JobInvariance, PTL

-----------------------------------------------------------------------------
Marks == Cells \cup {0}

\* What follows a hexagon in a row that the grid could draw.
Near(x, y, interpolate) ==
  x # y /\ (interpolate => <<x, y>> \in Adjacent \/ HexPath(x, y) = <<>>)

\* The hexagons that lead from one point to another.
Leads(added, prev_hex, hex, interpolate) ==
  /\ added \in Seq(Marks)
  /\ hex = prev_hex => added = <<>>
  /\ hex # prev_hex =>
       /\ Len(added) >= 1
       /\ ~ LineFails(added) =>
            /\ added[Len(added)] = hex
            /\ Near(prev_hex, added[1], interpolate)
            /\ \A k \in 2 .. Len(added) : Near(added[k - 1], added[k], interpolate)
       /\ ~ interpolate => added = <<hex>>

LEMMA Single ==
  ASSUME NEW S, NEW x \in S
  PROVE  <<x>> \in Seq(S) /\ Len(<<x>>) = 1 /\ <<x>>[1] = x
OBVIOUS

LEMMA OneLeads ==
  ASSUME NEW prev_hex \in Cells, NEW hex \in Cells, NEW interpolate, Near(prev_hex, hex, interpolate)
  PROVE  Leads(<<hex>>, prev_hex, hex, interpolate)
<1>1. <<hex>> \in Seq(Marks) /\ Len(<<hex>>) = 1 /\ <<hex>>[1] = hex
  BY Single DEF Marks
<1>2. 2 .. 1 = {} /\ 1 >= 1
  OBVIOUS
<1>3. hex # prev_hex
  BY DEF Near
<1> QED
  BY <1>1, <1>2, <1>3, Zenon DEF Leads

\* A line that starts at a cell and joins neighbours.
Drawn(line, prev_hex, hex) ==
  /\ line # <<>> => line[1] = prev_hex
  /\ line # <<>> /\ ~ LineFails(line) =>
       /\ line[Len(line)] = hex
       /\ \A k \in 2 .. Len(line) : <<line[k - 1], line[k]>> \in Adjacent

LEMMA GridDraws ==
  ASSUME NEW prev_hex \in Cells, NEW hex \in Cells
  PROVE  HexPath(prev_hex, hex) \in Seq(Marks) /\ Drawn(HexPath(prev_hex, hex), prev_hex, hex)
<1>1. PICK pair \in Cells \X Cells : pair = <<prev_hex, hex>>
  OBVIOUS
<1>2. pair[1] = prev_hex /\ pair[2] = hex /\ HexPath(prev_hex, hex) = H3Line[pair]
  BY <1>1 DEF HexPath
<1>3. PICK line : line = H3Line[pair]
  OBVIOUS
<1>4. line \in Seq(Marks)
  BY <1>1, <1>3, GridAssumption DEF Marks
<1>5. /\ line # <<>> => line[1] = pair[1]
      /\ line # <<>> /\ ~ LineFails(line) =>
           /\ line[Len(line)] = pair[2]
           /\ \A k \in 2 .. Len(line) : <<line[k - 1], line[k]>> \in Adjacent
  BY <1>1, <1>3, GridAssumption
<1>6. Drawn(line, prev_hex, hex)
  BY <1>2, <1>5 DEF Drawn
<1> QED
  BY <1>2, <1>3, <1>4, <1>6

LEMMA SeqBounds ==
  ASSUME NEW S, NEW s \in Seq(S)
  PROVE  /\ Len(s) \in Nat
         /\ s # <<>> => Len(s) >= 1
         /\ Len(s) >= 1 => s # <<>>
         /\ s # <<>> => /\ Tail(s) \in Seq(S) /\ Len(Tail(s)) = Len(s) - 1
                        /\ \A k \in 1 .. Len(s) - 1 : Tail(s)[k] = s[k + 1]
OBVIOUS

\* The line of the grid, without the cell it starts from.
LEMMA LineLeads ==
  ASSUME NEW prev_hex \in Cells, NEW hex \in Cells, hex # prev_hex,
         NEW line \in Seq(Marks), Drawn(line, prev_hex, hex), Len(line) > 1,
         NEW interpolate, interpolate
  PROVE  Leads(Tail(line), prev_hex, hex, interpolate)
<1>1. PICK m : m = Len(line) - 1
  OBVIOUS
<1>2. m \in Nat /\ Len(line) = m + 1 /\ m >= 1
  <2>1. Len(line) \in Nat
    BY SeqBounds
  <2> QED
    BY <1>1, <2>1
<1>3. line # <<>>
  <2>1. Len(line) >= 1
    BY <1>2
  <2> QED
    BY <2>1, SeqBounds
<1>4. PICK added : added = Tail(line)
  OBVIOUS
<1>5. /\ added \in Seq(Marks) /\ Len(added) = m
      /\ \A k \in 1 .. m : added[k] = line[k + 1]
  BY <1>1, <1>3, <1>4, SeqBounds, Zenon
<1>6. line[1] = prev_hex
  BY <1>3 DEF Drawn
<1>7. ASSUME ~ LineFails(added) PROVE ~ LineFails(line)
  <2> SUFFICES ASSUME NEW k \in 1 .. Len(line), line[k] = 0 PROVE FALSE
    BY Zenon DEF LineFails
  <2>1. k # 1
    BY <1>6, GridAssumption
  <2>2. k - 1 \in 1 .. m /\ (k - 1) + 1 = k
    BY <1>2, <2>1
  <2>3. added[k - 1] = line[(k - 1) + 1]
    BY <1>5, <2>2, Zenon
  <2>4. added[k - 1] = 0
    BY <2>2, <2>3
  <2>5. k - 1 \in 1 .. Len(added)
    BY <1>5, <2>2
  <2> QED
    BY <1>7, <2>4, <2>5, Zenon DEF LineFails
<1>8. ASSUME ~ LineFails(added)
      PROVE  /\ added[Len(added)] = hex
             /\ Near(prev_hex, added[1], interpolate)
             /\ \A k \in 2 .. Len(added) : Near(added[k - 1], added[k], interpolate)
  <2>1. /\ line[Len(line)] = hex
        /\ \A k \in 2 .. Len(line) : <<line[k - 1], line[k]>> \in Adjacent
    BY <1>3, <1>7, <1>8, Zenon DEF Drawn
  <2>2. ASSUME NEW x, NEW y, <<x, y>> \in Adjacent PROVE Near(x, y, interpolate)
    <3>1. x # y
      BY <2>2, GridAssumption
    <3> QED
      BY <2>2, <3>1, Zenon DEF Near
  <2>3. ASSUME NEW k \in 1 .. m PROVE Near(line[k], line[k + 1], interpolate)
    <3>1. k + 1 \in 2 .. Len(line) /\ (k + 1) - 1 = k
      BY <1>2
    <3>2. <<line[(k + 1) - 1], line[k + 1]>> \in Adjacent
      BY <2>1, <3>1, Zenon
    <3>3. <<line[k], line[k + 1]>> \in Adjacent
      BY <3>1, <3>2
    <3> QED
      BY <2>2, <3>3, Zenon
  <2>4. added[Len(added)] = hex
    <3>1. m \in 1 .. m
      BY <1>2
    <3>2. added[m] = line[m + 1]
      BY <1>5, <3>1, Zenon
    <3> QED
      BY <1>2, <1>5, <2>1, <3>2
  <2>5. Near(prev_hex, added[1], interpolate)
    <3>1. 1 \in 1 .. m
      BY <1>2
    <3>2. Near(line[1], line[1 + 1], interpolate) /\ added[1] = line[1 + 1]
      BY <1>5, <2>3, <3>1, Zenon
    <3> QED
      BY <1>6, <3>2, Zenon
  <2>6. ASSUME NEW k \in 2 .. Len(added) PROVE Near(added[k - 1], added[k], interpolate)
    <3>1. k \in 1 .. m /\ k - 1 \in 1 .. m /\ (k - 1) + 1 = k
      BY <1>2, <1>5
    <3>2. added[k - 1] = line[(k - 1) + 1] /\ added[k] = line[k + 1]
      BY <1>5, <3>1, Zenon
    <3>3. Near(line[k], line[k + 1], interpolate)
      BY <2>3, <3>1, Zenon
    <3>4. line[(k - 1) + 1] = line[k]
      BY <3>1
    <3> QED
      BY <3>2, <3>3, <3>4, Zenon
  <2> QED
    BY <2>4, <2>5, <2>6, Zenon
<1>9. Len(added) >= 1
  BY <1>2, <1>5
<1>10. Leads(added, prev_hex, hex, interpolate)
  BY <1>5, <1>8, <1>9, Zenon DEF Leads
<1> QED
  BY <1>4, <1>10, Zenon

\* A line that is too short to lead anywhere is none.
LEMMA NoLine ==
  ASSUME NEW prev_hex \in Cells, NEW hex \in Cells, hex # prev_hex,
         NEW line \in Seq(Marks), Drawn(line, prev_hex, hex), ~ (Len(line) > 1)
  PROVE  line = <<>>
<1> SUFFICES ASSUME line # <<>> PROVE FALSE
  OBVIOUS
<1>1. Len(line) \in Nat /\ Len(line) >= 1
  BY SeqBounds
<1>2. Len(line) = 1
  <2>1. \A n \in Nat : n >= 1 /\ ~ (n > 1) => n = 1
    OBVIOUS
  <2> QED
    BY <1>1, <2>1, Zenon
<1>3. line[1] = prev_hex
  BY DEF Drawn
<1>4. ~ LineFails(line)
  <2> SUFFICES ASSUME NEW k \in 1 .. Len(line), line[k] = 0 PROVE FALSE
    BY Zenon DEF LineFails
  <2>1. k = 1
    BY <1>2
  <2> QED
    BY <1>3, <2>1, GridAssumption
<1>5. line[Len(line)] = hex
  BY <1>4, Zenon DEF Drawn
<1> QED
  BY <1>2, <1>3, <1>5

LEMMA AddedLeads ==
  ASSUME NEW prev_hex \in Cells, NEW hex \in Cells, NEW interpolate
  PROVE  Leads(Added(prev_hex, hex, interpolate), prev_hex, hex, interpolate)
<1>1. CASE hex = prev_hex
  <2>1. Added(prev_hex, hex, interpolate) = <<>>
    BY <1>1 DEF Added
  <2>2. <<>> \in Seq(Marks)
    OBVIOUS
  <2> QED
    BY <1>1, <2>1, <2>2 DEF Leads
<1>2. CASE hex # prev_hex /\ ~ interpolate
  <2>1. Added(prev_hex, hex, interpolate) = <<hex>>
    BY <1>2 DEF Added
  <2>2. Near(prev_hex, hex, interpolate)
    BY <1>2 DEF Near
  <2> QED
    BY <2>1, <2>2, OneLeads
<1>3. CASE hex # prev_hex /\ interpolate
  <2>1. Added(prev_hex, hex, interpolate) = Interpolated(prev_hex, hex)
    BY <1>3 DEF Added
  <2>2. CASE <<prev_hex, hex>> \in Adjacent
    <3>1. Interpolated(prev_hex, hex) = <<hex>> /\ Near(prev_hex, hex, interpolate)
      BY <1>3, <2>2 DEF Interpolated, Near
    <3> QED
      BY <2>1, <3>1, OneLeads
  <2>3. CASE <<prev_hex, hex>> \notin Adjacent /\ Len(HexPath(prev_hex, hex)) > 1
    <3>1. Interpolated(prev_hex, hex) = Tail(HexPath(prev_hex, hex))
      BY <2>3 DEF Interpolated
    <3>2. Leads(Tail(HexPath(prev_hex, hex)), prev_hex, hex, interpolate)
      BY <1>3, <2>3, GridDraws, LineLeads, Zenon
    <3> QED
      BY <1>3, <2>1, <3>1, <3>2, Zenon
  <2>4. CASE <<prev_hex, hex>> \notin Adjacent /\ ~ (Len(HexPath(prev_hex, hex)) > 1)
    <3>1. Interpolated(prev_hex, hex) = <<hex>>
      BY <2>4 DEF Interpolated
    <3>2. HexPath(prev_hex, hex) = <<>>
      BY <1>3, <2>4, GridDraws, NoLine, Zenon
    <3>3. Near(prev_hex, hex, interpolate)
      BY <1>3, <3>2, Zenon DEF Near
    <3> QED
      BY <2>1, <3>1, <3>3, OneLeads
  <2> QED
    BY <2>2, <2>3, <2>4
<1> QED
  BY <1>1, <1>2, <1>3

Along(at, hexes, points, i) ==
  /\ \A j \in 1 .. i : hexes[at[j]] = points[j]
  /\ \A j \in 2 .. i : at[j - 1] <= at[j]
  /\ at[1] = 1 /\ at[i] = Len(hexes)

\* The hexagons of the first i points of a trajectory.
HexRun(hexes, points, i, interpolate) ==
  /\ hexes \in Seq(Marks) /\ Len(hexes) >= 1
  /\ ~ LineFails(hexes) =>
       /\ \E at \in [1 .. i -> 1 .. Len(hexes)] : Along(at, hexes, points, i)
       /\ \A k \in 2 .. Len(hexes) : Near(hexes[k - 1], hexes[k], interpolate)
  /\ ~ interpolate => \A k \in 1 .. Len(hexes) : \E j \in 1 .. i : points[j] = hexes[k]

LEMMA HexStart ==
  ASSUME NEW points, points[1] \in Cells, NEW interpolate
  PROVE  HexRun(<<points[1]>>, points, 1, interpolate)
<1>1. PICK hexes : hexes = <<points[1]>>
  OBVIOUS
<1>2. hexes \in Seq(Marks) /\ Len(hexes) = 1 /\ hexes[1] = points[1]
  BY <1>1, Single DEF Marks
<1>3. PICK at : at = [j \in 1 .. 1 |-> 1]
  OBVIOUS
<1>4. 1 .. 1 = {1} /\ 2 .. 1 = {} /\ 1 >= 1
  OBVIOUS
<1>5. at \in [1 .. 1 -> 1 .. 1] /\ at[1] = 1
  BY <1>3
<1>6. Along(at, hexes, points, 1)
  BY <1>2, <1>4, <1>5, Zenon DEF Along
<1>7. HexRun(hexes, points, 1, interpolate)
  BY <1>2, <1>4, <1>5, <1>6, Zenon DEF HexRun
<1> QED
  BY <1>1, <1>7, Zenon

LEMMA Concat ==
  ASSUME NEW S, NEW s \in Seq(S), NEW t \in Seq(S)
  PROVE  /\ s \o t \in Seq(S) /\ Len(s \o t) = Len(s) + Len(t)
         /\ \A k \in 1 .. Len(s) : (s \o t)[k] = s[k]
         /\ \A k \in 1 .. Len(t) : (s \o t)[Len(s) + k] = t[k]
OBVIOUS

\* The hexagons of one more point.
LEMMA HexGoesOn ==
  ASSUME NEW points, NEW i \in Nat \ {0}, NEW interpolate,
         NEW hexes, HexRun(hexes, points, i, interpolate),
         NEW added, Leads(added, points[i], points[i + 1], interpolate)
  PROVE  HexRun(hexes \o added, points, i + 1, interpolate)
<1>1. PICK n : n = Len(hexes)
  OBVIOUS
<1>2. PICK m : m = Len(added)
  OBVIOUS
<1>3. hexes \in Seq(Marks) /\ added \in Seq(Marks)
  BY Zenon DEF HexRun, Leads
<1>4. n \in Nat /\ n >= 1 /\ m \in Nat
  BY <1>1, <1>2, <1>3, SeqBounds DEF HexRun
<1>5. PICK h : h = hexes \o added
  OBVIOUS
<1>6. /\ h \in Seq(Marks) /\ Len(h) = n + m
      /\ \A k \in 1 .. n : h[k] = hexes[k]
      /\ \A k \in 1 .. m : h[n + k] = added[k]
  <2>1. /\ hexes \o added \in Seq(Marks) /\ Len(hexes \o added) = Len(hexes) + Len(added)
        /\ \A k \in 1 .. Len(hexes) : (hexes \o added)[k] = hexes[k]
        /\ \A k \in 1 .. Len(added) : (hexes \o added)[Len(hexes) + k] = added[k]
    BY <1>3, Concat
  <2> QED
    BY <1>1, <1>2, <1>5, <2>1
<1>7. points[i + 1] = points[i] => added = <<>>
  BY Zenon DEF Leads
<1>8. points[i + 1] = points[i] => m = 0
  BY <1>2, <1>7
<1>9. points[i + 1] # points[i] => m >= 1
  BY <1>2, Zenon DEF Leads
<1>10. ASSUME ~ LineFails(h)
       PROVE  /\ \E at \in [1 .. i + 1 -> 1 .. Len(h)] : Along(at, h, points, i + 1)
              /\ \A k \in 2 .. Len(h) : Near(h[k - 1], h[k], interpolate)
  <2>1. ~ LineFails(hexes) /\ ~ LineFails(added)
    <3>1. \A k \in 1 .. Len(hexes) : k \in 1 .. Len(h) /\ h[k] = hexes[k]
      BY <1>1, <1>4, <1>6
    <3>2. \A k \in 1 .. Len(added) : n + k \in 1 .. Len(h) /\ h[n + k] = added[k]
      BY <1>2, <1>4, <1>6
    <3> QED
      BY <1>10, <3>1, <3>2, Zenon DEF LineFails
  <2>2. /\ \E at \in [1 .. i -> 1 .. n] : Along(at, hexes, points, i)
        /\ \A k \in 2 .. n : Near(hexes[k - 1], hexes[k], interpolate)
    BY <1>1, <2>1, Zenon DEF HexRun
  <2>3. PICK at \in [1 .. i -> 1 .. n] : Along(at, hexes, points, i)
    BY <2>2
  <2>4. /\ \A j \in 1 .. i : hexes[at[j]] = points[j]
        /\ \A j \in 2 .. i : at[j - 1] <= at[j]
        /\ at[1] = 1 /\ at[i] = n
    BY <1>1, <2>3, Zenon DEF Along
  <2>5. i \in 1 .. i /\ 1 \in 1 .. i /\ n \in 1 .. n
    BY <1>4
  <2>6. hexes[n] = points[i]
    BY <2>4, <2>5
  <2>7. points[i + 1] # points[i] =>
          /\ added[m] = points[i + 1]
          /\ Near(points[i], added[1], interpolate)
          /\ \A k \in 2 .. m : Near(added[k - 1], added[k], interpolate)
    BY <1>2, <2>1, Zenon DEF Leads
  <2>8. h[n + m] = points[i + 1]
    <3>1. CASE points[i + 1] = points[i]
      <4>1. n + m = n
        BY <1>4, <1>8, <3>1
      <4> QED
        BY <1>6, <2>5, <2>6, <3>1, <4>1
    <3>2. CASE points[i + 1] # points[i]
      <4>1. m \in 1 .. m
        BY <1>4, <1>9, <3>2
      <4> QED
        BY <1>6, <2>7, <3>2, <4>1, Zenon
    <3> QED
      BY <3>1, <3>2
  <2>9. \E to \in [1 .. i + 1 -> 1 .. Len(h)] : Along(to, h, points, i + 1)
    <3>1. PICK to : to = [j \in 1 .. i + 1 |-> IF j = i + 1 THEN n + m ELSE at[j]]
      OBVIOUS
    <3>2. /\ \A j \in 1 .. i : to[j] = at[j] /\ at[j] \in 1 .. n
          /\ to[i + 1] = n + m
      <4>1. i + 1 \in 1 .. i + 1 /\ \A j \in 1 .. i : j \in 1 .. i + 1 /\ j # i + 1
        OBVIOUS
      <4>2. \A j \in 1 .. i : at[j] \in 1 .. n
        BY <2>3
      <4> QED
        BY <3>1, <4>1, <4>2, Zenon
    <3>3. \A j \in 1 .. i + 1 : j \in 1 .. i \/ j = i + 1
      OBVIOUS
    <3>4. n + m \in 1 .. n + m /\ \A k \in 1 .. n : k \in 1 .. n + m
      BY <1>4
    <3>5. to \in [1 .. i + 1 -> 1 .. n + m]
      <4>1. \A j \in 1 .. i + 1 : to[j] \in 1 .. n + m
        BY <3>2, <3>3, <3>4, Zenon
      <4>2. to = [j \in 1 .. i + 1 |-> to[j]]
        BY <3>1
      <4> QED
        BY <4>1, <4>2, Zenon
    <3>6. \A j \in 1 .. i + 1 : h[to[j]] = points[j]
      <4>1. \A j \in 1 .. i : h[to[j]] = points[j]
        <5> TAKE j \in 1 .. i
        <5>1. to[j] = at[j] /\ at[j] \in 1 .. n
          BY <3>2, Zenon
        <5>2. h[at[j]] = hexes[at[j]]
          BY <1>6, <5>1, Zenon
        <5>3. hexes[at[j]] = points[j]
          BY <2>4, Zenon
        <5> QED
          BY <5>1, <5>2, <5>3
      <4>2. h[to[i + 1]] = points[i + 1]
        BY <2>8, <3>2
      <4> QED
        BY <3>3, <4>1, <4>2, Zenon
    <3>7. \A j \in 2 .. i + 1 : to[j - 1] <= to[j]
      <4> TAKE j \in 2 .. i + 1
      <4>1. CASE j = i + 1
        <5>1. j - 1 = i
          BY <4>1
        <5>2. to[j - 1] = n /\ to[j] = n + m
          BY <2>4, <2>5, <3>2, <4>1, <5>1
        <5> QED
          BY <1>4, <5>2
      <4>2. CASE j # i + 1
        <5>1. j \in 1 .. i /\ j - 1 \in 1 .. i /\ j \in 2 .. i
          BY <4>2
        <5>2. to[j - 1] = at[j - 1] /\ to[j] = at[j] /\ at[j - 1] <= at[j]
          BY <2>4, <3>2, <5>1, Zenon
        <5> QED
          BY <5>2
      <4> QED
        BY <4>1, <4>2
    <3>8. to[1] = 1
      BY <2>4, <2>5, <3>2
    <3>9. to[i + 1] = Len(h)
      BY <1>6, <3>2
    <3>10. Along(to, h, points, i + 1)
      BY <3>6, <3>7, <3>8, <3>9, Zenon DEF Along
    <3> QED
      BY <1>6, <3>5, <3>10
  <2>10. ASSUME NEW k \in 2 .. Len(h) PROVE Near(h[k - 1], h[k], interpolate)
    <3>1. CASE k <= n
      <4>1. k \in 2 .. n /\ k \in 1 .. n /\ k - 1 \in 1 .. n
        BY <1>4, <1>6, <3>1
      <4>2. h[k - 1] = hexes[k - 1] /\ h[k] = hexes[k]
        BY <1>6, <4>1, Zenon
      <4> QED
        BY <2>2, <4>1, <4>2
    <3>2. CASE k = n + 1
      <4>1. m >= 1 /\ k - 1 = n /\ 1 \in 1 .. m
        BY <1>4, <1>6, <3>2
      <4>2. h[n] = points[i] /\ h[n + 1] = added[1]
        BY <1>6, <2>5, <2>6, <4>1
      <4>3. Near(points[i], added[1], interpolate)
        BY <1>4, <1>8, <2>7, <4>1
      <4> QED
        BY <3>2, <4>1, <4>2, <4>3
    <3>3. CASE k > n + 1
      <4>1. PICK l : l = k - n
        OBVIOUS
      <4>2. l \in 2 .. m /\ l \in 1 .. m /\ l - 1 \in 1 .. m /\ n + l = k /\ n + (l - 1) = k - 1
        BY <1>4, <1>6, <3>3, <4>1
      <4>3. h[n + l] = added[l] /\ h[n + (l - 1)] = added[l - 1]
        BY <1>6, <4>2, Zenon
      <4>4. m # 0
        BY <4>2
      <4>5. Near(added[l - 1], added[l], interpolate)
        BY <1>8, <2>7, <4>2, <4>4, Zenon
      <4> QED
        BY <4>2, <4>3, <4>5
    <3> QED
      BY <1>4, <1>6, <3>1, <3>2, <3>3
  <2> QED
    BY <2>9, <2>10
<1>11. ASSUME ~ interpolate, NEW k \in 1 .. Len(h)
       PROVE  \E j \in 1 .. i + 1 : points[j] = h[k]
  <2>1. CASE k <= n
    <3>1. k \in 1 .. n
      BY <1>4, <1>6, <2>1
    <3>2. PICK j \in 1 .. i : points[j] = hexes[k]
      BY <1>1, <1>11, <3>1, Zenon DEF HexRun
    <3>3. h[k] = hexes[k]
      BY <1>6, <3>1, Zenon
    <3>4. j \in 1 .. i + 1
      OBVIOUS
    <3> QED
      BY <3>2, <3>3, <3>4
  <2>2. CASE k > n
    <3>1. PICK l : l = k - n
      OBVIOUS
    <3>2. l \in 1 .. m /\ n + l = k
      BY <1>4, <1>6, <2>2, <3>1
    <3>3. h[n + l] = added[l]
      BY <1>6, <3>2, Zenon
    <3>4. m # 0
      BY <3>2
    <3>5. points[i + 1] # points[i]
      BY <1>8, <3>4
    <3>6. added = <<points[i + 1]>>
      BY <1>11, <3>5, Zenon DEF Leads
    <3>7. \A x : Len(<<x>>) = 1 /\ <<x>>[1] = x
      OBVIOUS
    <3>8. m = 1 /\ added[1] = points[i + 1]
      BY <1>2, <3>6, <3>7, Zenon
    <3>9. l = 1
      BY <3>2, <3>8
    <3>10. i + 1 \in 1 .. i + 1
      OBVIOUS
    <3> QED
      BY <3>2, <3>3, <3>8, <3>9, <3>10
  <2> QED
    BY <1>4, <1>6, <2>1, <2>2
<1>12. Len(h) >= 1
  BY <1>4, <1>6
<1>13. HexRun(h, points, i + 1, interpolate)
  BY <1>6, <1>10, <1>11, <1>12, Zenon DEF HexRun
<1> QED
  BY <1>5, <1>13, Zenon

LEMMA MatchHexesRuns ==
  ASSUME NEW points \in Seq(Cells), NEW interpolate
  PROVE  /\ points = <<>> => MatchHexes(points, interpolate) = <<>>
         /\ points # <<>> =>
              HexRun(MatchHexes(points, interpolate), points, Len(points), interpolate)
<1> DEFINE n == Len(points)
           More(x, k) == IF k = 1 THEN <<points[1]>>
                         ELSE x \o Added(points[k - 1], points[k], interpolate)
           Body(f) == [i \in 0 .. n |->
                         CASE i = 0 -> <<>>
                           [] i = 1 -> <<points[1]>>
                           [] OTHER -> f[i - 1] \o Added(points[i - 1], points[i], interpolate)]
           hexs == CHOOSE f : f = Body(f)
           step == [k \in 1 .. n |-> [x \in Seq(Marks) |-> More(x, k)]]
<1>1. n \in Nat /\ <<>> \in Seq(Marks) /\ \A k \in 1 .. n : points[k] \in Cells
  OBVIOUS
<1>2. MatchHexes(points, interpolate) = hexs[n]
  BY DEF MatchHexes
<1>3. ASSUME NEW k \in 1 .. n, k # 1
      PROVE  /\ k - 1 \in 1 .. n /\ (k - 1) + 1 = k /\ k - 1 \in Nat \ {0}
             /\ Leads(Added(points[k - 1], points[k], interpolate), points[k - 1], points[k], interpolate)
  <2>1. k - 1 \in 1 .. n /\ (k - 1) + 1 = k /\ k - 1 \in Nat \ {0}
    BY <1>1, <1>3
  <2>2. points[k - 1] \in Cells /\ points[k] \in Cells
    BY <1>1, <2>1
  <2> QED
    BY <2>1, <2>2, AddedLeads, Zenon
<1>4. ASSUME NEW k \in 1 .. n, NEW x \in Seq(Marks) PROVE More(x, k) \in Seq(Marks)
  <2>1. CASE k = 1
    <3>1. points[1] \in Marks
      BY <1>1, <2>1 DEF Marks
    <3> QED
      BY <2>1, <3>1, Single
  <2>2. CASE k # 1
    <3>1. Added(points[k - 1], points[k], interpolate) \in Seq(Marks)
      BY <1>3, <2>2, Zenon DEF Leads
    <3> QED
      BY <2>2, <3>1, Concat
  <2> QED
    BY <2>1, <2>2
<1>5. StepsWithin(n, Seq(Marks), step)
  <2>1. \A k \in 1 .. n : [x \in Seq(Marks) |-> More(x, k)] \in [Seq(Marks) -> Seq(Marks)]
    <3> HIDE DEF More
    <3> QED
      BY <1>4
  <2> HIDE DEF More
  <2> QED
    BY <2>1 DEF StepsWithin
<1>6. \A k \in 1 .. n : \A x \in Seq(Marks) : step[k][x] = More(x, k)
  <2> HIDE DEF More
  <2> QED
    OBVIOUS
<1>7. \A f : \A k \in 1 .. n : Body(f)[k] = More(f[k - 1], k)
  <2> TAKE f
  <2> TAKE k \in 1 .. n
  <2>1. k \in 0 .. n /\ k # 0
    BY <1>1
  <2>2. CASE k = 1
    BY <2>1, <2>2, Zenon
  <2>3. CASE k # 1
    BY <2>1, <2>3, Zenon
  <2> QED
    BY <2>2, <2>3
<1>8. \A f : Body(f)[0] = <<>> /\ Body(f) = [k \in 0 .. n |-> Body(f)[k]]
  <2>1. 0 \in 0 .. n
    BY <1>1
  <2> QED
    BY <2>1
<1> HIDE DEF step, n, Body, More
<1>9. PICK f : Recurs(f, n, Seq(Marks), <<>>, step)
  BY <1>1, <1>5, RecursionExists
<1>10. f = Body(f)
  <2>1. f \in [0 .. n -> Seq(Marks)] /\ f[0] = <<>>
    BY <1>9 DEF Recurs
  <2>2. ASSUME NEW k \in 1 .. n PROVE f[k] = More(f[k - 1], k)
    <3>1. k - 1 \in 0 .. n
      BY <1>1
    <3>2. f[k - 1] \in Seq(Marks)
      BY <2>1, <3>1
    <3>3. f[k] = step[k][f[k - 1]]
      BY <1>9 DEF Recurs
    <3> QED
      BY <1>6, <3>2, <3>3
  <2>3. ASSUME NEW k \in 0 .. n PROVE f[k] = Body(f)[k]
    <3>1. k = 0 \/ k \in 1 .. n
      BY <1>1
    <3> QED
      BY <1>7, <1>8, <2>1, <2>2, <3>1, Zenon
  <2>4. f = [k \in 0 .. n |-> f[k]]
    BY <2>1
  <2>5. Body(f) = [k \in 0 .. n |-> Body(f)[k]]
    BY <1>8, Zenon
  <2> QED
    BY <2>3, <2>4, <2>5, Zenon
<1>11. hexs = Body(hexs)
  BY <1>10, Zenon
<1> HIDE DEF hexs
<1>12. /\ hexs = [k \in 0 .. n |-> hexs[k]] /\ hexs[0] = <<>>
       /\ \A k \in 1 .. n : hexs[k] = More(hexs[k - 1], k)
  BY <1>7, <1>8, <1>11, Zenon
<1>13. Recurs(hexs, n, Seq(Marks), <<>>, step)
  <2>1. \A k \in 1 .. n : hexs[k - 1] \in Seq(Marks) => hexs[k] = step[k][hexs[k - 1]]
    BY <1>6, <1>12
  <2> QED
    BY <1>1, <1>5, <1>12, <2>1, RecursionTyped
<1> DEFINE T == {k \in 0 .. n : k = 0 \/ HexRun(hexs[k], points, k, interpolate)}
<1>14. 0 \in T
  BY <1>1
<1>15. ASSUME NEW k \in 1 .. n, k - 1 \in T PROVE k \in T
  <2>1. k \in 0 .. n /\ hexs[k] = More(hexs[k - 1], k)
    <3>1. k \in 0 .. n
      BY <1>1
    <3>2. hexs[k] = More(hexs[k - 1], k)
      BY <1>12, Zenon
    <3> QED
      BY <3>1, <3>2
  <2>2. CASE k = 1
    <3>1. hexs[k] = <<points[1]>>
      BY <2>1, <2>2, Zenon DEF More
    <3>2. points[1] \in Cells
      BY <1>1, <2>2
    <3>3. HexRun(hexs[k], points, k, interpolate)
      BY <2>2, <3>1, <3>2, HexStart
    <3> QED
      BY <2>1, <3>3
  <2>3. CASE k # 1
    <3>1. PICK i : i = k - 1
      OBVIOUS
    <3>2. i \in 1 .. n /\ i + 1 = k /\ i \in Nat \ {0} /\ i # 0
      BY <1>3, <2>3, <3>1
    <3>3. Leads(Added(points[i], points[i + 1], interpolate), points[i], points[i + 1], interpolate)
      BY <1>3, <2>3, <3>1, <3>2
    <3>4. HexRun(hexs[i], points, i, interpolate)
      BY <1>15, <3>1, <3>2
    <3>5. hexs[k] = hexs[i] \o Added(points[i], points[i + 1], interpolate)
      BY <2>1, <2>3, <3>1, <3>2 DEF More
    <3>6. HexRun(hexs[i] \o Added(points[i], points[i + 1], interpolate), points, i + 1, interpolate)
      BY <3>2, <3>3, <3>4, HexGoesOn, Zenon
    <3>7. HexRun(hexs[k], points, k, interpolate)
      BY <3>2, <3>5, <3>6
    <3> QED
      BY <2>1, <3>7
  <2> QED
    BY <2>2, <2>3
<1> HIDE DEF T
<1>16. \A k \in 0 .. n : k \in T
  BY <1>1, <1>14, <1>15, InductionUpTo
<1>17. n = 0 \/ HexRun(hexs[n], points, n, interpolate)
  <2>1. n \in 0 .. n
    BY <1>1
  <2> QED
    BY <1>16, <2>1 DEF T
<1>18. points = <<>> => n = 0
  BY DEF n
<1>19. points # <<>> => n # 0
  BY DEF n
<1>20. n = 0 => hexs[n] = <<>>
  BY <1>12
<1> QED
  BY <1>2, <1>17, <1>18, <1>19, <1>20, Zenon DEF n

\* What HexesJoin says of the hexagons of a trajectory.
Joins(hexs, points, interpolate) ==
  /\ points = <<>> <=> hexs = <<>>
  /\ points # <<>> /\ ~ LineFails(hexs) =>
       /\ Passes(hexs, points)
       /\ \A i \in 2 .. Len(hexs) :
            /\ hexs[i] # hexs[i - 1]
            /\ interpolate => <<hexs[i - 1], hexs[i]>> \in Adjacent \/ HexPath(hexs[i - 1], hexs[i]) = <<>>
            /\ ~ interpolate => \E j \in 1 .. Len(points) : points[j] = hexs[i]

LEMMA JoinsAll ==
  ASSUME job.program = "h3mm" =>
           \A k \in 1 .. RowsWritten :
             Joins(Cell(output[k + 1], "hex"), Delivered[order[k]].points, config.params.interpolate)
  PROVE  HexesJoin
BY DEF HexesJoin, Joins

LEMMA RunsJoin ==
  ASSUME NEW points \in Seq(Cells), NEW interpolate
  PROVE  Joins(MatchHexes(points, interpolate), points, interpolate)
<1>1. PICK hexs : hexs = MatchHexes(points, interpolate)
  OBVIOUS
<1>2. /\ points = <<>> => hexs = <<>>
      /\ points # <<>> => HexRun(hexs, points, Len(points), interpolate)
  BY <1>1, MatchHexesRuns, Zenon
<1>3. CASE points = <<>>
  BY <1>1, <1>2, <1>3, Zenon DEF Joins
<1>4. CASE points # <<>>
  <2>1. HexRun(hexs, points, Len(points), interpolate)
    BY <1>2, <1>4
  <2>2. hexs # <<>>
    BY <2>1, SeqBounds DEF HexRun
  <2>3. ASSUME ~ LineFails(hexs)
        PROVE  /\ Passes(hexs, points)
               /\ \A i \in 2 .. Len(hexs) : Near(hexs[i - 1], hexs[i], interpolate)
    <3>1. /\ \E at \in [1 .. Len(points) -> 1 .. Len(hexs)] : Along(at, hexs, points, Len(points))
          /\ \A i \in 2 .. Len(hexs) : Near(hexs[i - 1], hexs[i], interpolate)
      BY <2>1, <2>3, Zenon DEF HexRun
    <3>2. Passes(hexs, points)
      BY <3>1, Zenon DEF Passes, Along
    <3> QED
      BY <3>1, <3>2
  <2>4. ASSUME ~ interpolate, NEW i \in 2 .. Len(hexs)
        PROVE  \E j \in 1 .. Len(points) : points[j] = hexs[i]
    <3>1. i \in 1 .. Len(hexs)
      OBVIOUS
    <3> QED
      BY <2>1, <2>4, <3>1, Zenon DEF HexRun
  <2>5. Joins(hexs, points, interpolate)
    BY <1>4, <2>2, <2>3, <2>4, Zenon DEF Joins, Near
  <2> QED
    BY <1>1, <2>5, Zenon
<1> QED
  BY <1>3, <1>4

LEMMA HexCell ==
  ASSUME NEW write_geom, NEW id, NEW hexes, NEW line, line = H3WriteResult(write_geom, id, hexes)
  PROVE  Cell(line, "hex") = hexes
<1>1. /\ Len(line) \in 2 .. 3 /\ line[1].of = "id" /\ line[2].of = "hex" /\ line[2].at = hexes
      /\ \A k \in 3 .. Len(line) : line[k].of = "geom"
  BY H3RowShape
<1>2. \A c \in 1 .. Len(line) : line[c].of = "hex" => c = 2
  <2> TAKE c \in 1 .. Len(line)
  <2>1. c = 1 \/ c = 2 \/ c \in 3 .. Len(line)
    BY <1>1
  <2> QED
    BY <1>1, <2>1
<1>3. 2 \in 1 .. Len(line)
  BY <1>1
<1>4. (CHOOSE c \in 1 .. Len(line) : line[c].of = "hex") = 2
  BY <1>1, <1>2, <1>3, Zenon
<1> QED
  BY <1>1, <1>4 DEF Cell

(* The hexagons h3mm writes start at the first point, pass the points in    *)
(* their order and end at the last, one beside the other.                   *)
THEOREM HexagonsJoin == JobSpec => []HexesJoin
<1>1. JobInv => HexesJoin
  <2> SUFFICES ASSUME ControlInv, AcceptedInv, RowsInv, OrderInv, OutputInv, TypeOK,
                      job.program = "h3mm", NEW k \in 1 .. RowsWritten
               PROVE  Joins(Cell(output[k + 1], "hex"), Delivered[order[k]].points,
                            config.params.interpolate)
    BY JoinsAll DEF JobInv, ReaderInv
  <2>1. CASE ~ opened
    <3>1. output = <<>> /\ Len(<<>>) = 0
      BY <2>1 DEF ControlInv
    <3>2. k \in 1 .. 0 - 1
      BY <3>1 DEF RowsWritten
    <3> QED
      BY <3>2
  <2>2. CASE opened
    <3> DEFINE points == Delivered[order[k]].points
    <3>1. order[k] \in 1 .. Len(Delivered)
      BY <2>2, RowsAre DEF RowsWritten
    <3>2. IsRow(output[k + 1], Delivered[order[k]].id, points, job, config)
      BY <2>2, RowsAre DEF RowsWritten
    <3>3. output[k + 1] = H3WriteResult(config.result.write_geom, Delivered[order[k]].id,
                                        HexesOf(points, config))
      BY <3>2 DEF IsRow
    <3>4. H3MMValid(config.params)
      <4>1. Accepted
        BY <2>2 DEF AcceptedInv
      <4> QED
        BY <4>1 DEF Accepted, MatchGpsFileValid, AppValid, H3MMAppValid
    <3>5. Cell(output[k + 1], "hex") = MatchHexes(points, config.params.interpolate)
      <4>1. Cell(output[k + 1], "hex") = HexesOf(points, config)
        BY <3>3, HexCell
      <4> QED
        BY <3>4, <4>1 DEF HexesOf
    <3>6. points \in Seq(Cells)
      BY <3>1, DeliveredSized
    <3> QED
      BY <3>5, <3>6, RunsJoin, Zenon
  <2> QED
    BY <2>1, <2>2 DEF ControlInv
<1> QED
  BY <1>1, JobInvariance, PTL
=============================================================================
