-------------------------- MODULE Matchers_proofs --------------------------
(***************************************************************************)
(* The two matchers and the transition graph they share: a most likely     *)
(* path for every trajectory, agreement of match_traj of FMM with itself,  *)
(* and of match_traj of STMATCH with the composite graph it searches, on   *)
(* every network and trajectory.                                           *)
(***************************************************************************)
EXTENDS StMatch, RoadGraph_proofs

-----------------------------------------------------------------------------
(***************************************************************************)
(* TransitionGraph: the forward pass and backtrack compute a most likely   *)
(* path for every trajectory, whatever the transition probabilities the    *)
(* caller gives.                                                           *)
(***************************************************************************)

(* Costs are ordered by likelihood, Impossible last, and addition keeps    *)
(* the order.                                                              *)
LEMMA PlusIsCost ==
  ASSUME NEW a \in Cost, NEW b \in Cost
  PROVE  Plus(a, b) \in Cost
BY DEF Plus, Cost, Impossible

LEMMA PlusMonotone ==
  ASSUME NEW a \in Cost, NEW b \in Cost, NEW c \in Cost, ~ Likelier(a, b)
  PROVE  ~ Likelier(Plus(a, c), Plus(b, c))
BY DEF Plus, Cost, Impossible, Likelier

LEMMA LikelierOrder ==
  ASSUME NEW a \in Cost, NEW b \in Cost, NEW c \in Cost
  PROVE  /\ ~ Likelier(a, a)
         /\ ~ Likelier(a, b) /\ ~ Likelier(b, c) => ~ Likelier(a, c)
         /\ ~ Likelier(a, b) /\ ~ Likelier(b, a) => a = b
         /\ Likelier(a, b) => ~ Likelier(b, a)
BY DEF Cost, Impossible, Likelier

(* Among finitely many costs one is not beaten. *)
LEMMA SomeLikeliest ==
  ASSUME NEW k \in Nat \ {0}, NEW f \in [1 .. k -> Cost]
  PROVE  \E a \in 1 .. k : \A other \in 1 .. k : ~ Likelier(f[other], f[a])
<1> DEFINE T == {f[a] : a \in {x \in 1 .. k : f[x] # Impossible}}
<1>1. CASE T = {}
  <2>1. \A a \in 1 .. k : f[a] = Impossible
    BY <1>1
  <2> QED
    BY <2>1 DEF Likelier
<1>2. CASE T # {}
  <2>1. T \in SUBSET Nat
    BY DEF Cost
  <2>2. PICK m \in T : \A n \in T : m <= n
    BY <1>2, <2>1, LeastElement
  <2>3. PICK a \in 1 .. k : f[a] = m /\ f[a] # Impossible
    OBVIOUS
  <2>4. ASSUME NEW other \in 1 .. k PROVE ~ Likelier(f[other], f[a])
    <3>1. CASE f[other] = Impossible
      BY <3>1 DEF Likelier
    <3>2. CASE f[other] # Impossible
      <4>1. f[other] \in T
        BY <3>2
      <4>2. m <= f[other] /\ m \in Nat /\ f[other] \in Nat
        BY <2>1, <2>2, <4>1
      <4> QED
        BY <2>3, <4>2 DEF Likelier, Impossible
    <3> QED
      BY <3>1, <3>2
  <2> QED
    BY <2>4
<1> QED
  BY <1>1, <1>2

(* The last of them, which the forward pass keeps. *)
LEMMA LastLikeliest ==
  ASSUME NEW k \in Nat \ {0}, NEW f \in [1 .. k -> Cost]
  PROVE  \E a \in 1 .. k :
           /\ \A other \in 1 .. k : ~ Likelier(f[other], f[a])
           /\ \A other \in 1 .. k : other > a => Likelier(f[a], f[other])
<1>1. PICK best \in 1 .. k : \A other \in 1 .. k : ~ Likelier(f[other], f[best])
  BY SomeLikeliest
<1> DEFINE T == {k - a : a \in {x \in 1 .. k : f[x] = f[best]}}
<1>2. T \in SUBSET Nat /\ T # {}
  OBVIOUS
<1>3. PICK m \in T : \A n \in T : m <= n
  BY <1>2, LeastElement
<1>4. PICK a \in 1 .. k : f[a] = f[best] /\ m = k - a
  OBVIOUS
<1>5. ASSUME NEW other \in 1 .. k, other > a PROVE Likelier(f[a], f[other])
  <2>1. f[other] # f[best]
    <3>1. CASE f[other] = f[best]
      <4>1. k - other \in T
        BY <3>1
      <4>2. m <= k - other
        BY <1>3, <4>1
      <4> QED
        BY <1>4, <1>5, <4>2
    <3> QED
      BY <3>1
  <2>2. ~ Likelier(f[other], f[a])
    BY <1>1, <1>4
  <2> QED
    BY <1>4, <2>1, <2>2, LikelierOrder
<1> QED
  BY <1>1, <1>4, <1>5

(* The first of them, which backtrack starts from. *)
LEMMA FirstLikeliest ==
  ASSUME NEW k \in Nat \ {0}, NEW f \in [1 .. k -> Cost]
  PROVE  \E a \in 1 .. k :
           /\ \A other \in 1 .. k : ~ Likelier(f[other], f[a])
           /\ \A other \in 1 .. k : other < a => Likelier(f[a], f[other])
<1>1. PICK best \in 1 .. k : \A other \in 1 .. k : ~ Likelier(f[other], f[best])
  BY SomeLikeliest
<1> DEFINE T == {x \in 1 .. k : f[x] = f[best]}
<1>2. T \in SUBSET Nat /\ T # {}
  OBVIOUS
<1>3. PICK a \in T : \A n \in T : a <= n
  BY <1>2, LeastElement
<1>4. ASSUME NEW other \in 1 .. k, other < a PROVE Likelier(f[a], f[other])
  <2>1. f[other] # f[a]
    BY <1>3, <1>4
  <2>2. ~ Likelier(f[other], f[a])
    BY <1>1
  <2> QED
    BY <2>1, <2>2, LikelierOrder
<1> QED
  BY <1>1, <1>3, <1>4

-----------------------------------------------------------------------------
(* Layers, sizes and the costs of a step of the forward pass. *)
LEMMA LayerSize ==
  ASSUME TGTypeOK, NEW i \in 1 .. N
  PROVE  /\ Len(ep[i]) \in Nat \ {0}
         /\ ep[i] \in [Layer(i) -> Cost]
<1>1. ep \in Seq(Seq(Cost)) /\ i \in 1 .. Len(ep)
  BY DEF TGTypeOK, N
<1>2. ep[i] \in Seq(Cost)
  BY <1>1
<1>3. ep[i] # <<>>
  BY DEF TGTypeOK
<1> QED
  BY <1>2, <1>3 DEF Layer

LEMMA MatrixIsCost ==
  ASSUME NEW i, NEW tp \in Matrix(i)
  PROVE  tp \in Transitions(i)
BY TransitionAssumption DEF Matrix, Transitions

LEMMA TempIsCost ==
  ASSUME TGTypeOK, level < N, NEW tp \in Transitions(level),
         NEW a \in Layer(level), NEW b \in Layer(level + 1)
  PROVE  Temp(tp, a, b) \in Cost
<1>1. level \in 1 .. N /\ level + 1 \in 1 .. N
  BY DEF TGTypeOK, N
<1>2. cumu_prob[level][a] \in Cost
  BY <1>1 DEF TGTypeOK
<1>3. tp[a][b] \in Cost
  BY DEF Transitions
<1>4. ep[level + 1][b] \in Cost
  BY <1>1, LayerSize
<1> QED
  BY <1>2, <1>3, <1>4, PlusIsCost DEF Temp

LEMMA ChosenExists ==
  ASSUME TGTypeOK, level < N, NEW tp \in Transitions(level), NEW b \in Layer(level + 1)
  PROVE  /\ Chosen(tp, b) \in Layer(level)
         /\ \A a \in Layer(level) :
              ~ Likelier(Temp(tp, a, b), Temp(tp, Chosen(tp, b), b))
<1> DEFINE k == Len(ep[level])
           f == [a \in 1 .. k |-> Temp(tp, a, b)]
<1>1. level \in 1 .. N
  BY DEF TGTypeOK, N
<1>2. k \in Nat \ {0} /\ Layer(level) = 1 .. k
  BY <1>1, LayerSize DEF Layer
<1>3. f \in [1 .. k -> Cost]
  BY <1>2, TempIsCost
<1> HIDE DEF k
<1>4. \E a \in 1 .. k :
        /\ \A other \in 1 .. k : ~ Likelier(f[other], f[a])
        /\ \A other \in 1 .. k : other > a => Likelier(f[a], f[other])
  BY <1>2, <1>3, LastLikeliest
<1>5. \E a \in Layer(level) : IsChosen(tp, a, b)
  BY <1>2, <1>4 DEF IsChosen
<1> QED
  BY <1>5 DEF Chosen, IsChosen

-----------------------------------------------------------------------------
(* The forward pass: one layer more is settled. *)
LEMMA ForwardStep ==
  ASSUME TGIInv, pc # "start", level < N, NEW tp \in Transitions(level), RunLayer(tp)
  PROVE  TGIInv'
<1> USE DEF TGIInv
<1>1. /\ level \in 1 .. N /\ level + 1 \in 1 .. N
      /\ level' = level + 1 /\ ep' = ep /\ pc' = pc /\ pc = "update"
      /\ opath' = opath /\ N \in Nat
      /\ tps' = [i \in 1 .. level |-> IF i = level THEN tp ELSE tps[i]]
  BY DEF TGTypeOK, N, RunLayer
<1> DEFINE reached == [b \in Layer(level + 1) |-> Temp(tp, Chosen(tp, b), b)]
           chosen == [b \in Layer(level + 1) |-> Chosen(tp, b)]
<1>2. /\ cumu_prob' = [cumu_prob EXCEPT ![level + 1] = reached]
      /\ prev' = [prev EXCEPT ![level + 1] = chosen]
      /\ connected' = (\E b \in Layer(level + 1) : reached[b] # Impossible)
  BY DEF RunLayer
<1>3. \A b \in Layer(level + 1) :
        /\ Chosen(tp, b) \in Layer(level)
        /\ reached[b] \in Cost
        /\ \A a \in Layer(level) : ~ Likelier(Temp(tp, a, b), reached[b])
  BY <1>1, ChosenExists, TempIsCost
<1> HIDE DEF reached, chosen
<1>4. /\ DOMAIN cumu_prob' = 1 .. N /\ DOMAIN prev' = 1 .. N
      /\ cumu_prob'[level + 1] = reached /\ prev'[level + 1] = chosen
      /\ \A i \in 1 .. N : i # level + 1 =>
           cumu_prob'[i] = cumu_prob[i] /\ prev'[i] = prev[i]
  BY <1>1, <1>2 DEF TGTypeOK
<1>5. tp \in Transitions(level)
  OBVIOUS
<1>6. /\ DOMAIN tps' = 1 .. level /\ tps'[level] = tp
      /\ \A i \in 1 .. level - 1 : tps'[i] = tps[i]
  BY <1>1
<1>7. N' = N /\ \A i : Layer(i)' = Layer(i) /\ Transitions(i)' = Transitions(i)
  BY <1>1 DEF N, Layer, Transitions
<1>8. TGTypeOK'
  <2>1. \A i \in 1 .. N : cumu_prob'[i] \in [Layer(i) -> Cost]
    BY <1>3, <1>4 DEF TGTypeOK, reached
  <2>2. \A i \in 1 .. N : prev'[i] \in [Layer(i) -> Nat]
    <3>1. \A b \in Layer(level + 1) : Chosen(tp, b) \in Nat
      BY <1>3 DEF Layer
    <3>2. chosen \in [Layer(level + 1) -> Nat]
      BY <3>1 DEF chosen
    <3>3. \A i \in 1 .. N : prev[i] \in [Layer(i) -> Nat]
      BY DEF TGTypeOK
    <3> QED
      BY <1>4, <3>2, <3>3
  <2>3. connected' \in BOOLEAN
    BY <1>2
  <2>4. \A i \in 1 .. level' - 1 : tps'[i] \in Transitions(i)
    BY <1>1, <1>5, <1>6 DEF TGTypeOK
  <2> QED
    BY <1>1, <1>4, <1>6, <1>7, <2>1, <2>2, <2>3, <2>4 DEF TGTypeOK, N
<1>9. Settled'
  <2> SUFFICES ASSUME NEW i \in 1 .. level, NEW b \in Layer(i + 1)
               PROVE  /\ prev'[i + 1][b] \in Layer(i)
                      /\ cumu_prob'[i + 1][b] = By(i, prev[i + 1][b], b)'
                      /\ \A a \in Layer(i) :
                           ~ Likelier(By(i, a, b)', cumu_prob'[i + 1][b])
    <3>1. Settled' = \A i \in 1 .. level' - 1 : \A b \in Layer(i + 1) :
             /\ prev'[i + 1][b] \in Layer(i)
             /\ cumu_prob'[i + 1][b] = By(i, prev[i + 1][b], b)'
             /\ \A a \in Layer(i) : ~ Likelier(By(i, a, b)', cumu_prob'[i + 1][b])
      BY <1>7 DEF Settled
    <3> QED
      BY <1>1, <3>1
  <2>1. CASE i = level
    <3>1. \A a : By(i, a, b)' = Temp(tp, a, b)
      BY <1>1, <1>4, <1>6, <2>1 DEF By, Temp
    <3>2. prev'[i + 1][b] = Chosen(tp, b) /\ cumu_prob'[i + 1][b] = reached[b]
      BY <1>4, <2>1 DEF chosen
    <3>3. reached[b] = Temp(tp, Chosen(tp, b), b)
      BY <2>1 DEF reached
    <3>4. By(i, prev[i + 1][b], b)' = Temp(tp, Chosen(tp, b), b)
      BY <1>1, <1>4, <1>6, <2>1, <3>2 DEF By, Temp
    <3> QED
      BY <1>3, <2>1, <3>1, <3>2, <3>3, <3>4
  <2>2. CASE i # level
    <3>1. i \in 1 .. level - 1 /\ i + 1 \in 1 .. level
      BY <2>2 DEF TGTypeOK
    <3>2. /\ cumu_prob'[i] = cumu_prob[i] /\ cumu_prob'[i + 1] = cumu_prob[i + 1]
          /\ prev'[i + 1] = prev[i + 1] /\ tps'[i] = tps[i]
      BY <1>1, <1>4, <1>6, <3>1
    <3> QED
      BY <1>1, <3>1, <3>2 DEF Settled, By
  <2> QED
    BY <2>1, <2>2
<1>10. Seeded'
  <2>1. cumu_prob'[1] = cumu_prob[1] /\ prev'[1] = prev[1]
    BY <1>1, <1>4
  <2>2. \A i \in level' + 1 .. N : cumu_prob'[i] = cumu_prob[i]
    BY <1>1, <1>4
  <2>3. ~ connected' => \A b \in Layer(level') : cumu_prob'[level'][b] = Impossible
    BY <1>1, <1>2, <1>4
  <2>4. \A i \in level' + 1 .. N : i \in level + 1 .. N
    BY <1>1
  <2>5. \A i \in level' + 1 .. N : \A b \in Layer(i) : cumu_prob'[i][b] = Impossible
    BY <2>2, <2>4 DEF Seeded
  <2>6. cumu_prob'[1] = ep[1] /\ \A b \in Layer(1) : prev'[1][b] = 0
    BY <1>1, <2>1 DEF Seeded
  <2> QED
    BY <1>1, <1>7, <2>3, <2>5, <2>6 DEF Seeded
<1>11. Tracked'
  BY <1>1 DEF Tracked
<1> QED
  BY <1>8, <1>9, <1>10, <1>11

(* The constructor starts the forward pass. *)
LEMMA ConstructStep ==
  ASSUME NEW n \in Nat \ {0}, NEW e, e \in Seq(Seq(Cost)), Len(e) = n,
         \A i \in 1 .. n : e[i] # <<>>,
         Construct(e)
  PROVE  TGIInv'
<1>0. n \in Nat \ {0}
  OBVIOUS
<1>1. \A i \in 1 .. n : e[i] \in Seq(Cost) /\ e[i] # <<>>
  OBVIOUS
<1>2. e \in Seq(Seq(Cost)) /\ Len(e) = n
  OBVIOUS
<1>3. N' = n /\ ep' = e /\ \A i : Layer(i)' = 1 .. Len(e[i])
  BY <1>2 DEF Construct, N, Layer
<1>4. \A i \in 1 .. n : 1 .. Len(e[i]) = DOMAIN e[i] /\ e[i] \in [1 .. Len(e[i]) -> Cost]
  BY <1>1
<1>5. /\ DOMAIN cumu_prob' = 1 .. n /\ DOMAIN prev' = 1 .. n
      /\ \A i \in 1 .. n :
           /\ cumu_prob'[i] = [b \in 1 .. Len(e[i]) |->
                                 IF i = 1 THEN e[1][b] ELSE Impossible]
           /\ prev'[i] = [b \in 1 .. Len(e[i]) |-> 0]
  BY <1>2 DEF Construct
<1>6. TGTypeOK'
  <2>1. \A i \in 1 .. n : cumu_prob'[i] \in [1 .. Len(e[i]) -> Cost]
    <3> SUFFICES ASSUME NEW i \in 1 .. n
                 PROVE  cumu_prob'[i] \in [1 .. Len(e[i]) -> Cost]
      OBVIOUS
    <3>1. ASSUME NEW b \in 1 .. Len(e[i])
          PROVE  (IF i = 1 THEN e[1][b] ELSE Impossible) \in Cost
      BY <1>4 DEF Cost
    <3>2. cumu_prob'[i] = [b \in 1 .. Len(e[i]) |->
                             IF i = 1 THEN e[1][b] ELSE Impossible]
      BY <1>5
    <3> QED
      BY <3>1, <3>2
  <2>2. \A i \in 1 .. n : prev'[i] \in [1 .. Len(e[i]) -> Nat]
    BY <1>5
  <2>3. /\ level' = 1 /\ connected' = TRUE /\ pc' = "update"
        /\ tps' = <<>> /\ opath' = <<>>
    BY DEF Construct
  <2>4. DOMAIN tps' = 1 .. level' - 1
    BY <2>3
  <2>5. \A i \in 1 .. level' - 1 : FALSE
    BY <2>3
  <2>6. ep' \in Seq(Seq(Cost)) /\ \A i \in 1 .. N' : ep'[i] # <<>>
    BY <1>1, <1>2, <1>3
  <2>7. /\ \A i \in 1 .. N' : cumu_prob'[i] \in [Layer(i)' -> Cost]
        /\ \A i \in 1 .. N' : prev'[i] \in [Layer(i)' -> Nat]
    BY <1>3, <2>1, <2>2
  <2>8. level' \in Nat \ {0} /\ level' <= N' /\ opath' \in Seq(TGNode)
    BY <1>0, <1>3, <2>3
  <2>9. \A i \in 1 .. level' - 1 : tps'[i] \in Transitions(i)'
    BY <2>5
  <2>10. DOMAIN cumu_prob' = 1 .. N' /\ DOMAIN prev' = 1 .. N'
    BY <1>3, <1>5
  <2> QED
    BY <2>3, <2>4, <2>6, <2>7, <2>8, <2>9, <2>10 DEF TGTypeOK
<1>7. Settled'
  BY DEF Construct, Settled
<1>8. Seeded'
  <2>1. cumu_prob'[1] = e[1]
    <3>1. 1 \in 1 .. n
      BY <1>0
    <3>2. e[1] = [b \in 1 .. Len(e[1]) |-> e[1][b]]
      BY <1>4, <3>1
    <3> QED
      BY <1>5, <3>1, <3>2
  <2>2. \A b \in 1 .. Len(e[1]) : prev'[1][b] = 0
    BY <1>0, <1>5
  <2>3. \A i \in 2 .. n : \A b \in 1 .. Len(e[i]) : cumu_prob'[i][b] = Impossible
    BY <1>5
  <2>4. cumu_prob'[1] = ep'[1] /\ \A b \in Layer(1)' : prev'[1][b] = 0
    BY <1>3, <2>1, <2>2
  <2>5. level' = 1 /\ connected' = TRUE /\ pc' = "update"
    BY DEF Construct
  <2>6. ASSUME NEW i \in level' + 1 .. N', NEW b \in Layer(i)'
        PROVE  cumu_prob'[i][b] = Impossible
    <3>1. i \in 2 .. n
      BY <1>3, <2>5
    <3>2. b \in 1 .. Len(e[i])
      BY <1>3, <3>1
    <3> QED
      BY <2>3, <3>1, <3>2
  <2> QED
    BY <2>4, <2>5, <2>6 DEF Seeded
<1>9. Tracked'
  BY DEF Tracked, Construct
<1> QED
  BY <1>6, <1>7, <1>8, <1>9 DEF TGIInv

(* The backward pass ends only where the forward pass succeeded. *)
LEMMA LastLayerReached ==
  ASSUME TGIInv, pc # "start", level = N \/ ~ connected,
         NEW b \in Layer(N), cumu_prob[N][b] # Impossible
  PROVE  level = N /\ connected
<1>1. level \in 1 .. N
  BY DEF TGIInv, TGTypeOK, N
<1>2. level = N
  <2>1. CASE level # N
    <3>1. N \in level + 1 .. N
      BY <1>1, <2>1 DEF TGIInv, TGTypeOK, N
    <3> QED
      BY <3>1 DEF TGIInv, Seeded
  <2> QED
    BY <2>1
<1> QED
  BY <1>2 DEF TGIInv, Seeded

LEMMA BacktrackStep ==
  ASSUME TGIInv, Backtrack
  PROVE  TGIInv'
<1> USE DEF TGIInv
<1>1. /\ pc = "update" /\ (level = N \/ ~ connected)
      /\ ep' = ep /\ tps' = tps /\ cumu_prob' = cumu_prob /\ prev' = prev
      /\ level' = level /\ connected' = connected
  BY DEF Backtrack
<1>2. N \in Nat \ {0} /\ N \in 1 .. N
  BY <1>1 DEF TGTypeOK, N
<1>3. N' = N /\ (\A i : Layer(i)' = Layer(i) /\ Transitions(i)' = Transitions(i))
      /\ LastLayer' = LastLayer /\ LastLayer = N
  BY <1>1 DEF N, Layer, Transitions, LastLayer
<1>4. Settled'
  BY <1>1, <1>3 DEF Settled, By
<1>5. \A b : IsBest(b)' <=> IsBest(b)
  BY <1>1, <1>3 DEF IsBest
<1>6. CASE \E b \in Layer(LastLayer) : IsBest(b)
  <2> DEFINE best == CHOOSE b \in Layer(LastLayer) : IsBest(b)
  <2>1. best \in Layer(N) /\ IsBest(best)
    BY <1>3, <1>6
  <2>2. opath' = << [layer |-> N, at |-> best] >> /\ pc' = "backtrack"
    BY <1>3, <1>6 DEF Backtrack
  <2> HIDE DEF best
  <2>3. best \in Nat
    BY <2>1 DEF Layer
  <2>4. opath' \in Seq(TGNode) /\ Len(opath') = 1 /\ opath'[1] = [layer |-> N, at |-> best]
    BY <1>2, <2>2, <2>3 DEF TGNode
  <2>5. TGTypeOK'
    BY <1>1, <1>3, <2>2, <2>4 DEF TGTypeOK
  <2>6. Seeded'
    BY <1>1, <1>3, <2>2 DEF Seeded
  <2>7. Tracked'
    BY <1>2, <1>3, <1>5, <2>1, <2>2, <2>4 DEF Tracked
  <2> QED
    BY <1>4, <2>5, <2>6, <2>7
<1>7. CASE ~ \E b \in Layer(LastLayer) : IsBest(b)
  <2>1. opath' = <<>> /\ pc' = "done"
    BY <1>7 DEF Backtrack
  <2>2. TGTypeOK'
    BY <1>1, <1>3, <2>1 DEF TGTypeOK
  <2>3. Seeded'
    BY <1>1, <1>3, <2>1 DEF Seeded
  <2>4. \A b \in Layer(N) : cumu_prob[N][b] = Impossible
    <3> DEFINE k == Len(ep[N])
    <3>1. k \in Nat \ {0} /\ Layer(N) = 1 .. k
      BY <1>2, LayerSize DEF Layer
    <3>2. cumu_prob[N] \in [1 .. k -> Cost]
      BY <1>2, <3>1 DEF TGTypeOK
    <3> HIDE DEF k
    <3>3. PICK a \in 1 .. k :
            /\ \A other \in 1 .. k : ~ Likelier(cumu_prob[N][other], cumu_prob[N][a])
            /\ \A other \in 1 .. k :
                 other < a => Likelier(cumu_prob[N][a], cumu_prob[N][other])
      BY <3>1, <3>2, FirstLikeliest
    <3>4. cumu_prob[N][a] = Impossible
      BY <1>3, <1>7, <3>1, <3>3 DEF IsBest
    <3> QED
      BY <3>1, <3>3, <3>4 DEF Likelier
  <2>5. Tracked'
    BY <1>1, <1>3, <2>1, <2>4 DEF Tracked
  <2> QED
    BY <1>4, <2>2, <2>3, <2>5
<1> QED
  BY <1>6, <1>7

LEMMA TrackBackStep ==
  ASSUME TGIInv, TrackBack
  PROVE  TGIInv'
<1> USE DEF TGIInv
<1> DEFINE k == Len(opath)
           L == opath[1].layer
           b == opath[1].at
<1>1. /\ pc = "backtrack" /\ opath # <<>> /\ opath \in Seq(TGNode)
      /\ ep' = ep /\ tps' = tps /\ cumu_prob' = cumu_prob /\ prev' = prev
      /\ level' = level /\ connected' = connected
      /\ (level = N \/ ~ connected)
  BY DEF TrackBack, Tracked, TGTypeOK, Seeded
<1>2. N' = N /\ (\A i : Layer(i)' = Layer(i) /\ Transitions(i)' = Transitions(i))
      /\ LastLayer' = LastLayer /\ LastLayer = N /\ \A c : IsBest(c)' = IsBest(c)
  BY <1>1 DEF N, Layer, Transitions, LastLayer, IsBest
<1>3. /\ k \in Nat \ {0} /\ N \in Nat /\ k <= N
      /\ IsBest(opath[k].at)
      /\ \A j \in 1 .. k : opath[j].layer = N - k + j /\ opath[j].at \in Layer(opath[j].layer)
      /\ \A j \in 1 .. k - 1 : opath[j].at = prev[opath[j + 1].layer][opath[j + 1].at]
  BY <1>1 DEF Tracked, N, TGTypeOK
<1>4. Head(opath) = opath[1] /\ 1 \in 1 .. k /\ k \in 1 .. k
  BY <1>1, <1>3
<1> HIDE DEF k
<1>5. L = N - k + 1 /\ b \in Layer(L)
  BY <1>3, <1>4
<1>6. level = N /\ connected
  <2>1. opath[k].layer = N
    BY <1>3, <1>4
  <2>2. opath[k].at \in Layer(N)
    BY <1>3, <1>4, <2>1
  <2>3. cumu_prob[N][opath[k].at] # Impossible
    BY <1>2, <1>3 DEF IsBest
  <2> QED
    BY <1>1, <2>2, <2>3, LastLayerReached
<1>7. Settled' /\ Seeded'
  <2>1. Settled'
    BY <1>1, <1>2 DEF Settled, By
  <2>2. pc' \in {"backtrack", "done"}
    BY <1>1 DEF TrackBack
  <2> QED
    BY <1>1, <1>2, <1>6, <2>1, <2>2 DEF Seeded
<1>8. Previous = prev[L][b]
  BY <1>4 DEF Previous
<1>9. L > 1 => L - 1 \in 1 .. level - 1 /\ prev[L][b] \in Layer(L - 1)
  <2> SUFFICES ASSUME L > 1
               PROVE  L - 1 \in 1 .. level - 1 /\ prev[L][b] \in Layer(L - 1)
    OBVIOUS
  <2>1. L - 1 \in 1 .. level - 1 /\ (L - 1) + 1 = L
    BY <1>3, <1>5, <1>6
  <2> QED
    BY <1>5, <2>1 DEF Settled
<1>10. CASE Previous # 0
  <2> DEFINE front == [layer |-> L - 1, at |-> prev[L][b]]
  <2>1. L > 1
    <3>1. L \in 1 .. N
      BY <1>3, <1>5
    <3>2. L # 1
      BY <1>1, <1>5, <1>8, <1>10 DEF Seeded
    <3> QED
      BY <3>1, <3>2, <1>3
  <2>2. opath' = <<front>> \o opath /\ pc' = "backtrack"
    BY <1>1, <1>4, <1>8, <1>10 DEF TrackBack
  <2>3. prev[L][b] \in Nat /\ L - 1 \in Nat
    BY <1>9, <2>1 DEF Layer
  <2>4. front \in TGNode /\ front.layer = L - 1 /\ front.at = prev[L][b]
    BY <2>3 DEF TGNode
  <2> HIDE DEF front
  <2>5. /\ opath' \in Seq(TGNode) /\ Len(opath') = k + 1
        /\ opath'[1] = front
        /\ \A j \in 1 .. k : opath'[j + 1] = opath[j]
    BY <1>1, <2>2, <2>4 DEF k
  <2>6. TGTypeOK'
    BY <1>1, <1>2, <2>2, <2>5 DEF TGTypeOK
  <2>7. k + 1 <= N /\ IsBest(opath'[k + 1].at)
    BY <1>3, <1>4, <1>5, <2>1, <2>5
  <2>8. ASSUME NEW j \in 1 .. k + 1
        PROVE  /\ opath'[j].layer = N - (k + 1) + j
               /\ opath'[j].at \in Layer(opath'[j].layer)
    <3>1. CASE j = 1
      <4>1. opath'[j].layer = L - 1 /\ opath'[j].at = prev[L][b]
        BY <2>4, <2>5, <3>1
      <4> QED
        BY <1>3, <1>5, <1>9, <2>1, <3>1, <4>1
    <3>2. CASE j # 1
      <4>1. j - 1 \in 1 .. k /\ opath'[j] = opath[j - 1]
        <5>1. j - 1 \in 1 .. k /\ (j - 1) + 1 = j
          BY <1>3, <3>2
        <5> QED
          BY <2>5, <5>1
      <4>2. opath[j - 1].layer = N - k + (j - 1)
        BY <1>3, <4>1
      <4> QED
        BY <1>3, <4>1, <4>2
    <3> QED
      BY <3>1, <3>2
  <2>9. ASSUME NEW j \in 1 .. k
        PROVE  opath'[j].at = prev[opath'[j + 1].layer][opath'[j + 1].at]
    <3>1. CASE j = 1
      BY <2>4, <2>5, <3>1
    <3>2. CASE j # 1
      <4>1. j - 1 \in 1 .. k - 1 /\ j - 1 \in 1 .. k /\ j \in 1 .. k /\ (j - 1) + 1 = j
        BY <1>3, <3>2
      <4>2. opath'[j] = opath[j - 1] /\ opath'[j + 1] = opath[j]
        BY <2>5, <4>1
      <4> QED
        BY <1>3, <4>1, <4>2
    <3> QED
      BY <3>1, <3>2
  <2>10. Tracked'
    <3>1. opath' # <<>> /\ (k + 1) - 1 = k
      BY <1>3, <2>5
    <3>2. pc' = "backtrack" /\ Len(opath') = k + 1
      BY <2>2, <2>5
    <3> QED
      BY <1>1, <1>2, <2>7, <2>8, <2>9, <3>1, <3>2, SMTT(30) DEF Tracked
  <2> QED
    BY <1>7, <2>6, <2>10
<1>11. CASE Previous = 0
  <2>1. opath' = opath /\ pc' = "done"
    BY <1>11 DEF TrackBack
  <2>2. ~ (L > 1)
    BY <1>8, <1>9, <1>11 DEF Layer
  <2>3. k = N
    BY <1>3, <1>5, <2>2
  <2>4. TGTypeOK'
    BY <1>1, <1>2, <2>1 DEF TGTypeOK
  <2>5. Tracked'
    BY <1>1, <1>2, <1>3, <2>1, <2>3 DEF Tracked, k
  <2> QED
    BY <1>7, <2>4, <2>5
<1> QED
  BY <1>10, <1>11

(* Nothing is tracked before there is a graph. *)
LEMMA EmptyGraph == TGInit => TGIInv
<1> SUFFICES ASSUME TGInit PROVE TGIInv
  OBVIOUS
<1> USE DEF TGInit
<1>1. N = 0 /\ 1 .. N = {} /\ 1 .. level - 1 = {} /\ level + 1 .. N = {}
  BY DEF N
<1>2. DOMAIN tps = {} /\ DOMAIN cumu_prob = {} /\ DOMAIN prev = {}
  OBVIOUS
<1>3. TGTypeOK
  BY <1>1, <1>2 DEF TGTypeOK
<1>4. Settled /\ Seeded /\ Tracked
  BY <1>1 DEF Settled, Seeded, Tracked
<1> QED
  BY <1>3, <1>4 DEF TGIInv

LEMMA GraphStutters ==
  ASSUME TGIInv, UNCHANGED tgVars
  PROVE  TGIInv'
<1>1. /\ ep' = ep /\ tps' = tps /\ cumu_prob' = cumu_prob /\ prev' = prev
      /\ level' = level /\ connected' = connected /\ pc' = pc /\ opath' = opath
  BY DEF tgVars
<1>2. N' = N /\ LastLayer' = LastLayer
      /\ \A i : Layer(i)' = Layer(i) /\ Transitions(i)' = Transitions(i)
  BY <1>1 DEF N, Layer, LastLayer, Transitions
<1>3. TGTypeOK'
  BY <1>1, <1>2 DEF TGTypeOK, TGIInv
<1>4. Settled'
  BY <1>1, <1>2 DEF Settled, By, TGIInv
<1>5. Seeded'
  BY <1>1, <1>2 DEF Seeded, TGIInv
<1>6. \A b : IsBest(b)' <=> IsBest(b)
  BY <1>1, <1>2 DEF IsBest
<1>7. Tracked'
  BY <1>1, <1>2, <1>6 DEF Tracked, TGIInv
<1> QED
  BY <1>3, <1>4, <1>5, <1>7 DEF TGIInv

(***************************************************************************)
(* The invariant of the transition graph: what the forward pass has        *)
(* settled, and what backtrack has tracked, for every trajectory.          *)
(***************************************************************************)
THEOREM TGInvariance == TGSpec => []TGIInv
<1>1. TGInit => TGIInv
  BY EmptyGraph
<1>2. TGIInv /\ [TGNext]_tgVars => TGIInv'
  <2> SUFFICES ASSUME TGIInv, [TGNext]_tgVars PROVE TGIInv'
    OBVIOUS
  <2>1. CASE \E n \in 1 .. MaxLayers : \E e \in [1 .. n -> Emissions(MaxCandidates)] :
               Construct(e)
    <3>0. PICK n \in 1 .. MaxLayers :
            \E e \in [1 .. n -> Emissions(MaxCandidates)] : Construct(e)
      BY <2>1
    <3>1. PICK e \in [1 .. n -> Emissions(MaxCandidates)] : Construct(e)
      BY <3>0
    <3>2. n \in Nat \ {0}
      BY TransitionAssumption
    <3>3. ASSUME NEW i \in 1 .. n PROVE e[i] \in Seq(Cost) /\ e[i] # <<>>
      <4>0. e[i] \in Emissions(MaxCandidates)
        BY <3>1
      <4>1. PICK k \in 1 .. MaxCandidates : e[i] \in [1 .. k -> EmissionCosts]
        BY <4>0 DEF Emissions
      <4>2. k \in Nat \ {0} /\ e[i] \in [1 .. k -> Cost]
        BY <4>1, TransitionAssumption
      <4>3. e[i] \in Seq(Cost) /\ Len(e[i]) = k
        BY <4>2
      <4> QED
        BY <4>2, <4>3
    <3>4. e \in Seq(Seq(Cost)) /\ Len(e) = n
      BY <3>1, <3>2, <3>3
    <3> QED
      BY <3>1, <3>2, <3>3, <3>4, ConstructStep
  <2>2. ASSUME level < N, NEW tp \in Matrix(level), UpdateLayer(tp)
        PROVE  TGIInv'
    <3>1. pc # "start"
      BY <2>2 DEF UpdateLayer, RunLayer
    <3>2. tp \in Transitions(level)
      BY <2>2, MatrixIsCost
    <3> QED
      BY <2>2, <3>1, <3>2, ForwardStep DEF UpdateLayer
  <2>3. CASE Backtrack
    BY <2>3, BacktrackStep
  <2>4. CASE TrackBack
    BY <2>4, TrackBackStep
  <2>5. CASE UNCHANGED tgVars
    BY <2>5, GraphStutters
  <2> QED
    BY <2>1, <2>2, <2>3, <2>4, <2>5 DEF TGNext
<1> QED
  BY <1>1, <1>2, PTL DEF TGSpec

(***************************************************************************)
(* backtrack returns nothing or one candidate of every point.              *)
(***************************************************************************)
LEMMA TrackedIsWhole == TGIInv => OneCandidatePerPoint
<1> SUFFICES ASSUME TGIInv, pc = "done", opath # <<>>
             PROVE  Len(opath) = N /\ \A i \in 1 .. N : opath[i].layer = i
  BY DEF OneCandidatePerPoint
<1>1. Len(opath) = N /\ N \in Nat
  BY DEF TGIInv, Tracked, TGTypeOK, N
<1>2. \A j \in 1 .. N : opath[j].layer = N - N + j
  BY <1>1 DEF TGIInv, Tracked
<1> QED
  BY <1>1, <1>2

(* backtrack returns nothing or one candidate of every point, in every     *)
(* behaviour.                                                              *)
THEOREM WholePath == TGSpec => []OneCandidatePerPoint
BY TGInvariance, TrackedIsWhole, PTL

-----------------------------------------------------------------------------
(* The costs accumulated along a choice of one candidate per layer.  They  *)
(* are defined by recursion; that they exist for every number of layers is *)
(* shown by the least number for which they would not.                     *)
Accumulated(choice, f, i) ==
  IF i = 1 THEN ep[1][choice[1]]
  ELSE Plus(Plus(f[i - 1], tps[i - 1][choice[i - 1]][choice[i]]),
            ep[i][choice[i]])

IsTotal(choice, n, f) ==
  f \in [1 .. n -> Cost] /\ \A i \in 1 .. n : f[i] = Accumulated(choice, f, i)

LEMMA CostsOfStep ==
  ASSUME TGIInv, pc # "start", NEW n \in 1 .. level,
         NEW choice, IsChoice(choice, n), NEW i \in 1 .. n
  PROVE  /\ choice[i] \in Layer(i) /\ ep[i][choice[i]] \in Cost
         /\ i # 1 => /\ i - 1 \in 1 .. level - 1 /\ i - 1 \in 1 .. n
                     /\ tps[i - 1][choice[i - 1]][choice[i]] \in Cost
<1>1. choice[i] \in Layer(i) /\ i \in 1 .. N /\ level \in Nat
  BY DEF IsChoice, TGIInv, TGTypeOK, N
<1>2. ep[i][choice[i]] \in Cost
  BY <1>1, LayerSize DEF TGIInv
<1>3. ASSUME i # 1
      PROVE  /\ i - 1 \in 1 .. level - 1 /\ i - 1 \in 1 .. n
             /\ tps[i - 1][choice[i - 1]][choice[i]] \in Cost
  <2>1. i - 1 \in 1 .. level - 1 /\ i - 1 \in 1 .. n /\ (i - 1) + 1 = i
    BY <1>1, <1>3
  <2>2. tps[i - 1] \in [Layer(i - 1) -> [Layer(i) -> Cost]]
    BY <2>1 DEF TGIInv, TGTypeOK, Transitions
  <2>3. choice[i - 1] \in Layer(i - 1)
    BY <2>1 DEF IsChoice
  <2> QED
    BY <1>1, <2>1, <2>2, <2>3
<1> QED
  BY <1>1, <1>2, <1>3

LEMMA ChoiceTotalsExist ==
  ASSUME TGIInv, pc # "start", NEW n \in 1 .. level,
         NEW choice, IsChoice(choice, n)
  PROVE  \E f : IsTotal(choice, n, f)
<1>0. n \in Nat
  BY DEF TGIInv, TGTypeOK
<1> DEFINE T == {m \in 1 .. n : ~ \E f : IsTotal(choice, m, f)}
<1>1. SUFFICES ASSUME T # {} PROVE FALSE
  BY <1>0
<1>2. T \in SUBSET Nat
  OBVIOUS
<1>3. PICK m \in T : \A k \in T : m <= k
  BY <1>1, <1>2, LeastElement
<1>4. m \in 1 .. n /\ ~ \E f : IsTotal(choice, m, f)
  BY <1>3
<1>5. CASE m = 1
  <2> DEFINE f == [i \in 1 .. 1 |-> ep[1][choice[1]]]
  <2>1. ep[1][choice[1]] \in Cost
    BY <1>0, <1>4, <1>5, CostsOfStep
  <2>2. IsTotal(choice, 1, f)
    BY <2>1 DEF IsTotal, Accumulated
  <2> QED
    BY <1>4, <1>5, <2>2
<1>6. CASE m # 1
  <2>1. m - 1 \in 1 .. n /\ ~ (m <= m - 1)
    BY <1>0, <1>4, <1>6
  <2>2. m - 1 \notin T
    BY <1>3, <2>1
  <2>3. PICK g : IsTotal(choice, m - 1, g)
    BY <2>1, <2>2
  <2> DEFINE last == Accumulated(choice, g, m)
             f == [i \in 1 .. m |-> IF i = m THEN last ELSE g[i]]
  <2>4. last \in Cost
    <3>1. g[m - 1] \in Cost
      BY <1>0, <1>4, <1>6, <2>3 DEF IsTotal
    <3>2. tps[m - 1][choice[m - 1]][choice[m]] \in Cost /\ ep[m][choice[m]] \in Cost
      BY <1>4, <1>6, CostsOfStep
    <3> QED
      BY <1>6, <3>1, <3>2, PlusIsCost DEF Accumulated
  <2> HIDE DEF last
  <2>5. f \in [1 .. m -> Cost]
    <3>1. \A i \in 1 .. m : i # m => i \in 1 .. m - 1
      BY <1>0, <1>4
    <3>2. \A i \in 1 .. m - 1 : g[i] \in Cost
      BY <2>3 DEF IsTotal
    <3> QED
      BY <2>4, <3>1, <3>2
  <2>6. ASSUME NEW i \in 1 .. m PROVE f[i] = Accumulated(choice, f, i)
    <3>1. i # 1 => f[i - 1] = g[i - 1]
      BY <1>0, <1>4
    <3>2. Accumulated(choice, f, i) = Accumulated(choice, g, i)
      BY <3>1 DEF Accumulated
    <3>3. CASE i = m
      BY <3>2, <3>3 DEF last
    <3>4. CASE i # m
      <4>1. i \in 1 .. m - 1
        BY <1>0, <1>4, <3>4
      <4> QED
        BY <2>3, <3>2, <3>4, <4>1 DEF IsTotal
    <3> QED
      BY <3>3, <3>4
  <2>7. IsTotal(choice, m, f)
    BY <2>5, <2>6 DEF IsTotal
  <2> QED
    BY <1>4, <2>7
<1> QED
  BY <1>5, <1>6

LEMMA CostOfTotal ==
  ASSUME TGIInv, pc # "start", NEW n \in 1 .. level,
         NEW choice, IsChoice(choice, n)
  PROVE  \E f : IsTotal(choice, n, f) /\ CostOf(choice, n) = f[n]
<1> DEFINE upTo == CHOOSE f : f = [i \in 1 .. n |-> Accumulated(choice, f, i)]
<1>1. PICK g : IsTotal(choice, n, g)
  BY ChoiceTotalsExist
<1>2. g = [i \in 1 .. n |-> Accumulated(choice, g, i)]
  BY <1>1 DEF IsTotal
<1>3. upTo = [i \in 1 .. n |-> Accumulated(choice, upTo, i)]
  BY <1>2
<1>4. CostOf(choice, n) = upTo[n]
  BY DEF CostOf, Accumulated
<1> HIDE DEF upTo
<1>5. \A m \in 1 .. n : upTo[m] = Accumulated(choice, upTo, m)
  BY <1>3
<1>6. \A m \in 1 .. n : upTo[m] \in Cost
  <2> DEFINE T == {m \in 1 .. n : upTo[m] \notin Cost}
  <2>1. SUFFICES ASSUME T # {} PROVE FALSE
    OBVIOUS
  <2>2. T \in SUBSET Nat
    OBVIOUS
  <2>3. PICK m \in T : \A k \in T : m <= k
    BY <2>1, <2>2, LeastElement
  <2>4. m \in 1 .. n /\ upTo[m] \notin Cost
    BY <2>3
  <2>5. CASE m = 1
    BY <1>5, <2>4, <2>5, CostsOfStep DEF Accumulated
  <2>6. CASE m # 1
    <3>1. m - 1 \in 1 .. n /\ tps[m - 1][choice[m - 1]][choice[m]] \in Cost
          /\ ep[m][choice[m]] \in Cost
      BY <2>4, <2>6, CostsOfStep
    <3>2. m - 1 \notin T
      BY <2>3, <2>4
    <3>3. upTo[m - 1] \in Cost
      BY <3>1, <3>2
    <3> QED
      BY <1>5, <2>4, <2>6, <3>1, <3>3, PlusIsCost DEF Accumulated
  <2> QED
    BY <2>5, <2>6
<1>7. upTo \in [1 .. n -> Cost]
  BY <1>3, <1>6
<1> QED
  BY <1>4, <1>5, <1>7 DEF IsTotal

(* No choice is accumulated to a likelier cost than the forward pass found. *)
LEMMA ForwardIsLikeliest ==
  ASSUME TGIInv, pc # "start", NEW n \in 1 .. level,
         NEW choice, IsChoice(choice, n), NEW f, IsTotal(choice, n, f)
  PROVE  \A i \in 1 .. n : ~ Likelier(f[i], cumu_prob[i][choice[i]])
<1> DEFINE T == {i \in 1 .. n : Likelier(f[i], cumu_prob[i][choice[i]])}
<1>1. SUFFICES ASSUME T # {} PROVE FALSE
  OBVIOUS
<1>2. T \in SUBSET Nat
  OBVIOUS
<1>3. PICK m \in T : \A k \in T : m <= k
  BY <1>1, <1>2, LeastElement
<1>4. m \in 1 .. n /\ Likelier(f[m], cumu_prob[m][choice[m]])
  BY <1>3
<1>5. f[m] = Accumulated(choice, f, m)
  BY <1>4 DEF IsTotal
<1>6. CASE m = 1
  <2>1. cumu_prob[1] = ep[1]
    BY DEF TGIInv, Seeded
  <2>2. f[1] = ep[1][choice[1]] /\ ep[1][choice[1]] \in Cost
    BY <1>4, <1>5, <1>6, CostsOfStep DEF Accumulated
  <2> QED
    BY <1>4, <1>6, <2>1, <2>2, LikelierOrder
<1>7. CASE m # 1
  <2> DEFINE a == choice[m - 1]
             b == choice[m]
             tp == tps[m - 1][a][b]
             best == cumu_prob[m - 1][a]
  <2>1. /\ m - 1 \in 1 .. level - 1 /\ m - 1 \in 1 .. n /\ tp \in Cost
        /\ ep[m][b] \in Cost /\ b \in Layer(m) /\ a \in Layer(m - 1)
    BY <1>4, <1>7, CostsOfStep DEF IsChoice
  <2>2. m \in 1 .. N /\ m - 1 \in 1 .. N /\ (m - 1) + 1 = m
    BY <1>4, <2>1 DEF TGIInv, TGTypeOK, N
  <2>3. best \in Cost /\ cumu_prob[m][b] \in Cost
    BY <2>1, <2>2 DEF TGIInv, TGTypeOK
  <2>4. f[m - 1] \in Cost
    BY <2>1 DEF IsTotal
  <2>5. ~ Likelier(f[m - 1], best)
    <3>1. m - 1 \notin T
      BY <1>3, <1>4
    <3> QED
      BY <2>1, <3>1
  <2>6. ~ Likelier(By(m - 1, a, b), cumu_prob[m][b])
    BY <2>1, <2>2 DEF TGIInv, Settled
  <2>7. By(m - 1, a, b) = Plus(Plus(best, tp), ep[m][b])
    BY <2>2 DEF By
  <2>8. f[m] = Plus(Plus(f[m - 1], tp), ep[m][b])
    BY <1>5, <1>7 DEF Accumulated
  <2> HIDE DEF a, b, tp, best
  <2>9. /\ Plus(f[m - 1], tp) \in Cost /\ Plus(best, tp) \in Cost
        /\ ~ Likelier(Plus(f[m - 1], tp), Plus(best, tp))
    BY <2>1, <2>3, <2>4, <2>5, PlusIsCost, PlusMonotone
  <2>10. /\ Plus(Plus(f[m - 1], tp), ep[m][b]) \in Cost
         /\ Plus(Plus(best, tp), ep[m][b]) \in Cost
         /\ ~ Likelier(Plus(Plus(f[m - 1], tp), ep[m][b]), Plus(Plus(best, tp), ep[m][b]))
    BY <2>1, <2>9, PlusIsCost, PlusMonotone
  <2>11. ~ Likelier(f[m], cumu_prob[m][b])
    BY <2>3, <2>6, <2>7, <2>8, <2>10, LikelierOrder
  <2> QED
    BY <1>4, <2>11 DEF b
<1> QED
  BY <1>6, <1>7

(* Along the path backtrack found, the forward pass is met exactly. *)
LEMMA BacktrackMeetsForward ==
  ASSUME TGIInv, pc = "done", opath # <<>>, level = N,
         NEW f, IsTotal([i \in 1 .. N |-> opath[i].at], N, f)
  PROVE  \A i \in 1 .. N : f[i] = cumu_prob[i][opath[i].at]
<1> DEFINE c == [i \in 1 .. N |-> opath[i].at]
           T == {i \in 1 .. N : f[i] # cumu_prob[i][opath[i].at]}
<1>1. SUFFICES ASSUME T # {} PROVE FALSE
  OBVIOUS
<1>2. T \in SUBSET Nat
  OBVIOUS
<1>3. PICK m \in T : \A k \in T : m <= k
  BY <1>1, <1>2, LeastElement
<1>4. m \in 1 .. N /\ f[m] # cumu_prob[m][opath[m].at] /\ N \in Nat
  BY <1>3 DEF TGIInv, TGTypeOK, N
<1>5. /\ Len(opath) = N
      /\ \A j \in 1 .. N : opath[j].layer = j /\ opath[j].at \in Layer(j)
      /\ \A j \in 1 .. N - 1 : opath[j].at = prev[j + 1][opath[j + 1].at]
  <2>1. /\ Len(opath) = N
        /\ \A j \in 1 .. N : opath[j].layer = N - N + j
                              /\ opath[j].at \in Layer(opath[j].layer)
        /\ \A j \in 1 .. N - 1 :
             opath[j].at = prev[opath[j + 1].layer][opath[j + 1].at]
    BY DEF TGIInv, Tracked
  <2>2. \A j \in 1 .. N : opath[j].layer = j
    BY <1>4, <2>1
  <2>3. \A j \in 1 .. N - 1 : j + 1 \in 1 .. N
    BY <1>4
  <2> QED
    BY <2>1, <2>2, <2>3
<1>6. f[m] = Accumulated(c, f, m)
  BY <1>4 DEF IsTotal
<1>7. CASE m = 1
  <2>1. cumu_prob[1] = ep[1]
    BY DEF TGIInv, Seeded
  <2> QED
    BY <1>4, <1>6, <1>7, <2>1 DEF Accumulated
<1>8. CASE m # 1
  <2>1. m - 1 \in 1 .. N - 1 /\ m - 1 \in 1 .. N /\ (m - 1) + 1 = m
    BY <1>4, <1>8
  <2>2. c[m - 1] = opath[m - 1].at /\ c[m] = opath[m].at
    BY <1>4, <2>1
  <2>3. opath[m - 1].at = prev[m][opath[m].at] /\ opath[m].at \in Layer(m)
    BY <1>4, <1>5, <2>1
  <2>4. cumu_prob[m][opath[m].at] = By(m - 1, prev[m][opath[m].at], opath[m].at)
    BY <2>1, <2>3 DEF TGIInv, Settled
  <2>5. f[m - 1] = cumu_prob[m - 1][opath[m - 1].at]
    <3>1. m - 1 \notin T
      BY <1>3, <1>4
    <3> QED
      BY <2>1, <3>1
  <2>6. f[m] = By(m - 1, opath[m - 1].at, opath[m].at)
    BY <1>6, <1>8, <2>1, <2>2, <2>5 DEF Accumulated, By
  <2> QED
    BY <1>4, <2>3, <2>4, <2>6
<1> QED
  BY <1>7, <1>8

(* What backtrack returns when the invariant holds is a most likely path.  *)
LEMMA TrackedIsMostLikely == TGIInv => MostLikely
<1> SUFFICES ASSUME TGIInv, pc = "done",
                    NEW choice \in [1 .. level -> 1 .. MaxCandidates],
                    IsChoice(choice, level)
             PROVE  IF opath = <<>> THEN CostOf(choice, level) = Impossible
                    ELSE ~ Likelier(CostOf(choice, level),
                                    CostOf([i \in 1 .. N |-> opath[i].at], N))
  BY DEF MostLikely
<1>1. level \in 1 .. level /\ level \in 1 .. N /\ N \in 1 .. N
  BY DEF TGIInv, TGTypeOK, N
<1>2. PICK f : IsTotal(choice, level, f) /\ CostOf(choice, level) = f[level]
  BY <1>1, CostOfTotal
<1>3. ~ Likelier(f[level], cumu_prob[level][choice[level]])
  BY <1>1, <1>2, ForwardIsLikeliest
<1>4. choice[level] \in Layer(level) /\ f[level] \in Cost
  BY <1>1, <1>2 DEF IsChoice, IsTotal
<1>5. cumu_prob[level][choice[level]] \in Cost
  BY <1>1, <1>4 DEF TGIInv, TGTypeOK
<1>6. CASE opath = <<>>
  <2>1. cumu_prob[level][choice[level]] = Impossible
    <3>1. CASE level = N
      BY <1>4, <1>6, <3>1 DEF TGIInv, Tracked
    <3>2. CASE level # N
      BY <1>4, <3>2 DEF TGIInv, Seeded
    <3> QED
      BY <3>1, <3>2
  <2> QED
    BY <1>2, <1>3, <1>4, <1>6, <2>1 DEF Likelier
<1>7. CASE opath # <<>>
  <2> DEFINE c == [i \in 1 .. N |-> opath[i].at]
  <2>1. /\ Len(opath) = N /\ IsBest(opath[N].at)
        /\ \A j \in 1 .. N : opath[j].layer = N - N + j
                              /\ opath[j].at \in Layer(opath[j].layer)
    BY <1>7 DEF TGIInv, Tracked
  <2>2. \A j \in 1 .. N : opath[j].at \in Layer(j)
    BY <1>1, <2>1 DEF N
  <2>3. cumu_prob[N][opath[N].at] # Impossible
    BY <2>1 DEF IsBest, LastLayer
  <2>4. level = N
    <3>1. level = N \/ ~ connected
      BY DEF TGIInv, Seeded
    <3> QED
      BY <1>1, <2>2, <2>3, <3>1, LastLayerReached
  <2>5. IsChoice(c, N)
    BY <2>2 DEF IsChoice
  <2>6. PICK g : IsTotal(c, N, g) /\ CostOf(c, N) = g[N]
    BY <1>1, <2>4, <2>5, CostOfTotal
  <2>7. g[N] = cumu_prob[N][opath[N].at]
    BY <1>1, <1>7, <2>4, <2>6, BacktrackMeetsForward
  <2>8. ~ Likelier(cumu_prob[N][choice[N]], cumu_prob[N][opath[N].at])
    BY <1>4, <2>1, <2>4 DEF IsBest, LastLayer
  <2>9. cumu_prob[N][opath[N].at] \in Cost
    BY <1>1, <2>2 DEF TGIInv, TGTypeOK
  <2>10. ~ Likelier(f[N], g[N])
    BY <1>3, <1>4, <1>5, <2>4, <2>7, <2>8, <2>9, LikelierOrder
  <2> QED
    BY <1>2, <1>7, <2>4, <2>6, <2>10
<1> QED
  BY <1>6, <1>7

(***************************************************************************)
(* The path backtrack returns is a most likely one, for every number of    *)
(* points and candidates and for all probabilities.                        *)
(***************************************************************************)
THEOREM MostLikelyPath == TGSpec => []MostLikely
BY TGInvariance, TrackedIsMostLikely, PTL

-----------------------------------------------------------------------------
(***************************************************************************)
(* FastMapMatch: what the transition graph found possible, the complete    *)
(* path can drive.                                                         *)
(***************************************************************************)

(* Distances, transition costs and rows have the types they should.        *)
LEMMA NetworkEdge ==
  ASSUME network \in Networks, NEW e \in EdgeIndex
  PROVE  /\ network[e].source \in Node /\ network[e].target \in Node
         /\ network[e].length \in Nat
BY MatchAssumption, GraphAssumption DEF Graph, Edge

LEMMA RowIsWay ==
  ASSUME network \in Networks, ubodt = Tables[network], NEW s \in Node, NEW t \in Node
  PROVE  /\ LookUp(s, t).cost \in Int
         /\ LookSpPath(s, t) \in Seq(EdgeIndex)
         /\ IsWay(network, s, t, LookSpPath(s, t))
         /\ LookUp(s, t) # NoRow =>
              /\ s # t /\ LookSpPath(s, t) # <<>>
              /\ PathLength(network, LookSpPath(s, t)) = LookUp(s, t).cost
<1> DEFINE r == Tables[network][s][t]
<1>1. /\ r.cost \in Int /\ IsWay(network, s, t, r.path)
      /\ r # NoRow => s # t /\ r.path # <<>> /\ PathLength(network, r.path) = r.cost
  BY UbodtAssumption
<1>2. LookUp(s, t) = r /\ LookSpPath(s, t) = r.path
  BY DEF LookUp, LookSpPath
<1>3. r.path \in Seq(EdgeIndex)
  BY <1>1 DEF IsWay
<1> QED
  BY <1>1, <1>2, <1>3

LEMMA DistanceIsInt ==
  ASSUME network \in Networks, ubodt = Tables[network],
         NEW a \in Candidate, NEW b \in Candidate
  PROVE  GetSpDist(a, b) \in Int
<1> DEFINE from == network[a.edge].target
           to == network[b.edge].source
<1>1. /\ a.edge \in EdgeIndex /\ b.edge \in EdgeIndex
      /\ a.offset \in Int /\ b.offset \in Int
  BY DEF Candidate
<1>2. from \in Node /\ to \in Node /\ network[a.edge].length \in Int
  BY <1>1, NetworkEdge
<1>3. LookUp(from, to).cost \in Int
  BY <1>2, RowIsWay
<1>4. /\ DistanceOver(a, b, 0) \in Int
      /\ DistanceOver(a, b, LookUp(from, to).cost) \in Int
  BY <1>1, <1>2, <1>3 DEF DistanceOver
<1> QED
  BY <1>1, <1>4 DEF GetSpDist, Unreachable

LEMMA TpIsCost ==
  ASSUME NEW sp \in Int, NEW eu \in Nat
  PROVE  CalcTp(sp, eu) \in Cost
BY DEF CalcTp, Cost, Impossible, Unreachable

(* The vehicle leaves an edge only for one it can reach. *)
LEMMA MovesOverAWay ==
  ASSUME network \in Networks, ubodt = Tables[network],
         NEW a \in Candidate, NEW b \in Candidate, NEW eu,
         Moves(a, b), CalcTp(GetSpDist(a, b), eu) # Impossible
  PROVE  \/ network[a.edge].target = network[b.edge].source
         \/ LookSpPath(network[a.edge].target, network[b.edge].source) # <<>>
<1> DEFINE from == network[a.edge].target
           to == network[b.edge].source
           back == a.offset - b.offset
           allowed == Tolerance * network[a.edge].length
<1>1. /\ a.edge \in EdgeIndex /\ b.edge \in EdgeIndex
      /\ a.offset \in Nat /\ b.offset \in Nat
  BY DEF Candidate
<1>2. from \in Node /\ to \in Node /\ network[a.edge].length \in Nat
  BY <1>1, NetworkEdge
<1>3. TolUnit \in Nat /\ Tolerance \in Nat
  BY MatchAssumption
<1>4. allowed \in Nat
  BY <1>2, <1>3
<1>5. back \in Int /\ (a.offset <= b.offset => back <= 0)
  BY <1>1
<1>6. TolUnit * back \in Int /\ (back <= 0 => TolUnit * back <= 0)
  <2> HIDE DEF back
  <2> QED
    BY <1>3, <1>5
<1>7. GetSpDist(a, b) # Unreachable
  BY DEF CalcTp
<1>8. a.edge # b.edge \/ TolUnit * back > allowed
  BY DEF Moves, BackBy, Allowed
<1>9. ~ (a.edge = b.edge /\ a.offset <= b.offset)
  <2> HIDE DEF allowed, back
  <2> QED
    BY <1>4, <1>5, <1>6, <1>8
<1>10. ~ (a.edge = b.edge /\ BackBy(a, b) < Allowed(a))
  <2>1. BackBy(a, b) = TolUnit * back /\ Allowed(a) = allowed
    BY DEF BackBy, Allowed
  <2> HIDE DEF allowed, back
  <2> QED
    BY <1>4, <1>6, <1>8, <2>1
<1>11. from = to \/ LookUp(from, to) # NoRow
  BY <1>7, <1>9, <1>10 DEF GetSpDist
<1> QED
  BY <1>2, <1>11, RowIsWay

(* A connected path stays connected when a way and an edge are appended.   *)
LEMMA ExtendPath ==
  ASSUME network \in Networks,
         NEW p \in Seq(EdgeIndex), p # <<>>, Connected(p),
         NEW s \in Seq(EdgeIndex), NEW e \in EdgeIndex,
         IsWay(network, network[p[Len(p)]].target, network[e].source, s),
         s # <<>> \/ network[p[Len(p)]].target = network[e].source
  PROVE  /\ p \o s \o <<e>> \in Seq(EdgeIndex)
         /\ Len(p \o s \o <<e>>) = Len(p) + Len(s) + 1
         /\ (p \o s \o <<e>>)[Len(p) + Len(s) + 1] = e
         /\ \A k \in 1 .. Len(p) : (p \o s \o <<e>>)[k] = p[k]
         /\ Connected(p \o s \o <<e>>)
<1> DEFINE q == p \o s \o <<e>>
<1>1. /\ q \in Seq(EdgeIndex) /\ Len(q) = Len(p) + Len(s) + 1 /\ q[Len(q)] = e
      /\ \A k \in 1 .. Len(p) : q[k] = p[k]
      /\ \A k \in 1 .. Len(s) : q[Len(p) + k] = s[k]
  OBVIOUS
<1>2. Len(p) \in Nat \ {0} /\ Len(s) \in Nat
  OBVIOUS
<1> HIDE DEF q
<1>3. ASSUME NEW k \in 1 .. Len(q) - 1
      PROVE  network[q[k]].target = network[q[k + 1]].source
  <2>1. CASE k < Len(p)
    <3>1. k \in 1 .. Len(p) - 1 /\ k \in 1 .. Len(p) /\ k + 1 \in 1 .. Len(p)
      BY <1>2, <2>1
    <3> QED
      BY <1>1, <3>1 DEF Connected
  <2>2. CASE k = Len(p)
    <3>1. q[k] = p[Len(p)]
      BY <1>1, <1>2, <2>2
    <3>2. CASE s = <<>>
      <4>1. q[k + 1] = e
        BY <1>1, <2>2, <3>2
      <4> QED
        BY <3>1, <3>2, <4>1
    <3>3. CASE s # <<>>
      <4>1. 1 \in 1 .. Len(s)
        BY <3>3
      <4>2. q[k + 1] = s[1]
        BY <1>1, <2>2, <4>1
      <4> QED
        BY <3>1, <3>3, <4>2 DEF IsWay
    <3> QED
      BY <3>2, <3>3
  <2>3. CASE k > Len(p)
    <3> DEFINE j == k - Len(p)
    <3>1. j \in 1 .. Len(s) /\ k = Len(p) + j
      BY <1>1, <1>2, <2>3
    <3> HIDE DEF j
    <3>2. q[k] = s[j] /\ s # <<>>
      BY <1>1, <3>1
    <3>3. CASE j = Len(s)
      <4>1. k + 1 = Len(q)
        BY <1>1, <3>1, <3>3
      <4>2. q[k] = s[Len(s)] /\ q[k + 1] = e
        BY <1>1, <3>2, <3>3, <4>1
      <4>3. network[s[Len(s)]].target = network[e].source
        BY <3>2 DEF IsWay
      <4> QED
        BY <4>2, <4>3
    <3>4. CASE j # Len(s)
      <4>0. j \in Nat \ {0} /\ j < Len(s)
        BY <1>2, <3>1, <3>4
      <4>1. j \in 1 .. Len(s) - 1 /\ j + 1 \in 1 .. Len(s) /\ k + 1 = Len(p) + (j + 1)
        BY <1>2, <3>1, <4>0
      <4>2. q[k + 1] = s[j + 1]
        BY <1>1, <4>1
      <4> QED
        BY <3>2, <4>1, <4>2 DEF IsWay
    <3> QED
      BY <3>3, <3>4
  <2> QED
    BY <1>2, <2>1, <2>2, <2>3
<1>4. Connected(q)
  BY <1>3 DEF Connected
<1> QED
  BY <1>1, <1>4 DEF q

-----------------------------------------------------------------------------
(* Every transition along the path backtrack found is possible.            *)
LEMMA PathIsPossible ==
  ASSUME TGIInv, pc = "done", opath # <<>>
  PROVE  /\ level = N /\ Len(opath) = N /\ N \in Nat \ {0}
         /\ \A i \in 1 .. N : opath[i].at \in Layer(i)
         /\ \A i \in 1 .. N - 1 : tps[i][opath[i].at][opath[i + 1].at] # Impossible
<1>1. /\ Len(opath) = N /\ N \in Nat \ {0}
      /\ IsBest(opath[N].at)
      /\ \A j \in 1 .. N : opath[j].layer = N - N + j
                            /\ opath[j].at \in Layer(opath[j].layer)
      /\ \A j \in 1 .. N - 1 :
           opath[j].at = prev[opath[j + 1].layer][opath[j + 1].at]
  <2>1. Len(opath) \in Nat \ {0}
    BY DEF TGIInv, TGTypeOK
  <2> QED
    BY <2>1 DEF TGIInv, Tracked
<1>2. \A j \in 1 .. N : opath[j].layer = j /\ opath[j].at \in Layer(j)
  BY <1>1
<1>3. \A j \in 1 .. N - 1 :
        j + 1 \in 1 .. N /\ opath[j].at = prev[j + 1][opath[j + 1].at]
  BY <1>1, <1>2
<1>4. cumu_prob[N][opath[N].at] # Impossible
  BY <1>1 DEF IsBest, LastLayer
<1>5. level = N
  <2>1. level = N \/ ~ connected
    BY DEF TGIInv, Seeded
  <2> QED
    BY <1>1, <1>2, <1>4, <2>1, LastLayerReached
<1>6. \A i \in 1 .. N - 1 :
        cumu_prob[i + 1][opath[i + 1].at] # Impossible =>
          /\ cumu_prob[i][opath[i].at] # Impossible
          /\ tps[i][opath[i].at][opath[i + 1].at] # Impossible
  <2> SUFFICES ASSUME NEW i \in 1 .. N - 1,
                      cumu_prob[i + 1][opath[i + 1].at] # Impossible
               PROVE  /\ cumu_prob[i][opath[i].at] # Impossible
                      /\ tps[i][opath[i].at][opath[i + 1].at] # Impossible
    OBVIOUS
  <2>1. i + 1 \in 1 .. N /\ opath[i + 1].at \in Layer(i + 1)
        /\ opath[i].at = prev[i + 1][opath[i + 1].at]
    BY <1>2, <1>3
  <2>2. cumu_prob[i + 1][opath[i + 1].at] = By(i, opath[i].at, opath[i + 1].at)
    BY <1>5, <2>1 DEF TGIInv, Settled
  <2> QED
    BY <2>2 DEF By, Plus
<1>7. \A i \in 1 .. N : cumu_prob[i][opath[i].at] # Impossible
  <2> DEFINE T == {N - i : i \in {x \in 1 .. N : cumu_prob[x][opath[x].at] = Impossible}}
  <2>1. SUFFICES ASSUME T # {} PROVE FALSE
    BY <1>1
  <2>2. T \in SUBSET Nat
    BY <1>1
  <2>3. PICK m \in T : \A k \in T : m <= k
    BY <2>1, <2>2, LeastElement
  <2>4. PICK i \in 1 .. N : m = N - i /\ cumu_prob[i][opath[i].at] = Impossible
    OBVIOUS
  <2>5. i \in 1 .. N - 1 /\ i + 1 \in 1 .. N
    BY <1>1, <1>4, <2>4
  <2>6. cumu_prob[i + 1][opath[i + 1].at] = Impossible
    BY <1>6, <2>4, <2>5
  <2>7. N - (i + 1) \in T
    BY <2>5, <2>6
  <2>8. m <= N - (i + 1)
    BY <2>3, <2>7
  <2> QED
    BY <1>1, <2>4, <2>8
<1> QED
  BY <1>1, <1>2, <1>3, <1>5, <1>6, <1>7

-----------------------------------------------------------------------------
(* The steps of match_traj. *)
LEMMA ScoredTransition ==
  ASSUME FMMInv, pc # "start", level < N
  PROVE  Transition \in Transitions(level)
<1>1. /\ level \in 1 .. N /\ level + 1 \in 1 .. N /\ level \in 1 .. N - 1
      /\ N \in Nat
  BY DEF FMMInv, TGIInv, TGTypeOK, N
<1>2. /\ tc[level] \in Seq(Candidate) /\ Len(tc[level]) = Len(ep[level])
      /\ tc[level + 1] \in Seq(Candidate) /\ Len(tc[level + 1]) = Len(ep[level + 1])
      /\ eu_dists[level] \in Nat
  <2>1. /\ tc \in Seq(Seq(Candidate)) /\ Len(tc) = N
        /\ \A i \in 1 .. N : Len(tc[i]) = Len(ep[i])
        /\ eu_dists \in [1 .. N - 1 -> Nat]
    BY DEF FMMInv, CandidatesOK
  <2>2. \A i \in 1 .. N : tc[i] \in Seq(Candidate)
    BY <2>1
  <2>3. eu_dists[level] \in Nat
    BY <1>1, <2>1
  <2> QED
    BY <1>1, <2>1, <2>2, <2>3
<1>3. ASSUME NEW a \in Layer(level), NEW b \in Layer(level + 1)
      PROVE  CalcTp(GetSpDist(tc[level][a], tc[level + 1][b]), eu_dists[level]) \in Cost
  <2>1. tc[level][a] \in Candidate /\ tc[level + 1][b] \in Candidate
    BY <1>2 DEF Layer
  <2>2. GetSpDist(tc[level][a], tc[level + 1][b]) \in Int
    BY <2>1, DistanceIsInt DEF FMMInv
  <2> QED
    BY <1>2, <2>2, TpIsCost
<1> QED
  BY <1>3 DEF Transition, Transitions

(* What a step that keeps the graph and the candidates leaves standing.    *)
LEMMA ScoresStand ==
  ASSUME FMMInv, UNCHANGED <<tgVars, network, ubodt, tc, eu_dists>>
  PROVE  /\ TGIInv' /\ CandidatesOK' /\ Scored'
         /\ network' \in Networks /\ ubodt' = Tables[network']
<1>1. /\ ep' = ep /\ tps' = tps /\ level' = level /\ pc' = pc
      /\ network' = network /\ ubodt' = ubodt /\ tc' = tc /\ eu_dists' = eu_dists
  BY DEF tgVars
<1>2. N' = N /\ \A i : Layer(i)' = Layer(i)
  BY <1>1 DEF N, Layer
<1>3. TGIInv'
  BY GraphStutters DEF FMMInv
<1>4. CandidatesOK'
  BY <1>1, <1>2 DEF FMMInv, CandidatesOK
<1>5. \A a, b : GetSpDist(a, b)' = GetSpDist(a, b)
  BY <1>1 DEF GetSpDist, BackBy, Allowed, DistanceOver, LookUp
<1>6. Scored'
  BY <1>1, <1>2, <1>5 DEF FMMInv, Scored
<1> QED
  BY <1>1, <1>3, <1>4, <1>6 DEF FMMInv

(* A trajectory whose points all have candidates begins with the first    *)
(* layer; of another the graph is left empty.                              *)
LEMMA CandidatesFound ==
  ASSUME TGIInv, SearchCandidates
  PROVE  /\ TGIInv' /\ CandidatesOK' /\ opath' = <<>>
         /\ stage = "match" /\ network' = network /\ ubodt' = ubodt
         /\ Len(tc') \in Nat \ {0} /\ DOMAIN tc' = 1 .. Len(tc')
         /\ \/ pc' = "start" /\ stage' = "done"
            \/ pc' = "update" /\ level' = 1 /\ stage' = "match" /\ N' = Len(tc')
<1>1. stage = "match" /\ pc = "start" /\ network' = network /\ ubodt' = ubodt
  BY DEF SearchCandidates
<1>2. PICK n \in 1 .. MaxLayers :
        tc' \in [1 .. n -> Points] /\ eu_dists' \in [1 .. n - 1 -> EuDists]
  BY DEF SearchCandidates
<1>3. n \in Nat \ {0}
  BY TransitionAssumption
<1>4. /\ tc' \in Seq(Seq(Candidate)) /\ Len(tc') = n /\ DOMAIN tc' = 1 .. n
      /\ \A i \in 1 .. n : tc'[i] \in Seq(Candidate)
  <2>1. \A i \in 1 .. n : tc'[i] \in Seq(Candidate)
    BY <1>2, MatchAssumption
  <2> QED
    BY <1>2, <1>3, <2>1
<1>5. eu_dists' \in [1 .. n - 1 -> Nat]
  BY <1>2, MatchAssumption
<1>6. CASE UNCHANGED tgVars /\ stage' = "done"
  <2>1. TGIInv' /\ pc' = "start"
    BY <1>1, <1>6, GraphStutters DEF tgVars
  <2>2. opath' = <<>>
    BY <2>1 DEF TGIInv, Tracked
  <2> QED
    BY <1>1, <1>3, <1>4, <1>6, <2>1, <2>2 DEF CandidatesOK
<1>7. CASE /\ \A i \in DOMAIN tc' : tc'[i] # <<>>
           /\ Construct([i \in DOMAIN tc' |-> [b \in DOMAIN tc'[i] |-> tc'[i][b].ep]])
           /\ stage' = stage
  <2> DEFINE e == [i \in 1 .. n |-> [b \in DOMAIN tc'[i] |-> tc'[i][b].ep]]
  <2>1. Construct(e)
    BY <1>4, <1>7
  <2>2. ASSUME NEW i \in 1 .. n
        PROVE  e[i] \in Seq(Cost) /\ e[i] # <<>> /\ Len(e[i]) = Len(tc'[i])
    <3>1. tc'[i] \in Seq(Candidate) /\ tc'[i] # <<>>
      BY <1>4, <1>7
    <3>2. Len(tc'[i]) \in Nat \ {0} /\ DOMAIN tc'[i] = 1 .. Len(tc'[i])
      BY <3>1
    <3>3. \A b \in 1 .. Len(tc'[i]) : tc'[i][b].ep \in Cost
      <4>1. \A b \in 1 .. Len(tc'[i]) : tc'[i][b] \in Candidate
        BY <3>1
      <4> QED
        BY <4>1 DEF Candidate
    <3>4. e[i] \in [1 .. Len(tc'[i]) -> Cost]
      BY <3>2, <3>3
    <3>5. e[i] \in Seq(Cost) /\ Len(e[i]) = Len(tc'[i])
      BY <3>2, <3>4
    <3> QED
      BY <3>2, <3>4, <3>5
  <2>3. e \in Seq(Seq(Cost)) /\ Len(e) = n
    BY <1>3, <2>2
  <2> HIDE DEF e
  <2>4. TGIInv'
    BY <1>3, <2>1, <2>2, <2>3, ConstructStep
  <2>5. ep' = e /\ level' = 1 /\ pc' = "update" /\ N' = n
    BY <2>1, <2>3 DEF Construct, N
  <2>6. CandidatesOK'
    BY <1>4, <1>5, <2>2, <2>5 DEF CandidatesOK
  <2>7. opath' = <<>>
    BY <2>1 DEF Construct
  <2> QED
    BY <1>1, <1>3, <1>4, <1>7, <2>4, <2>5, <2>6, <2>7
<1> QED
  BY <1>1, <1>6, <1>7 DEF SearchCandidates

LEMMA SearchStep ==
  ASSUME FMMInv, SearchCandidates
  PROVE  FMMInv'
<1>1. /\ TGIInv' /\ CandidatesOK' /\ opath' = <<>>
      /\ network' = network /\ ubodt' = ubodt
      /\ \/ pc' = "start" /\ stage' = "done"
         \/ pc' = "update" /\ level' = 1 /\ stage' = "match"
  BY CandidatesFound DEF FMMInv
<1>2. Scored' /\ ~ Completing'
  BY <1>1 DEF Scored, Completing
<1> QED
  BY <1>1, <1>2 DEF FMMInv

LEMMA MatchStep ==
  ASSUME FMMInv, MatchLayers
  PROVE  FMMInv'
<1>1. /\ stage = "match" /\ stage' = "match" /\ network' = network /\ ubodt' = ubodt
      /\ tc' = tc /\ eu_dists' = eu_dists
  BY DEF MatchLayers, matchVars
<1>2. ~ Completing'
  BY <1>1 DEF Completing
<1>3. \A a, b : GetSpDist(a, b)' = GetSpDist(a, b)
  BY <1>1 DEF GetSpDist, BackBy, Allowed, DistanceOver, LookUp
<1>4. CASE level < N /\ UpdateLayer(Transition)
  <2>1. /\ pc = "update" /\ pc' = "update" /\ ep' = ep /\ level' = level + 1
        /\ tps' = [i \in 1 .. level |-> IF i = level THEN Transition ELSE tps[i]]
    BY <1>4 DEF UpdateLayer, RunLayer
  <2>2. TGIInv'
    BY <1>4, <2>1, ScoredTransition, ForwardStep DEF FMMInv, UpdateLayer
  <2>3. N' = N /\ \A i : Layer(i)' = Layer(i)
    BY <2>1 DEF N, Layer
  <2>4. CandidatesOK'
    BY <1>1, <2>1, <2>3 DEF FMMInv, CandidatesOK
  <2>5. ASSUME NEW i \in 1 .. level, NEW a \in Layer(i), NEW b \in Layer(i + 1)
        PROVE  tps'[i][a][b] = CalcTp(GetSpDist(tc[i][a], tc[i + 1][b]), eu_dists[i])
    <3>1. CASE i = level
      <4>1. tps'[i] = Transition
        BY <2>1, <3>1
      <4> QED
        BY <3>1, <4>1 DEF Transition
    <3>2. CASE i # level
      <4>1. level \in Nat
        BY DEF FMMInv, TGIInv, TGTypeOK
      <4>2. i \in 1 .. level - 1 /\ tps'[i] = tps[i]
        BY <2>1, <3>2, <4>1
      <4> QED
        BY <2>1, <4>2 DEF FMMInv, Scored
    <3> QED
      BY <3>1, <3>2
  <2>6. \A i \in 1 .. level' - 1 : i \in 1 .. level
    BY <2>1 DEF FMMInv, TGIInv, TGTypeOK
  <2>7. Scored'
    BY <1>1, <1>3, <2>3, <2>5, <2>6 DEF Scored
  <2> QED
    BY <1>1, <1>2, <2>2, <2>4, <2>7 DEF FMMInv
<1>5. CASE Backtrack \/ TrackBack
  <2>1. TGIInv'
    BY <1>5, BacktrackStep, TrackBackStep DEF FMMInv
  <2>2. pc # "start" /\ ep' = ep /\ tps' = tps /\ level' = level
    BY <1>5 DEF Backtrack, TrackBack
  <2>3. N' = N /\ \A i : Layer(i)' = Layer(i)
    BY <2>2 DEF N, Layer
  <2>4. CandidatesOK'
    BY <1>1, <2>2, <2>3 DEF FMMInv, CandidatesOK
  <2>5. Scored'
    BY <1>1, <1>3, <2>2, <2>3 DEF FMMInv, Scored
  <2> QED
    BY <1>1, <1>2, <2>1, <2>4, <2>5 DEF FMMInv
<1> QED
  BY <1>4, <1>5 DEF MatchLayers

(* The points of a path are matched to candidates of theirs.               *)
LEMMA MatchedCandidates ==
  ASSUME TGIInv, CandidatesOK, pc = "done", opath # <<>>
  PROVE  N \in Nat \ {0} /\ \A i \in 1 .. N : Matched(i) \in Candidate
<1>1. N \in Nat \ {0} /\ \A i \in 1 .. N : opath[i].at \in Layer(i)
  BY PathIsPossible
<1>2. ASSUME NEW i \in 1 .. N PROVE Matched(i) \in Candidate
  <2>1. tc[i] \in Seq(Candidate) /\ Len(tc[i]) = Len(ep[i])
    BY DEF CandidatesOK
  <2>2. opath[i].at \in 1 .. Len(tc[i])
    BY <1>1, <2>1 DEF Layer
  <2> QED
    BY <2>1, <2>2 DEF Matched
<1> QED
  BY <1>1, <1>2

(* The path moves only along transitions that get_sp_dist found possible.  *)
LEMMA MatchedPair ==
  ASSUME FMMInv, pc = "done", opath # <<>>
  PROVE  /\ N \in Nat \ {0}
         /\ \A i \in 1 .. N : Matched(i) \in Candidate
         /\ \A i \in 1 .. N - 1 :
              CalcTp(GetSpDist(Matched(i), Matched(i + 1)), eu_dists[i]) # Impossible
<1>1. /\ level = N /\ N \in Nat \ {0}
      /\ \A i \in 1 .. N : opath[i].at \in Layer(i)
      /\ \A i \in 1 .. N - 1 : tps[i][opath[i].at][opath[i + 1].at] # Impossible
  BY PathIsPossible DEF FMMInv
<1>2. ASSUME NEW i \in 1 .. N - 1
      PROVE  CalcTp(GetSpDist(Matched(i), Matched(i + 1)), eu_dists[i]) # Impossible
  <2>1. i \in 1 .. N /\ i + 1 \in 1 .. N
    BY <1>1
  <2> QED
    BY <1>1, <2>1 DEF FMMInv, Scored, Matched
<1> QED
  BY <1>2, MatchedCandidates DEF FMMInv

(* The complete path begins with the edge of the first point.              *)
LEMMA PathBegun ==
  ASSUME TGIInv, CandidatesOK, BeginComplete, opath # <<>>
  PROVE  PathSoFar' /\ stage' = "complete" /\ pc' = "done" /\ opath' = opath
<1>1. /\ pc = "done" /\ pc' = pc /\ opath' = opath /\ network' = network
      /\ ep' = ep /\ tc' = tc
      /\ stage' = "complete" /\ cpath' = << Matched(1).edge >> /\ indices' = <<0>>
  BY DEF BeginComplete, tgVars
<1>2. N' = N /\ \A i : Matched(i)' = Matched(i)
  BY <1>1 DEF N, Matched
<1>3. N \in Nat \ {0} /\ Matched(1).edge \in EdgeIndex
  BY <1>1, MatchedCandidates DEF Candidate
<1>4. cpath' \in Seq(EdgeIndex) /\ Len(cpath') = 1 /\ cpath'[1] = Matched(1).edge
  BY <1>1, <1>3
<1>5. indices' \in Seq(Nat) /\ Len(indices') = 1 /\ indices'[1] = 0
  BY <1>1
<1>6. Connected(cpath)'
  BY <1>4 DEF Connected
<1> QED
  BY <1>1, <1>2, <1>3, <1>4, <1>5, <1>6 DEF PathSoFar

LEMMA BeginStep ==
  ASSUME FMMInv, BeginComplete
  PROVE  FMMInv'
<1>1. /\ TGIInv' /\ CandidatesOK' /\ Scored'
      /\ network' \in Networks /\ ubodt' = Tables[network']
  BY ScoresStand DEF BeginComplete
<1>2. pc' = "done" /\ opath' = opath
  BY DEF BeginComplete, tgVars
<1>3. CASE opath = <<>>
  BY <1>1, <1>2, <1>3 DEF BeginComplete, FMMInv, Completing
<1>4. CASE opath # <<>>
  BY <1>1, <1>2, <1>4, PathBegun DEF FMMInv
<1> QED
  BY <1>3, <1>4

(* Of a longer path, the part between two earlier places is what it was.   *)
LEMMA PartStays ==
  ASSUME NEW p \in Seq(EdgeIndex), NEW q \in Seq(EdgeIndex), Len(p) <= Len(q),
         \A k \in 1 .. Len(p) : q[k] = p[k],
         NEW i \in Nat, NEW j \in Nat, j <= Len(p)
  PROVE  SubSeq(q, i + 2, j) = SubSeq(p, i + 2, j)
<1> DEFINE u == SubSeq(p, i + 2, j)
           v == SubSeq(q, i + 2, j)
<1>1. CASE i + 2 > j
  BY <1>1
<1>2. CASE i + 2 <= j
  <2>1. /\ u \in Seq(EdgeIndex) /\ v \in Seq(EdgeIndex)
        /\ Len(u) = j - i - 1 /\ Len(v) = j - i - 1
        /\ \A k \in 1 .. j - i - 1 : u[k] = p[i + 1 + k] /\ v[k] = q[i + 1 + k]
    BY <1>2
  <2>2. \A k \in 1 .. j - i - 1 : i + 1 + k \in 1 .. Len(p)
    OBVIOUS
  <2> HIDE DEF u, v
  <2>3. \A k \in 1 .. j - i - 1 : u[k] = v[k]
    BY <2>1, <2>2
  <2>4. u = v
    BY <2>1, <2>3
  <2> QED
    BY <2>4 DEF u, v
<1> QED
  BY <1>1, <1>2

(* What is put between a path and its last edge lies between them.         *)
LEMMA PartAdded ==
  ASSUME NEW p \in Seq(EdgeIndex), NEW s \in Seq(EdgeIndex), NEW e \in EdgeIndex,
         p # <<>>
  PROVE  SubSeq(p \o s \o << e >>, Len(p) + 1, Len(p) + Len(s)) = s
<1> DEFINE q == p \o s \o << e >>
           v == SubSeq(q, Len(p) + 1, Len(p) + Len(s))
<1>1. /\ q \in Seq(EdgeIndex) /\ Len(q) = Len(p) + Len(s) + 1
      /\ \A k \in 1 .. Len(s) : q[Len(p) + k] = s[k]
  OBVIOUS
<1>2. Len(p) \in Nat /\ Len(s) \in Nat
  OBVIOUS
<1> HIDE DEF q
<1>3. /\ v \in Seq(EdgeIndex) /\ Len(v) = Len(s)
      /\ \A k \in 1 .. Len(s) : v[k] = q[Len(p) + k]
  BY <1>1, <1>2
<1> HIDE DEF v
<1>4. v = s
  BY <1>1, <1>3
<1> QED
  BY <1>4 DEF v, q

(* A turn of the loop that does not give up leads the path to the next     *)
(* point: it stays connected, and indices finds the point at its end.      *)
LEMMA PairAdded ==
  ASSUME network \in Networks, ubodt = Tables[network],
         N \in Nat \ {0}, \A i \in 1 .. N : Matched(i) \in Candidate,
         PathSoFar, CompletePair, stage' = "complete"
  PROVE  PathSoFar'
<1> DEFINE n == Len(indices)
           a == Matched(n)
           b == Matched(n + 1)
           from == network[a.edge].target
           to == network[b.edge].source
           segs == LookSpPath(from, to)
<1>2. n < N /\ opath' = opath /\ network' = network /\ ep' = ep /\ tc' = tc
  BY DEF CompletePair, tgVars
<1>3. N' = N /\ \A i : Matched(i)' = Matched(i)
  BY <1>2 DEF N, Matched
<1>4. PathSoFar
  OBVIOUS
<1>5. /\ n \in 1 .. N - 1 /\ n + 1 \in 1 .. N /\ n \in 1 .. N /\ N \in Nat /\ n \in Nat
      /\ a \in Candidate /\ b \in Candidate
  <2>1. N \in Nat \ {0} /\ n \in 1 .. N
    BY DEF PathSoFar
  <2>2. n \in 1 .. N - 1 /\ n + 1 \in 1 .. N
    BY <1>2, <2>1
  <2> QED
    BY <2>1, <2>2
<1>6. /\ cpath \in Seq(EdgeIndex) /\ cpath # <<>> /\ Connected(cpath)
      /\ Len(cpath) = indices[n] + 1 /\ cpath[Len(cpath)] = a.edge
      /\ indices \in Seq(Nat) /\ indices[n] \in Nat
  <2>1. indices[n] + 1 \in DOMAIN cpath /\ cpath[indices[n] + 1] = a.edge
    BY <1>4, <1>5 DEF PathSoFar
  <2>2. cpath \in Seq(EdgeIndex) /\ indices \in Seq(Nat) /\ indices[n] + 1 = Len(cpath)
        /\ Connected(cpath)
    BY <1>4 DEF PathSoFar
  <2>3. indices[n] \in Nat
    BY <1>5, <2>2
  <2> QED
    BY <2>1, <2>2, <2>3
<1>7. /\ a.edge \in EdgeIndex /\ b.edge \in EdgeIndex /\ from \in Node /\ to \in Node
  BY <1>5, NetworkEdge DEF Candidate
<1>8. ~ (Moves(a, b) /\ segs = <<>> /\ from # to)
  BY DEF CompletePair
<1>9. /\ cpath' = (IF Moves(a, b) THEN cpath \o segs \o << b.edge >> ELSE cpath)
      /\ indices' = Append(indices, Len(cpath') - 1)
  BY <1>8 DEF CompletePair, CurrentIdx
<1>10. /\ cpath' \in Seq(EdgeIndex) /\ Connected(cpath') /\ Len(cpath') >= Len(cpath)
       /\ \A k \in 1 .. Len(cpath) : cpath'[k] = cpath[k]
       /\ cpath'[Len(cpath')] = b.edge
       /\ Follows(cpath', a, b, Len(cpath) - 1, Len(cpath') - 1)
  <2>2. CASE Moves(a, b)
    <3>1. segs \in Seq(EdgeIndex) /\ IsWay(network, from, to, segs)
      BY <1>7, RowIsWay
    <3>2. segs # <<>> \/ from = to
      BY <1>8, <2>2
    <3>3. cpath' = cpath \o segs \o << b.edge >>
      BY <1>9, <2>2
    <3> HIDE DEF segs, b, a
    <3> HIDE DEF from, to
    <3>4. /\ cpath' \in Seq(EdgeIndex) /\ Len(cpath') = Len(cpath) + Len(segs) + 1
          /\ cpath'[Len(cpath')] = b.edge
          /\ \A k \in 1 .. Len(cpath) : cpath'[k] = cpath[k]
          /\ Connected(cpath')
      <4>1. from = network[cpath[Len(cpath)]].target /\ to = network[b.edge].source
        BY <1>6 DEF from, to
      <4>2. network \in Networks
        OBVIOUS
      <4> DEFINE e == b.edge
      <4>3. /\ e \in EdgeIndex /\ cpath \in Seq(EdgeIndex) /\ cpath # <<>>
            /\ Connected(cpath) /\ segs \in Seq(EdgeIndex)
        BY <1>6, <1>7, <3>1
      <4>4. /\ IsWay(network, network[cpath[Len(cpath)]].target, network[e].source, segs)
            /\ segs # <<>> \/ network[cpath[Len(cpath)]].target = network[e].source
        BY <3>1, <3>2, <4>1
      <4>5. cpath' = cpath \o segs \o << e >>
        BY <3>3
      <4> HIDE DEF e
      <4>6. /\ cpath' \in Seq(EdgeIndex) /\ Len(cpath') = Len(cpath) + Len(segs) + 1
            /\ cpath'[Len(cpath')] = e
            /\ \A k \in 1 .. Len(cpath) : cpath'[k] = cpath[k]
            /\ Connected(cpath')
        <5> DEFINE q == cpath \o segs \o << e >>
        <5>1. /\ q \in Seq(EdgeIndex) /\ Len(q) = Len(cpath) + Len(segs) + 1
              /\ q[Len(cpath) + Len(segs) + 1] = e
              /\ \A k \in 1 .. Len(cpath) : q[k] = cpath[k]
              /\ Connected(q)
          BY ONLY <4>2, <4>3, <4>4, ExtendPath
        <5>2. cpath' = q
          BY <4>5
        <5> HIDE DEF q
        <5> QED
          BY ONLY <5>1, <5>2 DEF Connected
      <4> QED
        BY <4>6 DEF e
    <3>5. Len(segs) \in Nat /\ Len(cpath) \in Nat
      BY <1>6, <3>1
    <3>6. SubSeq(cpath', Len(cpath) + 1, Len(cpath) + Len(segs)) = segs
      BY <1>6, <1>7, <3>1, <3>3, PartAdded
    <3>7. /\ Len(cpath) - 1 < Len(cpath') - 1 /\ (Len(cpath) - 1) + 2 = Len(cpath) + 1
          /\ Len(cpath') - 1 = Len(cpath) + Len(segs)
      BY <3>4, <3>5
    <3>8. Follows(cpath', a, b, Len(cpath) - 1, Len(cpath') - 1)
      BY <2>2, <3>2, <3>6, <3>7 DEF Follows, segs, from, to
    <3> QED
      BY <3>4, <3>5, <3>8
  <2>3. CASE ~ Moves(a, b)
    <3>1. cpath' = cpath
      BY <1>9, <2>3
    <3>2. a.edge = b.edge
      BY <2>3 DEF Moves
    <3>3. Follows(cpath', a, b, Len(cpath) - 1, Len(cpath') - 1)
      BY <2>3, <3>1 DEF Follows
    <3> HIDE DEF a, b
    <3> QED
      BY <1>6, <3>1, <3>2, <3>3
  <2> QED
    BY <2>2, <2>3
<1> DEFINE m == Len(cpath') - 1
<1>11. /\ m \in Nat /\ indices[n] <= m /\ m + 1 = Len(cpath') /\ m + 1 \in DOMAIN cpath'
       /\ Len(cpath) \in Nat /\ indices[n] = Len(cpath) - 1
  BY <1>6, <1>10
<1>12. indices' = Append(indices, m)
  BY <1>9
<1> HIDE DEF m, a, b, segs
<1>13. /\ indices' \in Seq(Nat) /\ Len(indices') = n + 1 /\ indices'[n + 1] = m
       /\ \A i \in 1 .. n : indices'[i] = indices[i]
  BY <1>6, <1>11, <1>12
<1> HIDE DEF n
<1> QED
  <2>1. ASSUME NEW i \in 1 .. n + 1
        PROVE  indices'[i] + 1 \in DOMAIN cpath' /\ cpath'[indices'[i] + 1] = Matched(i).edge
    <3>1. CASE i = n + 1
      BY <1>10, <1>11, <1>13, <3>1 DEF b
    <3>2. CASE i # n + 1
      <4>1. i \in 1 .. n
        BY <1>5, <3>2
      <4>2. /\ indices[i] + 1 \in DOMAIN cpath /\ cpath[indices[i] + 1] = Matched(i).edge
            /\ indices'[i] = indices[i]
        BY <1>4, <1>13, <4>1 DEF PathSoFar, n
      <4>3. DOMAIN cpath = 1 .. Len(cpath) /\ DOMAIN cpath' = 1 .. Len(cpath')
        BY <1>6, <1>10
      <4> QED
        BY <1>10, <1>11, <4>2, <4>3
    <3> QED
      BY <3>1, <3>2
  <2>2. ASSUME NEW i \in 1 .. n PROVE indices'[i] <= indices'[i + 1]
    <3>1. CASE i = n
      BY <1>5, <1>11, <1>13, <3>1
    <3>2. CASE i # n
      <4>1. i \in 1 .. n - 1 /\ i + 1 \in 1 .. n
        BY <1>5, <3>2
      <4>2. indices[i] <= indices[i + 1]
        BY <1>4, <4>1 DEF PathSoFar, n
      <4> QED
        BY <1>13, <4>1, <4>2
    <3> QED
      BY <3>1, <3>2
  <2>8. ASSUME NEW i \in 1 .. n
        PROVE  Follows(cpath', Matched(i), Matched(i + 1), indices'[i], indices'[i + 1])
    <3>1. CASE i = n
      <4>1. indices'[i] = Len(cpath) - 1 /\ indices'[i + 1] = Len(cpath') - 1
        BY <1>5, <1>11, <1>13, <3>1 DEF m
      <4> QED
        BY <1>10, <3>1, <4>1 DEF a, b
    <3>2. CASE i # n
      <4>1. i \in 1 .. n - 1 /\ i + 1 \in 1 .. n /\ i \in 1 .. n
        BY <1>5, <3>2
      <4>2. /\ Follows(cpath, Matched(i), Matched(i + 1), indices[i], indices[i + 1])
            /\ indices[i + 1] + 1 \in DOMAIN cpath
        BY <1>4, <4>1 DEF PathSoFar, n
      <4>3. indices'[i] = indices[i] /\ indices'[i + 1] = indices[i + 1]
        BY <1>13, <4>1
      <4>4. /\ indices[i] \in Nat /\ indices[i + 1] \in Nat
            /\ indices[i + 1] <= Len(cpath) /\ Len(cpath) <= Len(cpath')
        <5>1. indices[i] \in Nat /\ indices[i + 1] \in Nat
          <6>1. \A k \in 1 .. Len(indices) : indices[k] \in Nat
            BY SMTT(30), <1>6
          <6> QED
            BY <4>1, <6>1 DEF n
        <5>2. DOMAIN cpath = 1 .. Len(cpath) /\ Len(cpath) \in Nat
          BY <1>6
        <5> DEFINE x == indices[i + 1]
        <5>3. x \in Nat /\ x + 1 \in 1 .. Len(cpath)
          BY <4>2, <5>1, <5>2
        <5> HIDE DEF x
        <5>4. x <= Len(cpath)
          BY <5>2, <5>3
        <5> QED
          BY <1>10, <5>1, <5>4 DEF x
      <4>5. SubSeq(cpath', indices[i] + 2, indices[i + 1])
              = SubSeq(cpath, indices[i] + 2, indices[i + 1])
        <5> DEFINE x == indices[i]
                   y == indices[i + 1]
                   q == cpath'
        <5>1. /\ x \in Nat /\ y \in Nat /\ y <= Len(cpath) /\ q \in Seq(EdgeIndex)
              /\ cpath \in Seq(EdgeIndex) /\ Len(cpath) <= Len(q)
              /\ \A k \in 1 .. Len(cpath) : q[k] = cpath[k]
          BY <1>6, <1>10, <4>4
        <5> HIDE DEF x, y, q
        <5>2. SubSeq(q, x + 2, y) = SubSeq(cpath, x + 2, y)
          BY <5>1, PartStays
        <5> QED
          BY <5>2 DEF x, y, q
      <4> QED
        BY <4>2, <4>3, <4>5 DEF Follows
    <3> QED
      BY <3>1, <3>2
  <2>9. ASSUME NEW i \in 1 .. Len(indices') - 1
        PROVE  Follows(cpath, Matched(i), Matched(i + 1), indices[i], indices[i + 1])'
    <3>1. i \in 1 .. n
      BY <1>5, <1>13
    <3>2. Follows(cpath', Matched(i), Matched(i + 1), indices'[i], indices'[i + 1])
      BY <2>8, <3>1
    <3>3. ubodt' = ubodt
      BY DEF CompletePair
    <3> QED
      BY <1>2, <3>2, <3>3 DEF Follows, Moves, BackBy, Allowed, LookSpPath, Matched
  <2>3. indices'[1] = 0
    <3>1. indices[1] = 0
      BY <1>4 DEF PathSoFar
    <3>2. 1 \in 1 .. n
      BY <1>5
    <3> QED
      BY <1>13, <3>1, <3>2
  <2>4. Len(indices') \in 1 .. N' /\ indices'[Len(indices')] + 1 = Len(cpath')
    BY <1>3, <1>5, <1>11, <1>13
  <2>5. (n + 1) - 1 = n
    BY <1>5
  <2>6. /\ \A i \in 1 .. Len(indices') :
             indices'[i] + 1 \in DOMAIN cpath'
             /\ cpath'[indices'[i] + 1] = Matched(i)'.edge
        /\ \A i \in 1 .. Len(indices') - 1 : indices'[i] <= indices'[i + 1]
    BY <1>3, <1>13, <2>1, <2>2, <2>5
  <2>7. Connected(cpath)'
    BY <1>2, <1>10 DEF Connected
  <2> QED
    BY <1>10, <1>13, <2>3, <2>4, <2>6, <2>7, <2>9 DEF PathSoFar

LEMMA CompleteStep ==
  ASSUME FMMInv, CompletePair
  PROVE  FMMInv'
<1>1. /\ TGIInv' /\ CandidatesOK' /\ Scored'
      /\ network' \in Networks /\ ubodt' = Tables[network']
  BY ScoresStand DEF CompletePair
<1>2. stage = "complete" /\ Len(indices) < N /\ pc' = pc /\ opath' = opath
  BY DEF CompletePair, tgVars
<1>3. pc = "done" /\ opath # <<>> /\ PathSoFar
  BY <1>2 DEF FMMInv, Completing
<1>4. N \in Nat \ {0} /\ \A i \in 1 .. N : Matched(i) \in Candidate
  BY <1>3, MatchedPair
<1>5. stage' = "complete"
  <2> DEFINE n == Len(indices)
             a == Matched(n)
             b == Matched(n + 1)
  <2>1. n \in 1 .. N
    BY <1>3 DEF PathSoFar
  <2>2. n \in 1 .. N - 1 /\ n + 1 \in 1 .. N
    BY <1>2, <1>4, <2>1
  <2>3. a \in Candidate /\ b \in Candidate
        /\ CalcTp(GetSpDist(a, b), eu_dists[n]) # Impossible
    BY <1>3, <1>4, <2>1, <2>2, MatchedPair
  <2>4. ~ (Moves(a, b) /\ LookSpPath(network[a.edge].target, network[b.edge].source) = <<>>
             /\ network[a.edge].target # network[b.edge].source)
    BY <2>3, MovesOverAWay DEF FMMInv
  <2> QED
    BY <1>2, <2>4 DEF CompletePair
<1>6. PathSoFar'
  BY <1>3, <1>4, <1>5, PairAdded DEF FMMInv
<1> QED
  BY <1>1, <1>2, <1>3, <1>5, <1>6 DEF FMMInv

LEMMA PathStands ==
  ASSUME UNCHANGED <<tgVars, network, ubodt, tc, cpath, indices>>
  PROVE  PathSoFar' <=> PathSoFar
<1>1. /\ opath' = opath /\ network' = network /\ ep' = ep /\ tc' = tc
      /\ ubodt' = ubodt /\ cpath' = cpath /\ indices' = indices
  BY DEF tgVars
<1>2. N' = N /\ \A i : Matched(i)' = Matched(i)
  BY <1>1 DEF N, Matched
<1>3. ASSUME NEW i
      PROVE  Follows(cpath, Matched(i), Matched(i + 1), indices[i], indices[i + 1])'
               <=> Follows(cpath, Matched(i), Matched(i + 1), indices[i], indices[i + 1])
  BY <1>1 DEF Follows, Moves, BackBy, Allowed, LookSpPath, Matched
<1> QED
  BY <1>1, <1>2, <1>3 DEF PathSoFar, Connected

LEMMA QuietStep ==
  ASSUME FMMInv, Return \/ UNCHANGED fmmVars
  PROVE  FMMInv'
<1>1. /\ TGIInv' /\ CandidatesOK' /\ Scored'
      /\ network' \in Networks /\ ubodt' = Tables[network']
  BY ScoresStand DEF Return, fmmVars, matchVars
<1>2. /\ pc' = pc /\ opath' = opath /\ network' = network /\ ep' = ep /\ tc' = tc
      /\ cpath' = cpath /\ indices' = indices
  BY DEF Return, fmmVars, tgVars, matchVars
<1>3. N' = N
  BY <1>2 DEF N
<1>4. PathSoFar' <=> PathSoFar
  BY PathStands DEF Return, fmmVars, matchVars
<1>5. CASE Return
  BY <1>1, <1>2, <1>3, <1>4, <1>5 DEF Return, FMMInv, Completing
<1>6. CASE UNCHANGED fmmVars
  <2>1. stage' = stage
    BY <1>6 DEF fmmVars, matchVars
  <2> QED
    BY <1>1, <1>2, <1>3, <1>4, <2>1 DEF FMMInv, Completing
<1> QED
  BY <1>5, <1>6

-----------------------------------------------------------------------------
(***************************************************************************)
(* The invariant of match_traj on every network whose table leads where it *)
(* says: transitions are scored as get_sp_dist does, and the path          *)
(* construct_complete_path builds is connected at every point it passes.   *)
(***************************************************************************)
THEOREM MatchInvariance == FMMSpec => []FMMInv
<1>1. FMMInit => FMMInv
  <2> SUFFICES ASSUME FMMInit PROVE FMMInv
    OBVIOUS
  <2>1. TGIInv
    BY EmptyGraph DEF FMMInit
  <2>2. pc = "start" /\ opath = <<>> /\ stage = "match"
    BY DEF FMMInit, TGInit
  <2> QED
    BY <2>1, <2>2 DEF FMMInit, FMMInv, CandidatesOK, Scored, Completing
<1>2. FMMInv /\ [FMMNext]_fmmVars => FMMInv'
  BY SearchStep, MatchStep, BeginStep, CompleteStep, QuietStep DEF FMMNext, Returned
<1> QED
  BY <1>1, <1>2, PTL DEF FMMSpec

(***************************************************************************)
(* A matched trajectory gets a complete path: construct_complete_path      *)
(* never gives up on a transition the forward pass accepted.               *)
(***************************************************************************)
THEOREM MatchCompletes == FMMSpec => []MatchedIsCompleted
<1>1. FMMInv => MatchedIsCompleted
  BY DEF FMMInv, MatchedIsCompleted, IsMatched, Completing, PathSoFar
<1> QED
  BY <1>1, MatchInvariance, PTL

\* The complete path is connected on the network.
THEOREM MatchConnected == FMMSpec => []CompletePathConnected
<1>1. FMMInv => CompletePathConnected
  BY DEF FMMInv, CompletePathConnected, IsMatched, Completing, PathSoFar
<1> QED
  BY <1>1, MatchInvariance, PTL

\* indices finds the edge of every point in the complete path, in order.
THEOREM MatchIndexed == FMMSpec => []IndicesLocatePoints
<1>1. FMMInv => IndicesLocatePoints
  <2> SUFFICES ASSUME FMMInv, IsMatched
               PROVE  /\ Len(indices) = N /\ PathSoFar
    BY DEF IndicesLocatePoints, PathSoFar
  <2> QED
    BY DEF FMMInv, IsMatched, Completing
<1> QED
  BY <1>1, MatchInvariance, PTL

(* From a point to the next the path drives what get_sp_dist scored.       *)
LEMMA DrivenAsScored ==
  ASSUME network \in Networks, ubodt = Tables[network],
         NEW i, Matched(i) \in Candidate, Matched(i + 1) \in Candidate,
         indices[i] \in Nat, indices[i + 1] \in Nat,
         cpath[indices[i] + 1] = Matched(i).edge,
         Follows(cpath, Matched(i), Matched(i + 1), indices[i], indices[i + 1])
  PROVE  \/ AtTolerance(Matched(i), Matched(i + 1))
         \/ GetSpDist(Matched(i), Matched(i + 1)) = Driven(i)
<1> DEFINE a == Matched(i)
           b == Matched(i + 1)
           from == network[a.edge].target
           to == network[b.edge].source
           way == LookSpPath(from, to)
           len == network[a.edge].length
           back == TolUnit * (a.offset - b.offset)
           allowed == Tolerance * len
<1>1. /\ a.edge \in EdgeIndex /\ b.edge \in EdgeIndex
      /\ a.offset \in Nat /\ b.offset \in Nat
  BY DEF Candidate
<1>2. from \in Node /\ to \in Node /\ len \in Nat
  BY <1>1, NetworkEdge
<1>3. back \in Int /\ allowed \in Nat /\ (a.offset <= b.offset => back <= 0)
  <2> DEFINE d == a.offset - b.offset
  <2>1. d \in Int /\ (a.offset <= b.offset => d <= 0)
    BY <1>1
  <2>2. TolUnit \in Nat /\ Tolerance \in Nat
    BY MatchAssumption
  <2> HIDE DEF d, a, b
  <2>3. TolUnit * d \in Int /\ (d <= 0 => TolUnit * d <= 0)
    BY <2>1, <2>2
  <2>4. Tolerance * len \in Nat
    BY <1>2, <2>2
  <2> QED
    BY <2>1, <2>3, <2>4 DEF d
<1>4. Moves(a, b) <=> a.edge # b.edge \/ back > allowed
  BY DEF Moves, BackBy, Allowed
<1>5. AtTolerance(a, b) <=> a.edge = b.edge /\ a.offset > b.offset /\ back = allowed
  BY DEF AtTolerance, BackBy, Allowed
<1>6. GetSpDist(a, b) =
        (IF a.edge = b.edge /\ a.offset <= b.offset THEN b.offset - a.offset
         ELSE IF a.edge = b.edge /\ back < allowed THEN 0
         ELSE IF from = to THEN 0 + len - a.offset + b.offset
         ELSE IF LookUp(from, to) = NoRow THEN Unreachable
         ELSE LookUp(from, to).cost + len - a.offset + b.offset)
  BY DEF GetSpDist, BackBy, Allowed, DistanceOver
<1>7. CASE ~ Moves(a, b)
  <2>1. indices[i] = indices[i + 1]
    BY <1>7 DEF Follows
  <2>2. Driven(i) = IF a.offset <= b.offset THEN b.offset - a.offset ELSE 0
    BY <2>1 DEF Driven
  <2> HIDE DEF a, b, back, allowed, len, from, to
  <2> QED
    BY <1>1, <1>3, <1>4, <1>5, <1>6, <1>7, <2>2 DEF a, b
<1>8. CASE Moves(a, b)
  <2>1. /\ indices[i] < indices[i + 1]
        /\ SubSeq(cpath, indices[i] + 2, indices[i + 1]) = way
        /\ way # <<>> \/ from = to
    BY <1>8 DEF Follows
  <2>2. indices[i] + 1 # indices[i + 1] + 1 /\ (indices[i + 1] + 1) - 1 = indices[i + 1]
        /\ (indices[i] + 1) + 1 = indices[i] + 2
    BY <2>1
  <2>3. Driven(i) = len - a.offset + PathLength(network, way) + b.offset
    BY <2>1, <2>2 DEF Driven
  <2>4. /\ LookUp(from, to).cost \in Int
        /\ LookUp(from, to) # NoRow => from # to /\ PathLength(network, way) = LookUp(from, to).cost
    BY <1>2, RowIsWay
  <2>5. LookUp(from, to) = NoRow => way = <<>>
    BY DEF LookUp, LookSpPath, NoRow
  <2>6. PathLength(network, <<>>) = 0
    BY NoPathLength, MatchAssumption
  <2>7. ~ (a.edge = b.edge /\ a.offset <= b.offset) /\ ~ (a.edge = b.edge /\ back < allowed)
    <3> HIDE DEF a, b, back, allowed
    <3> QED
      BY <1>1, <1>3, <1>4, <1>8
  <2>8. CASE from = to
    <3>1. Driven(i) = len - a.offset + 0 + b.offset
      BY <2>3, <2>4, <2>5, <2>6, <2>8
    <3>2. GetSpDist(a, b) = 0 + len - a.offset + b.offset
      BY <1>6, <2>7, <2>8
    <3> HIDE DEF a, b, len
    <3> QED
      BY <1>1, <1>2, <3>1, <3>2 DEF a, b
  <2>9. CASE from # to
    <3>1. LookUp(from, to) # NoRow
      BY <2>1, <2>5, <2>9
    <3>2. PathLength(network, way) = LookUp(from, to).cost
      BY <2>4, <3>1
    <3>3. GetSpDist(a, b) = LookUp(from, to).cost + len - a.offset + b.offset
      BY <1>6, <2>7, <2>9, <3>1
    <3> DEFINE c == LookUp(from, to).cost
    <3>4. Driven(i) = len - a.offset + c + b.offset /\ c \in Int
      BY <2>3, <2>4, <3>2
    <3>5. GetSpDist(a, b) = c + len - a.offset + b.offset
      BY <3>3
    <3> HIDE DEF a, b, len, c
    <3> QED
      BY <1>1, <1>2, <3>4, <3>5 DEF a, b
  <2> QED
    BY <2>8, <2>9
<1> QED
  BY <1>7, <1>8

(***************************************************************************)
(* What get_sp_dist scored between two points is what the complete path    *)
(* drives between them, but for a reverse movement of just the tolerance.  *)
(***************************************************************************)
THEOREM MatchDriven == FMMSpec => []ScoredAsDriven
<1>1. FMMInv => ScoredAsDriven
  <2> SUFFICES ASSUME FMMInv, IsMatched, NEW i \in 1 .. N - 1
               PROVE  \/ AtTolerance(Matched(i), Matched(i + 1))
                      \/ GetSpDist(Matched(i), Matched(i + 1)) = Driven(i)
    BY DEF ScoredAsDriven
  <2>1. pc = "done" /\ opath # <<>> /\ PathSoFar /\ Len(indices) = N
    BY DEF FMMInv, IsMatched, Completing
  <2>2. N \in Nat \ {0} /\ \A j \in 1 .. N : Matched(j) \in Candidate
    BY <2>1, MatchedPair
  <2>3. i \in 1 .. N /\ i + 1 \in 1 .. N
    BY <2>2
  <2>4. /\ indices \in Seq(Nat) /\ cpath[indices[i] + 1] = Matched(i).edge
        /\ Follows(cpath, Matched(i), Matched(i + 1), indices[i], indices[i + 1])
    BY <2>1, <2>3 DEF PathSoFar
  <2>5. indices[i] \in Nat /\ indices[i + 1] \in Nat
    BY <2>1, <2>3, <2>4
  <2> QED
    BY <2>2, <2>3, <2>4, <2>5, DrivenAsScored DEF FMMInv
<1> QED
  BY <1>1, MatchInvariance, PTL

(***************************************************************************)
(* The points are matched along a most likely path of the transition graph *)
(* that get_sp_dist scores.                                                *)
(***************************************************************************)
THEOREM MatchMostLikely == FMMSpec => []MostLikely
<1>1. FMMInv => MostLikely
  BY TrackedIsMostLikely DEF FMMInv
<1> QED
  BY <1>1, MatchInvariance, PTL

-----------------------------------------------------------------------------
(***************************************************************************)
(* StMatch: its searches over the composite graph find the distances of    *)
(* the road, up to their bound, and never lower a node they have taken;    *)
(* what build_cpath returns is nothing or a connected path through the     *)
(* points, and nothing only for a trajectory that is unlikely anyhow.      *)
(*                                                                         *)
(* First the composite graph by itself: g is a network, t the candidates   *)
(* of a trajectory.                                                        *)
(***************************************************************************)

\* The candidates t lie on edges of g, those of a point on edges of their own.
OnRoad(g, t) ==
  /\ g \in Graph
  /\ t \in Seq(Seq(Candidate))
  /\ \A i \in DOMAIN t : \A b \in DOMAIN t[i] : t[i][b].offset <= g[t[i][b].edge].length

OneEach(t) ==
  \A i \in DOMAIN t : \A x, y \in DOMAIN t[i] : t[i][x].edge = t[i][y].edge => x = y

(* The candidates are numbered apart from each other and from the nodes.   *)
NumbersFrom(t, f) ==
  /\ f \in [0 .. Len(t) -> Nat]
  /\ \A k \in 1 .. Len(t) : f[k] = f[k - 1] + Len(t[k])

LEMMA NumbersExist ==
  ASSUME NEW t \in Seq(Seq(Candidate))
  PROVE  \E f : /\ NumbersFrom(t, f)
                /\ \A i \in DOMAIN t : \A b \in DOMAIN t[i] :
                     CG!CandidateNode(t, i, b) = NumNodes + f[i - 1] + b - 1
<1> DEFINE n == Len(t)
           Body(f) == [k \in 0 .. n |-> IF k = 0 THEN 0 ELSE f[k - 1] + Len(t[k])]
           before == CHOOSE f : f = Body(f)
           sizes == [k \in 1 .. n |-> Len(t[k])]
           step == [k \in 1 .. n |-> [x \in Nat |-> x + sizes[k]]]
<1>1. n \in Nat /\ sizes \in [1 .. n -> Nat]
  <2>1. \A k \in 1 .. n : t[k] \in Seq(Candidate)
    OBVIOUS
  <2> QED
    BY <2>1
<1>2. PICK f \in [0 .. n -> Nat] :
        f[0] = 0 /\ \A k \in 1 .. n : f[k] = f[k - 1] + sizes[k]
  <2> HIDE DEF n, sizes
  <2> QED
    BY <1>1, TotalsExist
<1>3. f = Body(f)
  <2>1. \A k \in 0 .. n : f[k] = Body(f)[k]
    BY <1>2
  <2> QED
    BY <2>1
<1>4. before = Body(before)
  <2> HIDE DEF Body
  <2> QED
    BY <1>3
<1>5. \A i, b : CG!CandidateNode(t, i, b) = NumNodes + before[i - 1] + b - 1
  BY DEF CG!CandidateNode
<1>6. before[0] = 0 /\ \A k \in 1 .. n : before[k] = before[k - 1] + sizes[k]
  <2> HIDE DEF before
  <2>1. 0 \in 0 .. n /\ \A k \in 1 .. n : k \in 0 .. n /\ k # 0
    BY <1>1
  <2> QED
    BY <1>4, <2>1
<1>7. before = [k \in 0 .. n |-> before[k]]
  <2> HIDE DEF before
  <2> QED
    BY <1>4
<1> HIDE DEF before
<1>8. step \in [1 .. n -> [Nat -> Nat]]
  BY <1>1
<1>9. \A k \in 1 .. n : before[k - 1] \in Nat => before[k] = step[k][before[k - 1]]
  BY <1>6
<1>10. Recurs(before, n, Nat, 0, step)
  <2> HIDE DEF n, step, sizes
  <2> QED
    BY <1>1, <1>6, <1>7, <1>8, <1>9, RecursionTyped DEF StepsWithin
<1>11. NumbersFrom(t, before)
  BY <1>6, <1>10 DEF Recurs, NumbersFrom
<1> QED
  BY <1>5, <1>11

LEMMA NumbersGrow ==
  ASSUME NEW t \in Seq(Seq(Candidate)), NEW f, NumbersFrom(t, f),
         NEW i \in 0 .. Len(t), NEW j \in 0 .. Len(t), i <= j
  PROVE  f[i] <= f[j]
<1> DEFINE T == {k \in 0 .. Len(t) : i <= k => f[i] <= f[k]}
<1>1. f \in [0 .. Len(t) -> Nat] /\ Len(t) \in Nat
  BY DEF NumbersFrom
<1>2. 0 \in T /\ f[i] \in Nat
  <2>1. f[i] \in Nat /\ 0 \in 0 .. Len(t) /\ i \in Nat
    BY <1>1
  <2>2. i <= 0 => i = 0
    BY <2>1
  <2> QED
    BY <2>1, <2>2
<1>3. ASSUME NEW k \in 1 .. Len(t), k - 1 \in T PROVE k \in T
  <2>1. Len(t[k]) \in Nat /\ f[k] = f[k - 1] + Len(t[k])
    BY <1>1 DEF NumbersFrom
  <2>5. k - 1 \in 0 .. Len(t) /\ k \in 0 .. Len(t)
    BY <1>1
  <2>2. f[k - 1] \in Nat /\ f[k] \in Nat /\ f[i] \in Nat
    BY <1>1, <1>2, <2>5
  <2>3. CASE i = k
    BY <2>2, <2>3
  <2>4. CASE i # k
    BY SMTT(30), <1>3, <2>1, <2>5, <2>2, <2>4
  <2> QED
    BY <2>3, <2>4
<1> HIDE DEF T
<1>4. \A k \in 0 .. Len(t) : k \in T
  BY <1>1, <1>2, <1>3, InductionUpTo
<1> QED
  BY <1>4 DEF T

LEMMA NumbersApart ==
  ASSUME NEW t \in Seq(Seq(Candidate)), NEW i \in DOMAIN t, NEW b \in DOMAIN t[i]
  PROVE  /\ CG!CandidateNode(t, i, b) \notin Node
         /\ CG!CandidateNode(t, i, b) \in CG!CompNode(t)
         /\ \A j \in DOMAIN t : \A c \in DOMAIN t[j] :
              CG!CandidateNode(t, i, b) = CG!CandidateNode(t, j, c) => i = j /\ b = c
<1>1. PICK f : /\ NumbersFrom(t, f)
               /\ \A k \in DOMAIN t : \A c \in DOMAIN t[k] :
                    CG!CandidateNode(t, k, c) = NumNodes + f[k - 1] + c - 1
  BY NumbersExist
<1>2. f \in [0 .. Len(t) -> Nat] /\ Len(t) \in Nat /\ NumNodes \in Nat
  BY <1>1, GraphAssumption DEF NumbersFrom
<1>3. ASSUME NEW k \in DOMAIN t, NEW c \in DOMAIN t[k]
      PROVE  /\ k \in 1 .. Len(t) /\ k - 1 \in 0 .. Len(t) /\ f[k - 1] \in Nat /\ f[k] \in Nat
             /\ c \in Nat \ {0} /\ f[k - 1] + c <= f[k]
  <2>1. k \in 1 .. Len(t) /\ k - 1 \in 0 .. Len(t) /\ k \in 0 .. Len(t)
    BY <1>2
  <2>2. t[k] \in Seq(Candidate)
    OBVIOUS
  <2>3. c \in 1 .. Len(t[k]) /\ Len(t[k]) \in Nat
    BY <2>2
  <2>4. f[k] = f[k - 1] + Len(t[k])
    BY <1>1, <2>1 DEF NumbersFrom
  <2>5. f[k - 1] \in Nat /\ f[k] \in Nat
    BY <1>2, <2>1
  <2> QED
    BY SMTT(30), <2>1, <2>3, <2>4, <2>5
<1>4. ASSUME NEW j \in DOMAIN t, NEW c \in DOMAIN t[j], NEW k \in DOMAIN t, NEW d \in DOMAIN t[k],
             j < k
      PROVE  CG!CandidateNode(t, j, c) # CG!CandidateNode(t, k, d)
  <2>0. j \in 1 .. Len(t) /\ k \in 1 .. Len(t) /\ k - 1 \in 0 .. Len(t)
    BY <1>3
  <2>1. j \in 0 .. Len(t) /\ k - 1 \in 0 .. Len(t) /\ j <= k - 1
    BY SMTT(30), <1>2, <1>4, <2>0
  <2>2. f[j] <= f[k - 1]
    BY <1>1, <2>1, NumbersGrow
  <2>3. /\ c \in Nat \ {0} /\ d \in Nat \ {0} /\ f[j - 1] + c <= f[j]
        /\ f[j - 1] \in Nat /\ f[j] \in Nat /\ f[k - 1] \in Nat
    BY <1>3
  <2>4. /\ CG!CandidateNode(t, j, c) = NumNodes + f[j - 1] + c - 1
        /\ CG!CandidateNode(t, k, d) = NumNodes + f[k - 1] + d - 1
    BY <1>1
  <2> DEFINE x == f[j - 1]
             y == f[j]
             z == f[k - 1]
  <2>5. x \in Nat /\ y \in Nat /\ z \in Nat /\ x + c <= y /\ y <= z
    BY <2>2, <2>3
  <2>6. /\ CG!CandidateNode(t, j, c) = NumNodes + x + c - 1
        /\ CG!CandidateNode(t, k, d) = NumNodes + z + d - 1
    BY <2>4
  <2> HIDE DEF x, y, z
  <2>7. NumNodes + x + c - 1 < NumNodes + z + d - 1
    BY <1>2, <2>3, <2>5
  <2> QED
    BY <1>2, <2>3, <2>5, <2>6, <2>7
<1>5. ASSUME NEW j \in DOMAIN t, NEW c \in DOMAIN t[j],
             CG!CandidateNode(t, i, b) = CG!CandidateNode(t, j, c)
      PROVE  i = j /\ b = c
  <2>1. i \in Nat /\ j \in Nat
    BY SMTT(30), <1>3
  <2>2. i = j
    BY <1>4, <1>5, <2>1
  <2>3. /\ NumNodes + f[i - 1] + b - 1 = NumNodes + f[i - 1] + c - 1
        /\ f[i - 1] \in Nat /\ b \in Nat /\ c \in Nat
    BY <1>1, <1>3, <1>5, <2>2
  <2> QED
    BY SMTT(30), <1>2, <2>2, <2>3
<1>6. CG!CandidateNode(t, i, b) \notin Node
  <2>1. /\ CG!CandidateNode(t, i, b) = NumNodes + f[i - 1] + b - 1
        /\ f[i - 1] \in Nat /\ b \in Nat \ {0}
    BY <1>1, <1>3
  <2> QED
    BY SMTT(30), <1>2, <2>1 DEF Node
<1>7. CG!CandidateNode(t, i, b) \in CG!CompNode(t)
  <2>1. [at |-> i, of |-> b] \in CG!Candidates(t)
    BY DEF CG!Candidates
  <2> QED
    BY <2>1 DEF CG!CompNode
<1> QED
  BY <1>5, <1>6, <1>7

-----------------------------------------------------------------------------
(* Ways over the road: they begin at the end of the edge of a, go on over  *)
(* an edge, and are no shorter than the rest of the edge of a.             *)
LEMMA RoadTypes ==
  ASSUME NEW g \in Graph, NEW a \in Candidate, NEW v \in Node
  PROVE  /\ a.edge \in EdgeIndex /\ a.offset \in Nat
         /\ g[a.edge].length \in Nat /\ g[a.edge].source \in Node /\ g[a.edge].target \in Node
         /\ DistanceFrom(g, g[a.edge].target)[v] \in Nat \cup {Unreachable}
<1>1. a.edge \in EdgeIndex /\ a.offset \in Nat
  BY DEF Candidate
<1> QED
  BY <1>1, EdgeTypes, DistanceIsLeast

LEMMA ByRoadStart ==
  ASSUME NEW g \in Graph, NEW a \in Candidate, NEW x \in Int,
         g[a.edge].length - a.offset <= x
  PROVE  ByRoad(g, a, g[a.edge].target, x)
<1> DEFINE s == g[a.edge].target
           d == DistanceFrom(g, s)[s]
<1>1. s \in Node /\ a.offset \in Nat /\ g[a.edge].length \in Nat
      /\ d \in Nat \cup {Unreachable}
  <2>1. a.edge \in EdgeIndex
    BY DEF Candidate
  <2>2. s \in Node
    BY <2>1, EdgeTypes
  <2> QED
    BY <2>2, RoadTypes
<1>2. HasRoute(g, s, s, 0)
  BY <1>1, EmptyRoute
<1>3. d # Unreachable /\ d <= 0
  BY <1>1, <1>2, DistanceIsLeast
<1>4. d = 0
  BY <1>1, <1>3
<1> QED
  BY <1>1, <1>3, <1>4 DEF ByRoad

LEMMA ByRoadEdge ==
  ASSUME NEW g \in Graph, NEW a \in Candidate, NEW u \in Node, NEW x \in Int,
         ByRoad(g, a, u, x), NEW e \in OutEdges(g, u)
  PROVE  ByRoad(g, a, g[e].target, x + g[e].length)
<1> DEFINE s == g[a.edge].target
           w == g[e].target
           d == DistanceFrom(g, s)[u]
           f == DistanceFrom(g, s)[w]
<1>1. e \in EdgeIndex
  BY DEF OutEdges
<1>2. w \in Node /\ g[e].length \in Nat
  BY <1>1, EdgeTypes
<1>3. /\ s \in Node /\ a.offset \in Nat /\ g[a.edge].length \in Nat
      /\ d \in Nat \cup {Unreachable} /\ f \in Nat \cup {Unreachable}
  BY <1>2, RoadTypes
<1>4. d # Unreachable /\ g[a.edge].length - a.offset + d <= x
  BY DEF ByRoad
<1>5. HasRoute(g, s, w, d + g[e].length)
  BY <1>3, <1>4, DistanceIsLeast, ExtendedRoute
<1>6. f # Unreachable /\ f <= d + g[e].length
  BY <1>2, <1>3, <1>5, DistanceIsLeast
<1>7. g[a.edge].length - a.offset + f <= x + g[e].length
  <2> DEFINE l == g[a.edge].length
             o == a.offset
             c == g[e].length
  <2>1. l \in Nat /\ o \in Nat /\ c \in Nat /\ d \in Nat /\ f \in Nat
        /\ f <= d + c /\ l - o + d <= x
    BY <1>2, <1>3, <1>4, <1>6
  <2>2. l - o + f <= x + c
    <3> HIDE DEF l, o, c, d, f
    <3> QED
      BY <2>1
  <2> QED
    BY <2>2
<1> QED
  BY <1>6, <1>7 DEF ByRoad

LEMMA ByRoadMore ==
  ASSUME NEW g \in Graph, NEW a \in Candidate, NEW v \in Node, NEW x \in Int, NEW y \in Int,
         ByRoad(g, a, v, x), x <= y
  PROVE  ByRoad(g, a, v, y)
<1> DEFINE l == g[a.edge].length
           o == a.offset
           d == DistanceFrom(g, g[a.edge].target)[v]
<1>1. l \in Nat /\ o \in Nat /\ d \in Nat \cup {Unreachable}
  BY RoadTypes
<1>2. d # Unreachable /\ l - o + d <= x
  BY DEF ByRoad
<1>3. l - o + d <= y
  <2>1. d \in Nat
    BY <1>1, <1>2
  <2> HIDE DEF l, o, d
  <2> QED
    BY <1>1, <1>2, <2>1
<1> QED
  BY <1>2, <1>3 DEF ByRoad

LEMMA ByRoadCosts ==
  ASSUME NEW g \in Graph, NEW a \in Candidate, NEW v \in Node, NEW x \in Int,
         ByRoad(g, a, v, x)
  PROVE  g[a.edge].length - a.offset <= x
<1> DEFINE l == g[a.edge].length
           o == a.offset
           d == DistanceFrom(g, g[a.edge].target)[v]
<1>1. l \in Nat /\ o \in Nat /\ d \in Nat \cup {Unreachable}
  BY RoadTypes
<1>2. d # Unreachable /\ l - o + d <= x
  BY DEF ByRoad
<1>3. d \in Nat
  BY <1>1, <1>2
<1>4. l - o <= x
  <2> HIDE DEF l, o, d
  <2> QED
    BY <1>1, <1>2, <1>3
<1> QED
  BY <1>4

-----------------------------------------------------------------------------
(* The arcs of the composite graph: an edge of the road, the way onto an   *)
(* edge to a candidate, the way from it to the end of the edge, and the    *)
(* way along an edge from the candidate of the point before.               *)
RoadArc(g, u, v, cost) ==
  u \in Node /\ \E e \in OutEdges(g, u) : v = g[e].target /\ cost = g[e].length

EntryArc(g, t, u, v, cost) ==
  \E i \in DOMAIN t : \E b \in DOMAIN t[i] :
    /\ u = g[t[i][b].edge].source /\ v = CG!CandidateNode(t, i, b) /\ cost = t[i][b].offset

ExitArc(g, t, u, v, cost) ==
  \E i \in DOMAIN t : \E b \in DOMAIN t[i] :
    /\ u = CG!CandidateNode(t, i, b) /\ v = g[t[i][b].edge].target
    /\ cost = g[t[i][b].edge].length - t[i][b].offset

AlongArc(g, t, u, v, cost) ==
  \E i \in DOMAIN t : \E b \in DOMAIN t[i] :
    /\ i # 1
    /\ v = CG!CandidateNode(t, i, b)
    /\ \E a \in CG!FirstOn(t[i - 1], t[i][b].edge) :
         u = CG!CandidateNode(t, i - 1, a) /\ cost \in CG!Along(g, t[i - 1][a], t[i][b])

LEMMA ArcKinds ==
  ASSUME NEW g \in Graph, NEW t \in Seq(Seq(Candidate)), NEW u, NEW r \in CG!OutArcs(g, t, u)
  PROVE  \/ RoadArc(g, u, r.target, r.cost) \/ EntryArc(g, t, u, r.target, r.cost)
         \/ ExitArc(g, t, u, r.target, r.cost) \/ AlongArc(g, t, u, r.target, r.cost)
<1>1. CASE r \in CG!DummyArcs(g, t) /\ r.source = u
  <2>1. PICK c \in CG!Candidates(t) : r \in CG!ArcsOf(g, t, c.at, c.of)
    BY <1>1 DEF CG!DummyArcs
  <2>2. c.at \in DOMAIN t /\ c.of \in DOMAIN t[c.at]
    BY DEF CG!Candidates
  <2> DEFINE to == t[c.at][c.of]
             n == CG!CandidateNode(t, c.at, c.of)
             before == IF c.at = 1 THEN {} ELSE CG!FirstOn(t[c.at - 1], to.edge)
             along(a) == { CG!Arc(CG!CandidateNode(t, c.at - 1, a), n, cost) :
                             cost \in CG!Along(g, t[c.at - 1][a], to) }
             ends == { CG!Arc(g[to.edge].source, n, to.offset),
                       CG!Arc(n, g[to.edge].target, g[to.edge].length - to.offset) }
  <2>3. CG!ArcsOf(g, t, c.at, c.of) = ends \cup UNION { along(a) : a \in before }
    BY DEF CG!ArcsOf
  <2>4. r \in ends \/ \E a \in before : r \in along(a)
    <3> HIDE DEF before, along, ends
    <3> QED
      BY <2>1, <2>3
  <2>5. CASE r = CG!Arc(g[to.edge].source, n, to.offset)
    <3>1. u = g[to.edge].source /\ r.target = n /\ r.cost = to.offset
      BY <1>1, <2>5 DEF CG!Arc
    <3> QED
      BY <2>2, <3>1 DEF EntryArc
  <2>6. CASE r = CG!Arc(n, g[to.edge].target, g[to.edge].length - to.offset)
    <3>1. u = n /\ r.target = g[to.edge].target /\ r.cost = g[to.edge].length - to.offset
      BY <1>1, <2>6 DEF CG!Arc
    <3> QED
      BY <2>2, <3>1 DEF ExitArc
  <2>7. ASSUME NEW a \in before, r \in along(a)
        PROVE  AlongArc(g, t, u, r.target, r.cost)
    <3>1. c.at # 1 /\ a \in CG!FirstOn(t[c.at - 1], to.edge)
      BY <2>7
    <3>2. PICK cost \in CG!Along(g, t[c.at - 1][a], to) :
            r = CG!Arc(CG!CandidateNode(t, c.at - 1, a), n, cost)
      BY <2>7
    <3>3. u = CG!CandidateNode(t, c.at - 1, a) /\ r.target = n /\ r.cost = cost
      BY <1>1, <3>2 DEF CG!Arc
    <3> QED
      BY <2>2, <3>1, <3>2, <3>3 DEF AlongArc
  <2> QED
    BY <2>4, <2>5, <2>6, <2>7
<1>2. CASE \E e \in CG!OutEdges(g, u) : r = CG!Arc(u, g[e].target, g[e].length)
  <2>1. PICK e \in CG!OutEdges(g, u) : r = CG!Arc(u, g[e].target, g[e].length)
    BY <1>2
  <2>2. e \in OutEdges(g, u) /\ e \in EdgeIndex /\ g[e].source = u
    BY DEF CG!OutEdges, CG!EdgeIndex, OutEdges, EdgeIndex
  <2>3. u \in Node
    BY <2>2, EdgeTypes
  <2> QED
    BY <2>1, <2>2, <2>3 DEF CG!Arc, RoadArc
<1> QED
  BY <1>1, <1>2 DEF CG!OutArcs

(* Each of them is there.                                                  *)
LEMMA ArcsThere ==
  ASSUME NEW g \in Graph, NEW t \in Seq(Seq(Candidate)), NEW u, NEW v, NEW cost,
         \/ RoadArc(g, u, v, cost) \/ EntryArc(g, t, u, v, cost)
         \/ ExitArc(g, t, u, v, cost) \/ AlongArc(g, t, u, v, cost)
  PROVE  \E r \in CG!OutArcs(g, t, u) : r.target = v /\ r.cost = cost
<1> DEFINE r == CG!Arc(u, v, cost)
<1>1. r.source = u /\ r.target = v /\ r.cost = cost
  BY DEF CG!Arc
<1>2. CASE RoadArc(g, u, v, cost)
  <2>1. PICK e \in OutEdges(g, u) : v = g[e].target /\ cost = g[e].length
    BY <1>2 DEF RoadArc
  <2>2. e \in CG!OutEdges(g, u)
    BY DEF CG!OutEdges, CG!EdgeIndex, OutEdges, EdgeIndex
  <2>3. r \in CG!OutArcs(g, t, u)
    BY <2>1, <2>2 DEF CG!OutArcs
  <2> QED
    BY <1>1, <2>3
<1>3. ASSUME NEW i \in DOMAIN t, NEW b \in DOMAIN t[i], r \in CG!ArcsOf(g, t, i, b)
      PROVE  r \in CG!OutArcs(g, t, u)
  <2>1. [at |-> i, of |-> b] \in CG!Candidates(t)
    BY DEF CG!Candidates
  <2>2. r \in CG!DummyArcs(g, t)
    BY <1>3, <2>1 DEF CG!DummyArcs
  <2> QED
    BY <1>1, <2>2 DEF CG!OutArcs
<1>4. CASE EntryArc(g, t, u, v, cost)
  <2>1. PICK i \in DOMAIN t : \E b \in DOMAIN t[i] :
          /\ u = g[t[i][b].edge].source /\ v = CG!CandidateNode(t, i, b) /\ cost = t[i][b].offset
    BY <1>4 DEF EntryArc
  <2>2. PICK b \in DOMAIN t[i] :
          /\ u = g[t[i][b].edge].source /\ v = CG!CandidateNode(t, i, b) /\ cost = t[i][b].offset
    BY <2>1
  <2>3. r \in CG!ArcsOf(g, t, i, b)
    BY <2>2 DEF CG!ArcsOf
  <2> QED
    BY <1>1, <1>3, <2>3
<1>5. CASE ExitArc(g, t, u, v, cost)
  <2>1. PICK i \in DOMAIN t : \E b \in DOMAIN t[i] :
          /\ u = CG!CandidateNode(t, i, b) /\ v = g[t[i][b].edge].target
          /\ cost = g[t[i][b].edge].length - t[i][b].offset
    BY <1>5 DEF ExitArc
  <2>2. PICK b \in DOMAIN t[i] :
          /\ u = CG!CandidateNode(t, i, b) /\ v = g[t[i][b].edge].target
          /\ cost = g[t[i][b].edge].length - t[i][b].offset
    BY <2>1
  <2>3. r \in CG!ArcsOf(g, t, i, b)
    BY <2>2 DEF CG!ArcsOf
  <2> QED
    BY <1>1, <1>3, <2>3
<1>6. CASE AlongArc(g, t, u, v, cost)
  <2>1. PICK i \in DOMAIN t : \E b \in DOMAIN t[i] :
          /\ i # 1
          /\ v = CG!CandidateNode(t, i, b)
          /\ \E a \in CG!FirstOn(t[i - 1], t[i][b].edge) :
               u = CG!CandidateNode(t, i - 1, a) /\ cost \in CG!Along(g, t[i - 1][a], t[i][b])
    BY <1>6 DEF AlongArc
  <2>2. PICK b \in DOMAIN t[i] :
          /\ v = CG!CandidateNode(t, i, b)
          /\ \E a \in CG!FirstOn(t[i - 1], t[i][b].edge) :
               u = CG!CandidateNode(t, i - 1, a) /\ cost \in CG!Along(g, t[i - 1][a], t[i][b])
    BY <2>1
  <2>3. PICK a \in CG!FirstOn(t[i - 1], t[i][b].edge) :
          u = CG!CandidateNode(t, i - 1, a) /\ cost \in CG!Along(g, t[i - 1][a], t[i][b])
    BY <2>2
  <2> DEFINE before == IF i = 1 THEN {} ELSE CG!FirstOn(t[i - 1], t[i][b].edge)
             n == CG!CandidateNode(t, i, b)
             along(k) == { CG!Arc(CG!CandidateNode(t, i - 1, k), n, c) :
                             c \in CG!Along(g, t[i - 1][k], t[i][b]) }
  <2>4. UNION { along(k) : k \in before } \subseteq CG!ArcsOf(g, t, i, b)
    BY DEF CG!ArcsOf
  <2>5. a \in before /\ r \in along(a)
    BY <2>1, <2>2, <2>3
  <2>6. r \in CG!ArcsOf(g, t, i, b)
    <3> HIDE DEF before, along
    <3> QED
      BY <2>4, <2>5
  <2> QED
    BY <1>1, <1>3, <2>6
<1> QED
  BY <1>2, <1>4, <1>5, <1>6

-----------------------------------------------------------------------------
(* What a candidate and its edge are made of.                              *)
LEMMA OnRoadTypes ==
  ASSUME NEW g, NEW t, OnRoad(g, t), NEW i \in DOMAIN t, NEW b \in DOMAIN t[i]
  PROVE  LET c == t[i][b] IN
         /\ c \in Candidate /\ c.edge \in EdgeIndex /\ c.offset \in Nat
         /\ g[c.edge].source \in Node /\ g[c.edge].target \in Node
         /\ g[c.edge].length \in Nat /\ c.offset <= g[c.edge].length
         /\ g[c.edge].length - c.offset \in Nat
         /\ i \in Nat \ {0} /\ i \in 1 .. Len(t)
<1>1. t[i] \in Seq(Candidate) /\ g \in Graph
  BY DEF OnRoad
<1>2. t[i][b] \in Candidate
  BY <1>1
<1>3. t[i][b].edge \in EdgeIndex /\ t[i][b].offset \in Nat
  BY <1>2 DEF Candidate
<1>4. t[i][b].offset <= g[t[i][b].edge].length
  BY DEF OnRoad
<1>5. i \in Nat \ {0} /\ i \in 1 .. Len(t)
  BY DEF OnRoad
<1>6. /\ g[t[i][b].edge].source \in Node /\ g[t[i][b].edge].target \in Node
      /\ g[t[i][b].edge].length \in Nat
  BY <1>1, <1>3, EdgeTypes
<1> QED
  BY <1>2, <1>3, <1>4, <1>5, <1>6

LEMMA AlongCosts ==
  ASSUME NEW g, NEW from \in Candidate, NEW to \in Candidate,
         NEW cost \in CG!Along(g, from, to)
  PROVE  cost \in Nat /\ to.offset - from.offset <= cost
<1>1. from.offset \in Nat /\ to.offset \in Nat
  BY DEF Candidate
<1>2. CASE from.offset <= to.offset
  BY <1>1, <1>2 DEF CG!Along
<1>3. CASE ~ (from.offset <= to.offset)
  <2>1. cost = 0
    BY <1>3 DEF CG!Along
  <2> QED
    BY <1>1, <1>3, <2>1
<1> QED
  BY <1>2, <1>3

(* A node is reached as what it stands for.                                *)
LEMMA NodeReached ==
  ASSUME NEW g, NEW t, OnRoad(g, t), NEW from, NEW n, NEW v \in Node, NEW x,
         ByRoad(g, t[from][n], v, x)
  PROVE  Reaches(g, t, from, n, v, x)
<1>1. \A i \in DOMAIN t : \A b \in DOMAIN t[i] : v # CG!CandidateNode(t, i, b)
  BY NumbersApart DEF OnRoad
<1> QED
  BY <1>1 DEF Reaches

LEMMA CandidateReached ==
  ASSUME NEW g, NEW t, OnRoad(g, t), NEW from, NEW n, NEW i \in DOMAIN t,
         NEW b \in DOMAIN t[i], NEW x, ToCandidate(g, from, t[from][n], i, t[i][b], x)
  PROVE  Reaches(g, t, from, n, CG!CandidateNode(t, i, b), x)
<1> DEFINE v == CG!CandidateNode(t, i, b)
<1>1. v \notin Node /\ \A j \in DOMAIN t : \A c \in DOMAIN t[j] :
                         v = CG!CandidateNode(t, j, c) => i = j /\ b = c
  BY NumbersApart DEF OnRoad
<1> HIDE DEF v
<1>2. \A j \in DOMAIN t : \A c \in DOMAIN t[j] :
        v = CG!CandidateNode(t, j, c) => ToCandidate(g, from, t[from][n], j, t[j][c], x)
  BY <1>1
<1>3. Reaches(g, t, from, n, v, x)
  BY <1>1, <1>2 DEF Reaches
<1> QED
  BY <1>3 DEF v

(* From the end of its edge a candidate is reached no sooner than the end  *)
(* of the edge of a is.                                                    *)
LEMMA ExitReached ==
  ASSUME NEW g, NEW t, OnRoad(g, t), OneEach(t),
         NEW from \in DOMAIN t, NEW n \in DOMAIN t[from],
         NEW i \in DOMAIN t, NEW b \in DOMAIN t[i], NEW x \in Nat,
         ToCandidate(g, from, t[from][n], i, t[i][b], x)
  PROVE  LET c == t[i][b] IN
         ByRoad(g, t[from][n], g[c.edge].target, x + (g[c.edge].length - c.offset))
<1> DEFINE a == t[from][n]
           c == t[i][b]
           l == g[c.edge].length
           o == c.offset
           p == a.offset
<1>1. /\ a \in Candidate /\ c \in Candidate /\ g \in Graph /\ c.edge \in EdgeIndex
      /\ l \in Nat /\ o \in Nat /\ p \in Nat /\ o <= l
      /\ g[c.edge].source \in Node /\ g[c.edge].target \in Node
      /\ g[a.edge].length \in Nat /\ p <= g[a.edge].length
      /\ i \in Nat /\ from \in Nat
  BY OnRoadTypes DEF OnRoad
<1>2. CASE ByRoad(g, a, g[c.edge].source, x - o)
  <2>1. c.edge \in OutEdges(g, g[c.edge].source)
    BY <1>1 DEF OutEdges
  <2>2. ByRoad(g, a, g[c.edge].target, (x - o) + l)
    BY <1>1, <1>2, <2>1, ByRoadEdge
  <2>3. (x - o) + l = x + (l - o)
    BY <1>1
  <2> QED
    BY <2>2, <2>3
<1>3. CASE c.edge = a.edge /\ l - p <= x + (l - o)
  <2>1. x + (l - o) \in Int
    BY <1>1
  <2>2. ByRoad(g, a, g[a.edge].target, x + (l - o))
    BY <1>1, <1>3, <2>1, ByRoadStart
  <2> QED
    BY <1>3, <2>2
<1>4. ASSUME o - p <= x PROVE l - p <= x + (l - o)
  <2> HIDE DEF l, o, p
  <2> QED
    BY <1>1, <1>4
<1>5. CASE c.edge = a.edge /\ i = from
  <2>1. b = n
    BY <1>5 DEF OneEach
  <2>2. o - p <= x
    BY <1>1, <1>5, <2>1
  <2> QED
    BY <1>3, <1>4, <1>5, <2>2
<1>6. CASE c.edge = a.edge /\ i = from + 1 /\ \E cost \in CG!Along(g, a, c) : cost <= x
  <2>1. PICK cost \in CG!Along(g, a, c) : cost <= x
    BY <1>6
  <2>2. cost \in Nat /\ o - p <= cost
    BY <1>1, AlongCosts
  <2>3. o - p <= x
    <3> HIDE DEF o, p
    <3> QED
      BY <1>1, <2>1, <2>2
  <2> QED
    BY <1>3, <1>4, <1>6, <2>3
<1>7. CASE c.edge = a.edge /\ o - p <= x
  BY <1>3, <1>4, <1>7
<1> QED
  BY <1>2, <1>5, <1>6, <1>7 DEF ToCandidate

(* Along its edge a candidate of one point leads to that of the next.      *)
LEMMA AlongReached ==
  ASSUME NEW g, NEW t, OnRoad(g, t), OneEach(t),
         NEW from \in DOMAIN t, NEW n \in DOMAIN t[from],
         NEW i \in DOMAIN t, NEW b \in DOMAIN t[i],
         NEW j \in DOMAIN t, NEW k \in DOMAIN t[j], i = j + 1,
         t[j][k].edge = t[i][b].edge, NEW cost \in CG!Along(g, t[j][k], t[i][b]),
         NEW x \in Nat, ToCandidate(g, from, t[from][n], j, t[j][k], x)
  PROVE  ToCandidate(g, from, t[from][n], i, t[i][b], x + cost)
<1> DEFINE a == t[from][n]
           c == t[i][b]
           d == t[j][k]
           o == c.offset
           p == d.offset
           q == a.offset
           y == x + cost
<1>1. /\ a \in Candidate /\ c \in Candidate /\ d \in Candidate /\ g \in Graph
      /\ g[c.edge].source \in Node
      /\ o \in Nat /\ p \in Nat /\ q \in Nat
      /\ i \in Nat /\ from \in Nat /\ j \in Nat
  BY OnRoadTypes DEF OnRoad
<1>2. cost \in Nat /\ o - p <= cost
  BY <1>1, AlongCosts
<1>3. y \in Nat /\ cost <= y /\ x - p <= y - o
  <2> HIDE DEF o, p
  <2> QED
    BY <1>1, <1>2
<1>4. CASE ByRoad(g, a, g[d.edge].source, x - p)
  <2>1. ByRoad(g, a, g[c.edge].source, y - o)
    BY <1>1, <1>3, <1>4, ByRoadMore
  <2> QED
    BY <2>1 DEF ToCandidate
<1>5. CASE d.edge = a.edge /\ j = from
  <2>1. k = n
    BY <1>5 DEF OneEach
  <2>2. cost \in CG!Along(g, a, c) /\ i = from + 1 /\ c.edge = a.edge
    BY <1>5, <2>1
  <2> QED
    BY <1>3, <2>2 DEF ToCandidate
<1>6. ASSUME d.edge = a.edge, j >= from + 1, p - q <= x
      PROVE  ToCandidate(g, from, a, i, c, y)
  <2>1. i > from + 1 /\ c.edge = a.edge
    BY <1>1, <1>6
  <2>2. o - q <= y
    <3> HIDE DEF o, p, q
    <3> QED
      BY <1>1, <1>2, <1>6
  <2> QED
    BY <1>3, <2>1, <2>2 DEF ToCandidate
<1>7. CASE d.edge = a.edge /\ j = from + 1 /\ \E h \in CG!Along(g, a, d) : h <= x
  <2>1. PICK h \in CG!Along(g, a, d) : h <= x
    BY <1>7
  <2>2. h \in Nat /\ p - q <= h
    BY <1>1, AlongCosts
  <2>3. p - q <= x
    <3> HIDE DEF p, q
    <3> QED
      BY <1>1, <2>1, <2>2
  <2> QED
    BY <1>1, <1>6, <1>7, <2>3
<1>8. CASE d.edge = a.edge /\ j > from + 1 /\ p - q <= x
  BY <1>1, <1>6, <1>8
<1> QED
  BY <1>4, <1>5, <1>7, <1>8 DEF ToCandidate

(* Every arc goes on from where a way has led.                             *)
LEMMA ReachedByArc ==
  ASSUME NEW g, NEW t, OnRoad(g, t), OneEach(t),
         NEW from \in DOMAIN t, NEW n \in DOMAIN t[from],
         NEW u, NEW x \in Nat, Reaches(g, t, from, n, u, x),
         NEW r \in CG!OutArcs(g, t, u)
  PROVE  Reaches(g, t, from, n, r.target, x + r.cost)
<1> DEFINE a == t[from][n]
           v == r.target
           cost == r.cost
<1>1. g \in Graph /\ t \in Seq(Seq(Candidate)) /\ a \in Candidate
  BY OnRoadTypes DEF OnRoad
<1>2. \/ RoadArc(g, u, v, cost) \/ EntryArc(g, t, u, v, cost)
      \/ ExitArc(g, t, u, v, cost) \/ AlongArc(g, t, u, v, cost)
  BY <1>1, ArcKinds
<1>3. CASE RoadArc(g, u, v, cost)
  <2>1. PICK e \in OutEdges(g, u) : v = g[e].target /\ cost = g[e].length
    BY <1>3 DEF RoadArc
  <2>2. u \in Node /\ e \in EdgeIndex
    BY <1>3 DEF RoadArc, OutEdges
  <2>3. ByRoad(g, a, u, x)
    BY <2>2 DEF Reaches
  <2>4. ByRoad(g, a, v, x + cost) /\ v \in Node
    BY <1>1, <2>1, <2>2, <2>3, ByRoadEdge, EdgeTypes
  <2> QED
    BY <2>4, NodeReached
<1>4. CASE EntryArc(g, t, u, v, cost)
  <2>1. PICK i \in DOMAIN t : \E b \in DOMAIN t[i] :
          /\ u = g[t[i][b].edge].source /\ v = CG!CandidateNode(t, i, b) /\ cost = t[i][b].offset
    BY <1>4 DEF EntryArc
  <2>2. PICK b \in DOMAIN t[i] :
          /\ u = g[t[i][b].edge].source /\ v = CG!CandidateNode(t, i, b) /\ cost = t[i][b].offset
    BY <2>1
  <2>3. u \in Node /\ cost \in Nat
    BY <2>2, OnRoadTypes
  <2>4. ByRoad(g, a, u, x) /\ (x + cost) - cost = x
    BY <2>3 DEF Reaches
  <2>5. ToCandidate(g, from, a, i, t[i][b], x + cost)
    BY <2>2, <2>4 DEF ToCandidate
  <2> QED
    BY <2>2, <2>5, CandidateReached
<1>5. CASE ExitArc(g, t, u, v, cost)
  <2>1. PICK i \in DOMAIN t : \E b \in DOMAIN t[i] :
          /\ u = CG!CandidateNode(t, i, b) /\ v = g[t[i][b].edge].target
          /\ cost = g[t[i][b].edge].length - t[i][b].offset
    BY <1>5 DEF ExitArc
  <2>2. PICK b \in DOMAIN t[i] :
          /\ u = CG!CandidateNode(t, i, b) /\ v = g[t[i][b].edge].target
          /\ cost = g[t[i][b].edge].length - t[i][b].offset
    BY <2>1
  <2>3. ToCandidate(g, from, a, i, t[i][b], x)
    BY <2>2 DEF Reaches
  <2>4. ByRoad(g, a, v, x + cost) /\ v \in Node
    BY <2>2, <2>3, ExitReached, OnRoadTypes
  <2> QED
    BY <2>4, NodeReached
<1>6. CASE AlongArc(g, t, u, v, cost)
  <2>1. PICK i \in DOMAIN t : \E b \in DOMAIN t[i] :
          /\ i # 1
          /\ v = CG!CandidateNode(t, i, b)
          /\ \E k \in CG!FirstOn(t[i - 1], t[i][b].edge) :
               u = CG!CandidateNode(t, i - 1, k) /\ cost \in CG!Along(g, t[i - 1][k], t[i][b])
    BY <1>6 DEF AlongArc
  <2>2. PICK b \in DOMAIN t[i] :
          /\ v = CG!CandidateNode(t, i, b)
          /\ \E k \in CG!FirstOn(t[i - 1], t[i][b].edge) :
               u = CG!CandidateNode(t, i - 1, k) /\ cost \in CG!Along(g, t[i - 1][k], t[i][b])
    BY <2>1
  <2>3. PICK k \in CG!FirstOn(t[i - 1], t[i][b].edge) :
          u = CG!CandidateNode(t, i - 1, k) /\ cost \in CG!Along(g, t[i - 1][k], t[i][b])
    BY <2>2
  <2>4. PICK j \in DOMAIN t : i = j + 1 /\ j = i - 1
    <3>1. i \in 1 .. Len(t) /\ i # 1 /\ DOMAIN t = 1 .. Len(t) /\ Len(t) \in Nat
      BY <1>1, <2>1
    <3> QED
      BY <3>1
  <2>5. k \in DOMAIN t[j] /\ t[j][k].edge = t[i][b].edge
    BY <2>3, <2>4 DEF CG!FirstOn
  <2>6. ToCandidate(g, from, a, j, t[j][k], x) /\ cost \in CG!Along(g, t[j][k], t[i][b])
    BY <2>3, <2>4, <2>5 DEF Reaches
  <2>7. ToCandidate(g, from, a, i, t[i][b], x + cost)
    <3> HIDE DEF a, v, cost
    <3>1. ToCandidate(g, from, t[from][n], j, t[j][k], x)
      BY <2>6 DEF a
    <3> QED
      BY <2>4, <2>5, <2>6, <3>1, AlongReached DEF a
  <2> QED
    BY <2>2, <2>7, CandidateReached
<1> QED
  BY <1>2, <1>3, <1>4, <1>5, <1>6

-----------------------------------------------------------------------------
(* The search as it goes: the node taken is the nearest, its arcs are      *)
(* relaxed, and nothing else changes.                                      *)
InComposite(t, s) ==
  /\ s.heap \in [CG!CompNode(t) -> Nat \cup {Absent}]
  /\ s.dmap \in [CG!CompNode(t) -> Nat \cup {Absent}]

Queue(s) == { v \in DOMAIN s.heap : s.heap[v] # Absent }
Taken(s) == { v \in DOMAIN s.dmap : s.dmap[v] # Absent /\ s.heap[v] = Absent }

\* What TakenFirst says, of any search.
Ordered(s) ==
  /\ \A v \in Queue(s) : s.heap[v] = s.dmap[v]
  /\ \A v \in Taken(s), w \in Queue(s) : s.dmap[v] <= s.heap[w]

\* far is what the distances become when u is expanded.
Expanded(g, t, bound, s, u, far) ==
  /\ far \in [CG!CompNode(t) -> Nat \cup {Absent}]
  /\ \A v \in CG!CompNode(t) : far[v] # s.dmap[v] =>
       /\ \E r \in CG!OutArcs(g, t, u) : r.target = v /\ far[v] = s.heap[u] + r.cost
       /\ s.heap[u] <= far[v]
       /\ IF s.dmap[v] = Absent THEN far[v] <= bound ELSE far[v] < s.dmap[v]
  /\ \A r \in CG!OutArcs(g, t, u) : s.heap[u] + r.cost <= bound =>
       far[r.target] # Absent /\ far[r.target] <= s.heap[u] + r.cost

LEMMA ArcEnds ==
  ASSUME NEW g, NEW t, OnRoad(g, t), NEW u, NEW r \in CG!OutArcs(g, t, u)
  PROVE  r.target \in CG!CompNode(t)
<1> DEFINE v == r.target
           cost == r.cost
<1>1. g \in Graph /\ t \in Seq(Seq(Candidate))
  BY DEF OnRoad
<1>2. \/ RoadArc(g, u, v, cost) \/ EntryArc(g, t, u, v, cost)
      \/ ExitArc(g, t, u, v, cost) \/ AlongArc(g, t, u, v, cost)
  BY <1>1, ArcKinds
<1> HIDE DEF v, cost
<1>3. \/ v \in Node
      \/ \E i \in DOMAIN t : \E b \in DOMAIN t[i] : v = CG!CandidateNode(t, i, b)
  <2>1. CASE RoadArc(g, u, v, cost)
    BY <1>1, <2>1, EdgeTypes DEF RoadArc, OutEdges
  <2>2. CASE EntryArc(g, t, u, v, cost)
    BY <2>2 DEF EntryArc
  <2>3. CASE ExitArc(g, t, u, v, cost)
    BY <2>3, OnRoadTypes DEF ExitArc
  <2>4. CASE AlongArc(g, t, u, v, cost)
    BY <2>4 DEF AlongArc
  <2> QED
    BY <1>2, <2>1, <2>2, <2>3, <2>4
<1>4. v \in CG!CompNode(t)
  <2>1. CASE v \in Node
    BY <2>1 DEF CG!CompNode, CG!Node, Node
  <2>2. ASSUME NEW i \in DOMAIN t, NEW b \in DOMAIN t[i], v = CG!CandidateNode(t, i, b)
        PROVE  v \in CG!CompNode(t)
    BY <1>1, <2>2, NumbersApart
  <2> QED
    BY <1>3, <2>1, <2>2
<1> QED
  BY <1>4 DEF v

(* No arc has a negative cost.                                             *)
LEMMA CostIsNat ==
  ASSUME NEW g, NEW t, OnRoad(g, t), NEW u, NEW r \in CG!OutArcs(g, t, u)
  PROVE  r.cost \in Nat
<1> DEFINE v == r.target
           cost == r.cost
<1>1. g \in Graph /\ t \in Seq(Seq(Candidate))
  BY DEF OnRoad
<1>2. \/ RoadArc(g, u, v, cost) \/ EntryArc(g, t, u, v, cost)
      \/ ExitArc(g, t, u, v, cost) \/ AlongArc(g, t, u, v, cost)
  BY <1>1, ArcKinds
<1> HIDE DEF v, cost
<1>3. cost \in Nat
  <2>1. CASE RoadArc(g, u, v, cost)
    BY <1>1, <2>1, EdgeTypes DEF RoadArc, OutEdges
  <2>2. CASE EntryArc(g, t, u, v, cost)
    BY <2>2, OnRoadTypes DEF EntryArc
  <2>3. CASE ExitArc(g, t, u, v, cost)
    BY <2>3, OnRoadTypes DEF ExitArc
  <2>4. CASE AlongArc(g, t, u, v, cost)
    <3>1. PICK i \in DOMAIN t : i # 1 /\ \E b \in DOMAIN t[i] :
            \E a \in CG!FirstOn(t[i - 1], t[i][b].edge) :
              cost \in CG!Along(g, t[i - 1][a], t[i][b])
      BY <2>4 DEF AlongArc
    <3>2. PICK b \in DOMAIN t[i] :
            \E a \in CG!FirstOn(t[i - 1], t[i][b].edge) :
              cost \in CG!Along(g, t[i - 1][a], t[i][b])
      BY <3>1
    <3>3. PICK a \in CG!FirstOn(t[i - 1], t[i][b].edge) :
            cost \in CG!Along(g, t[i - 1][a], t[i][b])
      BY <3>2
    <3>4. i - 1 \in DOMAIN t
      <4>1. i \in 1 .. Len(t) /\ i # 1 /\ DOMAIN t = 1 .. Len(t) /\ Len(t) \in Nat
        BY <1>1, <3>1
      <4> QED
        BY <4>1
    <3>5. a \in DOMAIN t[i - 1]
      BY DEF CG!FirstOn
    <3>6. t[i - 1][a] \in Candidate /\ t[i][b] \in Candidate
      BY <3>4, <3>5, OnRoadTypes
    <3> QED
      BY <3>3, <3>6, AlongCosts
  <2> QED
    BY <1>2, <2>1, <2>2, <2>3, <2>4
<1> QED
  BY <1>3 DEF cost

LEMMA SourceFinds ==
  ASSUME NEW g, NEW t, OnRoad(g, t), NEW from \in DOMAIN t, NEW n \in DOMAIN t[from],
         from + 1 \in DOMAIN t, NEW bound \in Int, NEW s,
         s.dmap = [[v \in CG!CompNode(t) |-> Absent] EXCEPT ![CG!CandidateNode(t, from, n)] = 0],
         s.heap = s.dmap, s.over = FALSE,
         s.unreached = { CG!CandidateNode(t, from + 1, b) : b \in DOMAIN t[from + 1] }
  PROVE  Finds(g, t, from, n, bound, s)
<1> DEFINE source == CG!CandidateNode(t, from, n)
           known == { v \in DOMAIN s.dmap : s.dmap[v] # Absent }
           taken == { v \in known : s.heap[v] = Absent }
<1>1. source \in CG!CompNode(t)
  BY NumbersApart DEF OnRoad
<1>2. known = {source} /\ s.dmap[source] = 0 /\ taken = {}
  <2> HIDE DEF source
  <2> QED
    BY <1>1 DEF Absent, source
<1>3. ToCandidate(g, from, t[from][n], from, t[from][n], 0)
  BY DEF ToCandidate
<1>4. Reaches(g, t, from, n, source, 0)
  BY <1>3, CandidateReached
<1> HIDE DEF source, known, taken
<1> QED
  BY <1>2, <1>4 DEF Finds, source, known, taken

LEMMA ExpandFinds ==
  ASSUME NEW g, NEW t, OnRoad(g, t), OneEach(t), NEW from \in DOMAIN t, NEW n,
         NEW bound \in Int, NEW s, InComposite(t, s), Ordered(s), ~ s.over,
         Finds(g, t, from, n, bound, s),
         NEW u \in Queue(s), NEW far, Expanded(g, t, bound, s, u, far),
         NEW z, z.dmap = far, z.over = s.over, z.unreached = s.unreached \ {u},
         z.heap = [v \in CG!CompNode(t) |->
                     IF far[v] # s.dmap[v] THEN far[v]
                     ELSE IF v = u THEN Absent ELSE s.heap[v]]
  PROVE  Finds(g, t, from, n, bound, z)
<1> DEFINE source == CG!CandidateNode(t, from, n)
           C == CG!CompNode(t)
           known == { v \in DOMAIN s.dmap : s.dmap[v] # Absent }
           taken == { v \in known : s.heap[v] = Absent }
           knownZ == { v \in DOMAIN z.dmap : z.dmap[v] # Absent }
           takenZ == { v \in knownZ : z.heap[v] = Absent }
           h == s.heap[u]
<1>0. /\ n \in DOMAIN t[from]
      /\ source \in known /\ s.dmap[source] = 0
      /\ \A v \in known : Reaches(g, t, from, n, v, s.dmap[v])
      /\ \A v \in known \ {source} : s.dmap[v] <= bound
      /\ \A w \in taken : ArcsRelaxed(g, t, bound, s.dmap, w)
      /\ \A b \in DOMAIN t[from + 1] :
           CG!CandidateNode(t, from + 1, b) \in s.unreached \cup taken
  BY DEF Finds
<1>1. /\ s.heap \in [C -> Nat \cup {Absent}] /\ s.dmap \in [C -> Nat \cup {Absent}]
      /\ far \in [C -> Nat \cup {Absent}]
  BY DEF InComposite, Expanded
<1>2. u \in C /\ h \in Nat /\ s.dmap[u] = h /\ u \in known /\ u \notin taken
  <2>1. u \in C /\ h # Absent
    BY <1>1 DEF Queue
  <2>2. h \in Nat /\ s.dmap[u] = h
    BY <1>1, <2>1 DEF Ordered
  <2> QED
    BY <1>1, <2>1, <2>2
<1>3. \A v \in taken : s.dmap[v] \in Nat /\ s.dmap[v] <= h
  <2>1. taken = Taken(s)
    BY DEF Taken
  <2>2. \A v \in taken : s.dmap[v] \in Nat
    BY <1>1
  <2> HIDE DEF taken
  <2> QED
    BY <2>1, <2>2 DEF Ordered
<1>4. \A v \in C : far[v] # s.dmap[v] =>
        /\ \E r \in CG!OutArcs(g, t, u) : r.target = v /\ far[v] = h + r.cost
        /\ far[v] \in Nat /\ h <= far[v]
        /\ IF s.dmap[v] = Absent THEN far[v] <= bound ELSE far[v] < s.dmap[v]
  <2> SUFFICES ASSUME NEW v \in C, far[v] # s.dmap[v]
               PROVE  /\ \E r \in CG!OutArcs(g, t, u) : r.target = v /\ far[v] = h + r.cost
                      /\ far[v] \in Nat /\ h <= far[v]
                      /\ IF s.dmap[v] = Absent THEN far[v] <= bound ELSE far[v] < s.dmap[v]
    OBVIOUS
  <2>1. /\ \E r \in CG!OutArcs(g, t, u) : r.target = v /\ far[v] = h + r.cost
        /\ h <= far[v]
        /\ IF s.dmap[v] = Absent THEN far[v] <= bound ELSE far[v] < s.dmap[v]
    BY DEF Expanded
  <2>2. far[v] \in Nat
    BY <1>1, <1>2, <2>1 DEF Absent
  <2> QED
    BY <2>1, <2>2
<1>5. /\ knownZ = { v \in C : far[v] # Absent } /\ z.dmap = far
      /\ takenZ = { v \in C : far[v] # Absent /\ z.heap[v] = Absent }
      /\ known = { v \in C : s.dmap[v] # Absent }
      /\ taken = { v \in C : s.dmap[v] # Absent /\ s.heap[v] = Absent }
  BY <1>1
<1> HIDE DEF source, C, known, taken, knownZ, takenZ, h
<1>6. \A v \in C : v \in known => far[v] # Absent /\ far[v] <= s.dmap[v]
  BY <1>1, <1>4, <1>5 DEF Absent
<1>7. \A v \in taken : far[v] = s.dmap[v]
  <2> SUFFICES ASSUME NEW v \in taken, far[v] # s.dmap[v] PROVE FALSE
    OBVIOUS
  <2>1. v \in C /\ s.dmap[v] # Absent /\ s.dmap[v] \in Nat /\ s.dmap[v] <= h
    BY <1>3, <1>5
  <2>2. far[v] \in Nat /\ h <= far[v] /\ far[v] < s.dmap[v]
    BY <1>4, <2>1
  <2> QED
    BY <1>2, <2>1, <2>2
<1>8. far[u] = h
  <2>1. h # Absent
    BY <1>2 DEF Absent
  <2>2. far[u] # h => far[u] \in Nat /\ h <= far[u] /\ far[u] < h
    BY <1>2, <1>4, <2>1
  <2> QED
    BY <1>2, <2>2
<1>9. \A v \in C : z.heap[v] = IF far[v] # s.dmap[v] THEN far[v]
                              ELSE IF v = u THEN Absent ELSE s.heap[v]
  BY DEF C
<1>10. takenZ = taken \cup {u}
  <2>1. ASSUME NEW v \in takenZ PROVE v \in taken \cup {u}
    <3>1. v \in C /\ far[v] # Absent /\ z.heap[v] = Absent
      BY <1>5, <2>1
    <3>2. far[v] = s.dmap[v]
      BY <1>9, <3>1
    <3> QED
      BY <1>5, <1>9, <3>1, <3>2
  <2>2. ASSUME NEW v \in taken PROVE v \in takenZ
    <3>1. v \in C /\ s.dmap[v] # Absent /\ s.heap[v] = Absent /\ far[v] = s.dmap[v]
      BY <1>5, <1>7
    <3> QED
      BY <1>5, <1>9, <3>1
  <2>3. u \in takenZ
    BY <1>2, <1>5, <1>8, <1>9 DEF Absent
  <2> QED
    BY <2>1, <2>2, <2>3
<1>11. source \in knownZ /\ far[source] = 0
  <2>1. source \in C /\ s.dmap[source] = 0
    BY <1>0, <1>5
  <2>2. far[source] # 0 => far[source] \in Nat /\ far[source] < 0
    BY <1>4, <2>1 DEF Absent
  <2>3. far[source] = 0
    BY <2>2
  <2> QED
    BY <1>5, <2>1, <2>3 DEF Absent
<1>12. ASSUME NEW v \in knownZ PROVE Reaches(g, t, from, n, v, far[v])
  <2>1. v \in C /\ far[v] # Absent
    BY <1>5
  <2>2. CASE far[v] = s.dmap[v]
    BY <1>0, <1>5, <2>1, <2>2
  <2>3. CASE far[v] # s.dmap[v]
    <3>1. PICK r \in CG!OutArcs(g, t, u) : r.target = v /\ far[v] = h + r.cost
      BY <1>4, <2>1, <2>3
    <3>2. Reaches(g, t, from, n, u, h)
      BY <1>0, <1>2
    <3>3. Reaches(g, t, from, n, r.target, h + r.cost)
      BY <1>0, <1>2, <3>2, ReachedByArc
    <3> QED
      BY <3>1, <3>3
  <2> QED
    BY <2>2, <2>3
<1>13. ASSUME NEW v \in knownZ \ {source} PROVE far[v] <= bound
  <2>1. v \in C /\ far[v] # Absent
    BY <1>5
  <2>2. CASE v \in known
    <3>1. s.dmap[v] <= bound /\ far[v] <= s.dmap[v] /\ s.dmap[v] \in Nat /\ far[v] \in Nat
      BY <1>0, <1>1, <1>5, <1>6, <2>1, <2>2 DEF Absent
    <3> QED
      BY <3>1
  <2>3. CASE v \notin known
    BY <1>4, <1>5, <2>1, <2>3
  <2> QED
    BY <2>2, <2>3
<1>14. ASSUME NEW w \in takenZ PROVE ArcsRelaxed(g, t, bound, far, w)
  <2>1. CASE w = u
    BY <1>8, <2>1 DEF ArcsRelaxed, Expanded, h
  <2>2. CASE w # u
    <3>1. w \in taken /\ far[w] = s.dmap[w] /\ s.dmap[w] \in Nat
      BY <1>3, <1>7, <1>10, <2>2
    <3>2. ASSUME NEW r \in CG!OutArcs(g, t, w), far[w] + r.cost <= bound
          PROVE  far[r.target] # Absent /\ far[r.target] <= far[w] + r.cost
      <4>1. s.dmap[r.target] # Absent /\ s.dmap[r.target] <= far[w] + r.cost
        BY <1>0, <3>1, <3>2 DEF ArcsRelaxed
      <4>2. r.target \in C
        BY ArcEnds DEF C
      <4>3. far[r.target] # Absent /\ far[r.target] <= s.dmap[r.target]
        BY <1>5, <1>6, <4>1, <4>2
      <4>4. far[r.target] \in Nat /\ s.dmap[r.target] \in Nat
        BY <1>1, <4>1, <4>2, <4>3 
      <4>5. r.cost \in Nat
        BY CostIsNat
      <4> QED
        BY <3>1, <4>1, <4>3, <4>4, <4>5
    <3> QED
      BY <3>2 DEF ArcsRelaxed
  <2> QED
    BY <2>1, <2>2
<1>15. \A b \in DOMAIN t[from + 1] :
         CG!CandidateNode(t, from + 1, b) \in z.unreached \cup takenZ
  BY <1>0, <1>10
<1> QED
  BY <1>0, <1>5, <1>11, <1>12, <1>13, <1>14, <1>15 DEF Finds, source, knownZ, takenZ

LEMMA StopFinds ==
  ASSUME NEW g, NEW t, OnRoad(g, t), NEW from \in DOMAIN t, NEW n,
         NEW bound \in Int, NEW s, InComposite(t, s), Ordered(s),
         Finds(g, t, from, n, bound, s),
         NEW u \in Queue(s), \A w \in Queue(s) : s.heap[u] <= s.heap[w], s.heap[u] > bound,
         NEW z, z.dmap = s.dmap, z.unreached = s.unreached \ {u},
         z.heap = [s.heap EXCEPT ![u] = Absent]
  PROVE  Finds(g, t, from, n, bound, z)
<1> DEFINE source == CG!CandidateNode(t, from, n)
           C == CG!CompNode(t)
           known == { v \in DOMAIN s.dmap : s.dmap[v] # Absent }
           taken == { v \in known : s.heap[v] = Absent }
           takenZ == { v \in known : z.heap[v] = Absent }
           h == s.heap[u]
<1>0. /\ n \in DOMAIN t[from]
      /\ source \in known /\ s.dmap[source] = 0
      /\ \A v \in known : Reaches(g, t, from, n, v, s.dmap[v])
      /\ \A v \in known \ {source} : s.dmap[v] <= bound
      /\ \A w \in taken : ArcsRelaxed(g, t, bound, s.dmap, w)
      /\ \A b \in DOMAIN t[from + 1] :
           CG!CandidateNode(t, from + 1, b) \in s.unreached \cup taken
  BY DEF Finds
<1>1. s.heap \in [C -> Nat \cup {Absent}] /\ s.dmap \in [C -> Nat \cup {Absent}]
  BY DEF InComposite
<1>2. /\ u \in C /\ h \in Nat /\ s.dmap[u] = h /\ u \in known
      /\ \A w \in C : s.heap[w] # Absent => s.heap[w] \in Nat /\ h <= s.heap[w]
  <2>1. u \in C /\ h # Absent
    BY <1>1 DEF Queue
  <2>2. h \in Nat /\ s.dmap[u] = h
    BY <1>1, <2>1 DEF Ordered
  <2>3. \A w \in C : s.heap[w] # Absent => s.heap[w] \in Nat /\ h <= s.heap[w]
    BY <1>1 DEF Queue
  <2> QED
    BY <1>1, <2>1, <2>2, <2>3
<1>3. \A v \in C : z.heap[v] = IF v = u THEN Absent ELSE s.heap[v]
  BY <1>1
<1>4. known = { v \in C : s.dmap[v] # Absent }
  BY <1>1
<1> HIDE DEF source, C, known, h
<1>5. takenZ = taken \cup {u}
  BY <1>2, <1>3, <1>4
<1>6. ArcsRelaxed(g, t, bound, s.dmap, u)
  <2> SUFFICES ASSUME NEW r \in CG!OutArcs(g, t, u), s.dmap[u] + r.cost <= bound PROVE FALSE
    BY DEF ArcsRelaxed
  <2>1. r.cost \in Nat
    BY CostIsNat
  <2>2. h > bound /\ h + r.cost <= bound
    BY <1>2 DEF h
  <2> QED
    BY <1>2, <2>1, <2>2
<1>7. \A v \in known \ takenZ : z.heap[v] > bound
  <2> SUFFICES ASSUME NEW v \in C, z.heap[v] # Absent PROVE z.heap[v] > bound
    BY <1>4
  <2>1. z.heap[v] = s.heap[v] /\ s.heap[v] \in Nat /\ h <= s.heap[v]
    BY <1>2, <1>3
  <2>2. h > bound
    BY DEF h
  <2> QED
    BY <1>2, <2>1, <2>2
<1>8. \A b \in DOMAIN t[from + 1] :
        CG!CandidateNode(t, from + 1, b) \in z.unreached \cup takenZ
  BY <1>0, <1>5
<1>9. \A w \in takenZ : ArcsRelaxed(g, t, bound, s.dmap, w)
  BY <1>0, <1>5, <1>6
<1> QED
  BY <1>0, <1>7, <1>8, <1>9 DEF Finds, source, known, takenZ

-----------------------------------------------------------------------------
(* A way no longer than the bound is found, or what is left of the search  *)
(* still has to find it.                                                   *)
Kept(s, v, x) ==
  \/ v \in Taken(s) /\ s.dmap[v] <= x
  \/ \E w \in Queue(s) : s.heap[w] <= x

LEMMA KeptWhenKnown ==
  ASSUME NEW t, NEW s, InComposite(t, s), Ordered(s), NEW v \in CG!CompNode(t), NEW x \in Int,
         s.dmap[v] # Absent, s.dmap[v] <= x
  PROVE  Kept(s, v, x)
BY DEF Kept, Taken, Queue, InComposite, Ordered

LEMMA KeptOverArc ==
  ASSUME NEW g, NEW t, OnRoad(g, t), NEW from, NEW n, NEW bound \in Int,
         NEW s, InComposite(t, s), Ordered(s), Finds(g, t, from, n, bound, s),
         NEW u, NEW x \in Nat, Kept(s, u, x),
         NEW r \in CG!OutArcs(g, t, u), x + r.cost <= bound
  PROVE  Kept(s, r.target, x + r.cost)
<1> DEFINE v == r.target
           c == r.cost
<1>1. c \in Nat /\ v \in CG!CompNode(t)
  BY CostIsNat, ArcEnds
<1> HIDE DEF v, c
<1>2. x + c <= bound
  BY DEF c
<1>3. CASE \E w \in Queue(s) : s.heap[w] <= x
  <2>1. PICK w \in Queue(s) : s.heap[w] <= x
    BY <1>3
  <2>2. s.heap[w] \in Nat
    BY DEF Queue, InComposite
  <2>3. s.heap[w] <= x + c
    BY <1>1, <2>1, <2>2
  <2>4. Kept(s, v, x + c)
    BY <2>1, <2>3 DEF Kept
  <2> QED
    BY <2>4 DEF v, c
<1>4. CASE u \in Taken(s) /\ s.dmap[u] <= x
  <2>1. s.dmap[u] \in Nat /\ s.dmap[u] # Absent /\ s.heap[u] = Absent /\ u \in DOMAIN s.dmap
    BY <1>4 DEF Taken, InComposite
  <2>2. ArcsRelaxed(g, t, bound, s.dmap, u)
    BY <2>1 DEF Finds
  <2>3. s.dmap[u] + c <= bound
    BY <1>1, <1>2, <1>4, <2>1
  <2>4. s.dmap[v] # Absent /\ s.dmap[v] <= s.dmap[u] + c
    BY <2>2, <2>3 DEF ArcsRelaxed, v, c
  <2>5. s.dmap[v] \in Nat
    BY <1>1, <2>4 DEF InComposite
  <2>6. s.dmap[v] <= x + c
    BY <1>1, <1>4, <2>1, <2>4, <2>5
  <2>7. Kept(s, v, x + c)
    BY <1>1, <2>4, <2>6, KeptWhenKnown
  <2> QED
    BY <2>7 DEF v, c
<1> QED
  BY <1>3, <1>4 DEF Kept

LEMMA KeptOverRoute ==
  ASSUME NEW g, NEW t, OnRoad(g, t), NEW from, NEW n, NEW bound \in Int,
         NEW s, InComposite(t, s), Ordered(s), Finds(g, t, from, n, bound, s),
         NEW u \in Node, NEW x \in Nat, Kept(s, u, x),
         NEW v, NEW l, HasRoute(g, u, v, l), x + l <= bound
  PROVE  Kept(s, v, x + l)
<1> DEFINE Lost(k) == \E w, m : /\ HasRouteOf(g, u, k, w, m)
                                /\ x + m <= bound /\ ~ Kept(s, w, x + m)
           T == { k \in Nat : Lost(k) }
<1>0. g \in Graph
  BY DEF OnRoad
<1> SUFFICES ASSUME T # {} PROVE FALSE
  <2>1. PICK k \in Nat : HasRouteOf(g, u, k, v, l)
    BY DEF HasRoute, HasRouteOf
  <2> QED
    BY <2>1
<1>1. PICK k \in T : \A j \in T : k <= j
  <2>1. T \in SUBSET Nat
    OBVIOUS
  <2> HIDE DEF T
  <2> QED
    BY <2>1, LeastElement
<1>2. PICK w : \E m : /\ HasRouteOf(g, u, k, w, m)
                      /\ x + m <= bound /\ ~ Kept(s, w, x + m)
  BY <1>1
<1>3. PICK m : /\ HasRouteOf(g, u, k, w, m)
               /\ x + m <= bound /\ ~ Kept(s, w, x + m)
  BY <1>2
<1>4. k \in Nat /\ m \in Nat
  BY <1>1, <1>3, RouteOfType
<1>5. CASE k = 0
  <2>1. w = u /\ m = 0
    BY <1>3, <1>4, <1>5, RouteOfType
  <2>2. x + m = x
    BY <2>1
  <2> QED
    BY <1>3, <2>1, <2>2
<1>6. CASE k # 0
  <2>1. k \in Nat \ {0} /\ k - 1 \in Nat /\ ~ (k <= k - 1)
    BY <1>4, <1>6
  <2>2. PICK p \in Node, d \in Nat : \E i \in OutEdges(g, p) :
          /\ HasRouteOf(g, u, k - 1, p, d) /\ g[i].target = w /\ m = d + g[i].length
    BY <1>0, <1>3, <2>1, LastEdge
  <2>3. PICK i \in OutEdges(g, p) :
          /\ HasRouteOf(g, u, k - 1, p, d) /\ g[i].target = w /\ m = d + g[i].length
    BY <2>2
  <2>4. g[i].length \in Nat
    BY <1>0, EdgeTypes DEF OutEdges
  <2>5. x + d <= bound /\ (x + d) + g[i].length = x + m /\ x + d \in Nat
    BY <1>3, <2>3, <2>4
  <2>6. Kept(s, p, x + d)
    BY <1>1, <2>1, <2>3, <2>5
  <2>7. RoadArc(g, p, w, g[i].length)
    BY <2>3 DEF RoadArc
  <2>8. PICK r \in CG!OutArcs(g, t, p) : r.target = w /\ r.cost = g[i].length
    BY <1>0, <2>7, ArcsThere DEF OnRoad
  <2>9. Kept(s, r.target, (x + d) + r.cost)
    <3>1. (x + d) + r.cost <= bound
      BY <1>3, <2>5, <2>8
    <3> QED
      BY <2>5, <2>6, <3>1, KeptOverArc
  <2> QED
    BY <1>3, <2>5, <2>8, <2>9
<1> QED
  BY <1>5, <1>6

-----------------------------------------------------------------------------
(* get_sp_dist is the shorter of the way along the edge and the way over   *)
(* the road, since the table has every distance.                           *)
LEMMA TableCost ==
  ASSUME NEW g \in Networks, NEW s \in Node, NEW t \in Node, s # t
  PROVE  LET d == DistanceFrom(g, s)[t]
             r == Tables[g][s][t] IN
         IF d = Unreachable THEN r = NoRow ELSE r # NoRow /\ r.cost = d
<1> DEFINE d == DistanceFrom(g, s)[t]
           r == Tables[g][s][t]
<1>1. d \in Nat \cup {Unreachable} /\ (d # Unreachable => d <= Delta)
  BY MatchAssumption, StMatchAssumption, DistanceIsLeast
<1>2. \E p : r = IF s = t \/ d = Unreachable \/ d > Delta THEN NoRow
                 ELSE [cost |-> d, path |-> p]
  <2> DEFINE dist == [u \in Node |-> DistanceFrom(g, u)]
             Row(path, u, w) ==
               IF u = w \/ dist[u][w] = Unreachable \/ dist[u][w] > Delta THEN NoRow
               ELSE [cost |-> dist[u][w], path |-> path[NumNodes][u][w]]
  <2>1. Tables[g] = TableOf(g)
    BY DEF Tables
  <2>2. \E path : TableOf(g) = [u \in Node |-> [w \in Node |-> Row(path, u, w)]]
    BY Zenon DEF TableOf
  <2>3. PICK path : TableOf(g) = [u \in Node |-> [w \in Node |-> Row(path, u, w)]]
    BY <2>2
  <2>4. r = Row(path, s, t)
    <3> HIDE DEF Row
    <3> QED
      BY <2>1, <2>3
  <2>5. dist[s] = DistanceFrom(g, s)
    OBVIOUS
  <2> HIDE DEF dist
  <2> QED
    BY <2>4, <2>5
<1>3. PICK p : r = IF s = t \/ d = Unreachable \/ d > Delta THEN NoRow
                   ELSE [cost |-> d, path |-> p]
  BY <1>2
<1> HIDE DEF d, r
<1>4. CASE d = Unreachable
  BY <1>3, <1>4 DEF d, r
<1>5. CASE d # Unreachable
  <2>1. r = [cost |-> d, path |-> p]
    BY <1>1, <1>3, <1>5, MatchAssumption
  <2>2. r.cost = d /\ d # Absent
    BY <1>1, <1>5, <2>1 DEF Absent, Unreachable
  <2>3. r # NoRow
    BY <2>2 DEF NoRow
  <2> QED
    BY <1>5, <2>2, <2>3 DEF d, r
<1> QED
  BY <1>4, <1>5

LEMMA NoDistanceToItself ==
  ASSUME NEW g \in Graph, NEW s \in Node
  PROVE  DistanceFrom(g, s)[s] = 0
<1>1. HasRoute(g, s, s, 0)
  BY EmptyRoute
<1>2. /\ DistanceFrom(g, s)[s] \in Nat \cup {Unreachable}
      /\ DistanceFrom(g, s)[s] # Unreachable /\ DistanceFrom(g, s)[s] <= 0
  BY <1>1, DistanceIsLeast
<1> QED
  BY <1>2

LEMMA SpDistance ==
  ASSUME network \in Networks, ubodt = Tables[network],
         NEW a \in Candidate, NEW c \in Candidate, a.offset <= network[a.edge].length,
         NEW from \in Nat
  PROVE  LET d == GetSpDist(a, c)
             e == DistanceFrom(network, network[a.edge].target)[network[c.edge].source] IN
         /\ d \in Nat \cup {Unreachable}
         /\ d # Unreachable =>
              \/ c.edge = a.edge /\ d \in CG!Along(network, a, c)
              \/ e # Unreachable /\ d = (network[a.edge].length - a.offset) + e + c.offset
         /\ \A x \in Int : ToCandidate(network, from, a, from + 1, c, x) =>
              d # Unreachable /\ d <= x
<1> DEFINE d == GetSpDist(a, c)
           s == network[a.edge].target
           v == network[c.edge].source
           e == DistanceFrom(network, s)[v]
           l == network[a.edge].length
           p == a.offset
           o == c.offset
           back == TolUnit * (p - o) < Tolerance * l
<1>1. /\ network \in Graph /\ s \in Node /\ v \in Node
      /\ l \in Nat /\ p \in Nat /\ o \in Nat /\ p <= l
      /\ e \in Nat \cup {Unreachable}
  <2>1. network \in Graph /\ a.edge \in EdgeIndex /\ c.edge \in EdgeIndex
    BY MatchAssumption DEF Candidate
  <2>2. v \in Node
    BY <2>1, EdgeTypes
  <2>3. o \in Nat
    BY DEF Candidate
  <2> QED
    BY <2>1, <2>2, <2>3, RoadTypes
<1>2. d = IF a.edge = c.edge /\ p <= o THEN o - p
          ELSE IF a.edge = c.edge /\ back THEN 0
          ELSE IF s = v THEN 0 + l - p + o
          ELSE IF LookUp(s, v) = NoRow THEN Unreachable
          ELSE LookUp(s, v).cost + l - p + o
  BY DEF GetSpDist, BackBy, Allowed, DistanceOver
<1>3. CG!Along(network, a, c) = IF p <= o THEN {o - p} ELSE IF back THEN {0} ELSE {}
  BY DEF CG!Along
<1>4. ASSUME NEW x \in Int, ToCandidate(network, from, a, from + 1, c, x)
      PROVE  \/ e # Unreachable /\ (l - p) + e + o <= x
             \/ c.edge = a.edge /\ x >= 0 /\ \E cost \in CG!Along(network, a, c) : cost <= x
  <2>1. \/ ByRoad(network, a, v, x - o)
        \/ c.edge = a.edge /\ x >= 0 /\ \E cost \in CG!Along(network, a, c) : cost <= x
    BY <1>4 DEF ToCandidate
  <2>2. CASE ByRoad(network, a, v, x - o)
    <3>1. e # Unreachable /\ l - p + e <= x - o
      BY <2>2 DEF ByRoad
    <3> HIDE DEF l, p, o, e
    <3> QED
      BY <1>1, <3>1
  <2> QED
    BY <2>1, <2>2
<1>5. CASE a.edge = c.edge /\ (p <= o \/ back)
  <2>1. d \in CG!Along(network, a, c) /\ CG!Along(network, a, c) = {d} /\ d \in Nat /\ d <= l - p + o
    <3> HIDE DEF l, p, o, d, back
    <3>1. CASE p <= o
      BY <1>1, <1>2, <1>3, <1>5, <3>1
    <3>2. CASE ~ (p <= o)
      BY <1>1, <1>2, <1>3, <1>5, <3>2
    <3> QED
      BY <3>1, <3>2
  <2>2. ASSUME NEW x \in Int, ToCandidate(network, from, a, from + 1, c, x)
        PROVE  d # Unreachable /\ d <= x
    <3>1. CASE e # Unreachable /\ (l - p) + e + o <= x
      <4> HIDE DEF l, p, o, e, d
      <4> QED
        BY <1>1, <2>1, <3>1 DEF Unreachable
    <3>2. CASE \E cost \in CG!Along(network, a, c) : cost <= x
      BY <2>1, <3>2 DEF Unreachable
    <3> QED
      BY <1>4, <2>2, <3>1, <3>2
  <2> HIDE DEF d
  <2>3. d \in Nat \cup {Unreachable} /\ d # Unreachable /\ c.edge = a.edge
    BY <1>5, <2>1 DEF Unreachable
  <2> QED
    BY <2>1, <2>2, <2>3 DEF d
<1>6. CASE ~ (a.edge = c.edge /\ (p <= o \/ back))
  <2>1. d = IF e = Unreachable THEN Unreachable ELSE (l - p) + e + o
    <3>1. CASE s = v
      <4>1. e = 0
        BY <1>1, <3>1, NoDistanceToItself
      <4>2. d = 0 + l - p + o
        BY <1>2, <1>6, <3>1
      <4> HIDE DEF d, e, l, p, o
      <4> QED
        BY <1>1, <4>1, <4>2 DEF Unreachable
    <3>2. CASE s # v
      <4>1. IF e = Unreachable THEN LookUp(s, v) = NoRow
            ELSE LookUp(s, v) # NoRow /\ LookUp(s, v).cost = e
        BY <1>1, <3>2, TableCost DEF LookUp
      <4>2. d = IF LookUp(s, v) = NoRow THEN Unreachable ELSE LookUp(s, v).cost + l - p + o
        BY <1>2, <1>6, <3>2
      <4>3. CASE e = Unreachable
        BY <4>1, <4>2, <4>3
      <4>4. CASE e # Unreachable
        <5>1. d = e + l - p + o
          BY <4>1, <4>2, <4>4
        <5> HIDE DEF d, e, l, p, o
        <5> QED
          BY <1>1, <4>4, <5>1
      <4> QED
        BY <4>3, <4>4
    <3> QED
      BY <3>1, <3>2
  <2>2. ~ (c.edge = a.edge /\ \E cost \in CG!Along(network, a, c) : cost \in Int)
    BY <1>3, <1>6
  <2>3. c.edge = a.edge => CG!Along(network, a, c) = {}
    BY <1>3, <1>6
  <2>4. \A x \in Int : ToCandidate(network, from, a, from + 1, c, x) =>
          e # Unreachable /\ (l - p) + e + o <= x
    BY <1>4, <2>3
  <2>5. d \in Nat \cup {Unreachable}
    <3> HIDE DEF d, e, l, p, o
    <3> QED
      BY <1>1, <2>1
  <2>6. d # Unreachable => e # Unreachable /\ d = (l - p) + e + o
    BY <2>1
  <2>7. \A x \in Int : ToCandidate(network, from, a, from + 1, c, x) => d # Unreachable /\ d <= x
    <3> SUFFICES ASSUME NEW x \in Int, ToCandidate(network, from, a, from + 1, c, x)
                 PROVE  d # Unreachable /\ d <= x
      OBVIOUS
    <3>1. e # Unreachable /\ (l - p) + e + o <= x
      BY <2>4
    <3> HIDE DEF d, e, l, p, o
    <3> QED
      BY <1>1, <2>1, <3>1 DEF Unreachable
  <2> HIDE DEF d
  <2> QED
    BY <2>5, <2>6, <2>7 DEF d
<1> QED
  BY <1>5, <1>6

(* The arc is taken, or what is left of the search reaches no farther.     *)
LEMMA KeptOver ==
  ASSUME NEW g, NEW t, OnRoad(g, t), NEW from, NEW n, NEW bound \in Int,
         NEW s, InComposite(t, s), Ordered(s), Finds(g, t, from, n, bound, s),
         NEW u, NEW x \in Nat, Kept(s, u, x), NEW v, NEW cost,
         \/ EntryArc(g, t, u, v, cost) \/ ExitArc(g, t, u, v, cost) \/ AlongArc(g, t, u, v, cost),
         x + cost <= bound
  PROVE  Kept(s, v, x + cost)
<1>1. PICK r \in CG!OutArcs(g, t, u) : r.target = v /\ r.cost = cost
  BY ArcsThere DEF OnRoad
<1>2. x + r.cost <= bound
  BY <1>1
<1>3. Kept(s, r.target, x + r.cost)
  BY <1>2, KeptOverArc
<1> QED
  BY <1>1, <1>3

LEMMA KeptAlong ==
  ASSUME NEW g, NEW t, OnRoad(g, t), OneEach(t), NEW from \in DOMAIN t, from + 1 \in DOMAIN t,
         NEW n \in DOMAIN t[from], NEW b \in DOMAIN t[from + 1], NEW bound \in Int,
         NEW s, InComposite(t, s), Ordered(s), Finds(g, t, from, n, bound, s),
         t[from + 1][b].edge = t[from][n].edge,
         NEW d \in CG!Along(g, t[from][n], t[from + 1][b]), d <= bound,
         Kept(s, CG!CandidateNode(t, from, n), 0)
  PROVE  Kept(s, CG!CandidateNode(t, from + 1, b), d)
<1>1. /\ t \in Seq(Seq(Candidate)) /\ from \in Nat /\ from + 1 # 1 /\ (from + 1) - 1 = from
      /\ t[from] \in Seq(Candidate)
  BY DEF OnRoad
<1>2. n \in CG!FirstOn(t[from], t[from + 1][b].edge)
  <2>1. DOMAIN t[from] = 1 .. Len(t[from]) /\ Len(t[from]) \in Nat
    BY <1>1
  <2>2. \A first \in 1 .. n - 1 : first \in DOMAIN t[from] /\ first # n
    BY <2>1
  <2> QED
    BY <2>2 DEF OneEach, CG!FirstOn
<1>3. AlongArc(g, t, CG!CandidateNode(t, from, n), CG!CandidateNode(t, from + 1, b), d)
  BY <1>1, <1>2 DEF AlongArc
<1>4. d \in Nat
  BY AlongCosts, OnRoadTypes
<1>5. 0 + d = d
  BY <1>4
<1> QED
  BY <1>3, <1>5, KeptOver

LEMMA KeptByRoad ==
  ASSUME NEW g, NEW t, OnRoad(g, t), NEW from \in DOMAIN t, from + 1 \in DOMAIN t,
         NEW n \in DOMAIN t[from], NEW b \in DOMAIN t[from + 1], NEW bound \in Int,
         NEW s, InComposite(t, s), Ordered(s), Finds(g, t, from, n, bound, s),
         Kept(s, CG!CandidateNode(t, from, n), 0),
         NEW rest, rest = g[t[from][n].edge].length - t[from][n].offset,
         NEW e \in Nat,
         e = DistanceFrom(g, g[t[from][n].edge].target)[g[t[from + 1][b].edge].source],
         rest + e + t[from + 1][b].offset <= bound
  PROVE  Kept(s, CG!CandidateNode(t, from + 1, b), rest + e + t[from + 1][b].offset)
<1> DEFINE source == CG!CandidateNode(t, from, n)
           v == CG!CandidateNode(t, from + 1, b)
           w == g[t[from + 1][b].edge].source
           z == g[t[from][n].edge].target
           o == t[from + 1][b].offset
<1>1. /\ g \in Graph /\ rest \in Nat /\ o \in Nat /\ w \in Node /\ z \in Node
  BY OnRoadTypes DEF OnRoad
<1>2. ExitArc(g, t, source, z, rest) /\ EntryArc(g, t, w, v, o)
  BY DEF ExitArc, EntryArc
<1>3. HasRoute(g, z, w, e)
  <2>1. e # Unreachable
    BY DEF Unreachable
  <2> QED
    BY <1>1, <2>1, DistanceIsLeast
<1>4. Kept(s, source, 0) /\ rest + e + o <= bound
  OBVIOUS
<1> HIDE DEF source, v, w, z, o
<1>5. /\ 0 + rest = rest /\ 0 + rest <= bound /\ rest + e <= bound /\ rest + e \in Nat
      /\ (rest + e) + o = rest + e + o
  BY <1>1, <1>4
<1>6. Kept(s, z, 0 + rest)
  BY <1>2, <1>4, <1>5, KeptOver
<1>7. Kept(s, z, rest)
  BY <1>5, <1>6
<1>8. Kept(s, w, rest + e)
  BY <1>1, <1>3, <1>5, <1>7, KeptOverRoute
<1>9. Kept(s, v, (rest + e) + o)
  BY <1>2, <1>4, <1>5, <1>8, KeptOver
<1> QED
  BY <1>9 DEF v, o

(* A search that is over has found every distance up to its bound.         *)
Found(s, v) == IF s.dmap[v] = Absent THEN Unreachable ELSE s.dmap[v]

LEMMA FoundExactly ==
  ASSUME network \in Networks, ubodt = Tables[network], NEW t, OnRoad(network, t), OneEach(t),
         NEW from \in DOMAIN t, from + 1 \in DOMAIN t, NEW n, NEW bound \in Int,
         NEW s, InComposite(t, s), Ordered(s), Finds(network, t, from, n, bound, s),
         s.over \/ Queue(s) = {} \/ s.unreached = {},
         NEW b \in DOMAIN t[from + 1]
  PROVE  Found(s, CG!CandidateNode(t, from + 1, b))
            = Within(GetSpDist(t[from][n], t[from + 1][b]), bound)
<1> DEFINE a == t[from][n]
           c == t[from + 1][b]
           d == GetSpDist(a, c)
           source == CG!CandidateNode(t, from, n)
           v == CG!CandidateNode(t, from + 1, b)
           w == network[c.edge].source
           z == network[a.edge].target
           e == DistanceFrom(network, z)[w]
           rest == network[a.edge].length - a.offset
           m == s.dmap[v]
<1>0. network \in Graph /\ t \in Seq(Seq(Candidate)) /\ n \in DOMAIN t[from] /\ from \in Nat
  BY OnRoadTypes DEF OnRoad, Finds
<1>1. /\ a \in Candidate /\ c \in Candidate /\ a.offset <= network[a.edge].length
      /\ rest \in Nat /\ c.offset \in Nat /\ w \in Node /\ z \in Node
  BY <1>0, OnRoadTypes
<1>2. /\ v \in CG!CompNode(t) /\ source \in CG!CompNode(t) /\ v # source
  <2>1. v \in CG!CompNode(t) /\ source \in CG!CompNode(t)
    BY <1>0, NumbersApart
  <2>2. from + 1 # from
    BY <1>0
  <2> QED
    BY <1>0, <2>1, <2>2, NumbersApart
<1>3. /\ d \in Nat \cup {Unreachable}
      /\ d # Unreachable =>
           \/ c.edge = a.edge /\ d \in CG!Along(network, a, c)
           \/ e # Unreachable /\ d = rest + e + c.offset
      /\ \A x \in Int : ToCandidate(network, from, a, from + 1, c, x) => d # Unreachable /\ d <= x
  BY <1>0, <1>1, SpDistance
<1>4. m \in Nat \cup {Absent} /\ s.dmap[source] = 0 /\ DOMAIN s.dmap = CG!CompNode(t)
  BY <1>2 DEF InComposite, Finds
<1>5. ASSUME m # Absent PROVE d # Unreachable /\ d <= m /\ m <= bound
  <2>1. Reaches(network, t, from, n, v, m) /\ m <= bound
    BY <1>2, <1>4, <1>5 DEF Finds
  <2>2. ToCandidate(network, from, a, from + 1, c, m)
    BY <2>1 DEF Reaches
  <2> QED
    BY <1>3, <1>4, <1>5, <2>1, <2>2
<1>6. ASSUME d # Unreachable, d <= bound PROVE m # Absent /\ m <= d
  <2>0. d \in Nat
    BY <1>3, <1>6
  <2>1. Kept(s, source, 0)
    BY <1>2, <1>4, KeptWhenKnown DEF Absent
  <2>2. Kept(s, v, d)
    <3>1. CASE c.edge = a.edge /\ d \in CG!Along(network, a, c)
      BY <1>0, <1>6, <2>1, <3>1, KeptAlong
    <3>2. CASE e # Unreachable /\ d = rest + e + c.offset
      <4>1. e \in Nat
        <5>1. e \in Nat \cup {Unreachable}
          BY <1>0, <1>1, DistanceIsLeast
        <5> QED
          BY <3>2, <5>1
      <4>2. rest + e + c.offset <= bound
        BY <1>6, <3>2
      <4>3. Kept(s, v, rest + e + c.offset)
        BY <1>0, <2>1, <4>1, <4>2, KeptByRoad
      <4> QED
        BY <3>2, <4>3
    <3> QED
      BY <1>3, <1>6, <3>1, <3>2
  <2> DEFINE known == { y \in DOMAIN s.dmap : s.dmap[y] # Absent }
             taken == { y \in known : s.heap[y] = Absent }
  <2>3. taken = Taken(s)
    BY DEF Taken
  <2>4. s.over => \A y \in known \ taken : s.heap[y] > bound
    BY DEF Finds
  <2>5. v \in s.unreached \cup taken
    BY DEF Finds
  <2>6. Queue(s) \subseteq known \ taken /\ \A y \in Queue(s) : s.heap[y] \in Nat
    BY DEF Queue, InComposite, Ordered, Absent
  <2> HIDE DEF known, taken, d, v, m
  <2>7. CASE v \in Taken(s) /\ s.dmap[v] <= d
    BY <2>7 DEF Taken, m
  <2>8. CASE \E y \in Queue(s) : s.heap[y] <= d
    <3>1. PICK y \in Queue(s) : s.heap[y] <= d
      BY <2>8
    <3>2. s.heap[y] \in Nat /\ y \in known \ taken
      BY <2>6
    <3>3. ~ s.over
      BY <1>6, <2>0, <2>4, <3>1, <3>2
    <3>4. v \in Taken(s)
      BY <2>3, <2>5, <3>1, <3>3
    <3>5. m # Absent /\ m <= s.heap[y]
      BY <3>1, <3>4 DEF Ordered, Taken, m
    <3>6. m \in Nat
      BY <1>4, <3>5
    <3> QED
      BY <2>0, <3>1, <3>2, <3>5, <3>6
  <2> QED
    BY <2>2, <2>7, <2>8 DEF Kept
<1>7. (IF m = Absent THEN Unreachable ELSE m) = Within(d, bound)
  <2> HIDE DEF d, m
  <2>1. CASE m = Absent
    BY <1>6, <2>1 DEF Within
  <2>2. CASE m # Absent
    <3>1. m \in Nat /\ d \in Nat /\ d <= m /\ m <= bound /\ d # Unreachable
      BY <1>3, <1>4, <1>5, <2>2
    <3>2. d <= bound
      BY <3>1
    <3>3. m = d
      BY <1>6, <3>1, <3>2
    <3> QED
      BY <2>2, <3>1, <3>2, <3>3 DEF Within
  <2> QED
    BY <2>1, <2>2
<1> QED
  BY <1>7 DEF Found

-----------------------------------------------------------------------------
(* In the model the candidates lie on the road.                            *)
LEMMA CandidatesOnRoad ==
  ASSUME network \in Networks, CandidatesOK, OnTheirEdges, pc # "start"
  PROVE  OnRoad(network, tc)
<1>1. network \in Graph /\ tc \in Seq(Seq(Candidate)) /\ Len(tc) = N
  BY MatchAssumption DEF CandidatesOK
<1>2. DOMAIN tc = 1 .. N
  BY <1>1
<1> QED
  BY <1>1, <1>2 DEF OnRoad, OnTheirEdges

LEMMA ArcCosts ==
  ASSUME network \in Networks, CandidatesOK, OnTheirEdges, pc # "start",
         NEW u, NEW r \in CG!OutArcs(network, tc, u)
  PROVE  r.cost \in Nat
BY CandidatesOnRoad, CostIsNat

-----------------------------------------------------------------------------
(* A turn of the search leaves a distance as it is, or sets one that is    *)
(* new or smaller and no nearer than the node taken.                       *)
LEMMA RelaxedDistance ==
  ASSUME StTypeOK, OnTheirEdges, pc # "start", search # NoSearch,
         NEW u \in InQueue, NEW v \in CG!CompNode(tc)
  PROVE  /\ search.heap[u] \in Nat
         /\ \/ Relaxed(u)[v] = search.dmap[v]
            \/ /\ Relaxed(u)[v] \in Nat
               /\ search.heap[u] <= Relaxed(u)[v]
               /\ search.dmap[v] = Absent \/ Relaxed(u)[v] < search.dmap[v]
<1> DEFINE arcs == CG!OutArcs(network, tc, u)
           costs == {r.cost : r \in {arc \in arcs : arc.target = v}}
           nearest == CHOOSE c \in costs : \A other \in costs : c <= other
           d == search.heap[u] + nearest
<1>1. /\ search.heap \in [CG!CompNode(tc) -> Nat \cup {Absent}]
      /\ search.dmap \in [CG!CompNode(tc) -> Nat \cup {Absent}]
  BY DEF StTypeOK, SearchState
<1>2. search.heap[u] \in Nat /\ search.dmap[v] \in Nat \cup {Absent}
  BY <1>1 DEF InQueue
<1>3. Relaxed(u)[v] = IF costs = {} THEN search.dmap[v] ELSE Shortened(v, d)
  BY <1>1 DEF Relaxed, RelaxedTo
<1>4. costs \in SUBSET Nat
  BY ArcCosts DEF StTypeOK
<1>5. costs # {} => nearest \in Nat
  <2> SUFFICES ASSUME costs # {} PROVE nearest \in Nat
    OBVIOUS
  <2> HIDE DEF costs
  <2>1. PICK c \in costs : \A other \in costs : c <= other
    BY <1>4, LeastElement
  <2> QED
    BY <1>4, <2>1
<1> HIDE DEF nearest, costs
<1>6. costs # {} => d \in Nat /\ search.heap[u] <= d
  BY <1>2, <1>5
<1> HIDE DEF d
<1> QED
  BY <1>2, <1>3, <1>6 DEF Shortened, Absent

(* decrease_key never meets a node that has left the heap.                 *)
LEMMA TakenNeverLowered == StCore => TakenStays
<1> SUFFICES ASSUME StCore, Searching, NEW u \in InQueue,
                    NEW v \in DOMAIN search.dmap \ InQueue, search.dmap[v] # Absent
             PROVE  Relaxed(u)[v] = search.dmap[v]
  BY DEF TakenStays
<1>1. search # NoSearch /\ pc # "start"
  BY DEF Searching, StCore
<1>2. /\ search.dmap \in [CG!CompNode(tc) -> Nat \cup {Absent}]
      /\ search.dmap[v] <= search.heap[u]
  BY <1>1 DEF StCore, StTypeOK, SearchState, TakenFirst
<1>3. v \in CG!CompNode(tc) /\ search.dmap[v] \in Nat
  BY <1>2
<1>4. /\ search.heap[u] \in Nat
      /\ \/ Relaxed(u)[v] = search.dmap[v]
         \/ /\ Relaxed(u)[v] \in Nat
            /\ search.heap[u] <= Relaxed(u)[v]
            /\ search.dmap[v] = Absent \/ Relaxed(u)[v] < search.dmap[v]
  BY <1>1, <1>3, RelaxedDistance DEF StCore
<1> QED
  BY <1>2, <1>3, <1>4

-----------------------------------------------------------------------------
(* What a step leaves standing that keeps the graph and the candidates.    *)
LEMMA CandidatesStand ==
  ASSUME StCore, UNCHANGED <<tgVars, network, ubodt, tc, eu_dists, durations>>
  PROVE  /\ TGIInv' /\ CandidatesOK' /\ OnTheirEdges'
         /\ network' \in Networks /\ ubodt' = Tables[network'] /\ durations' \in Seconds'
         /\ pc' = pc /\ level' = level /\ opath' = opath /\ N' = N
         /\ \A i : Layer(i)' = Layer(i)
<1>1. /\ ep' = ep /\ level' = level /\ pc' = pc /\ opath' = opath
      /\ network' = network /\ tc' = tc /\ eu_dists' = eu_dists
  BY DEF tgVars
<1>2. N' = N /\ \A i : Layer(i)' = Layer(i)
  BY <1>1 DEF N, Layer
<1>3. TGIInv'
  BY GraphStutters DEF StCore, StTypeOK
<1>4. CandidatesOK'
  BY <1>1, <1>2 DEF StCore, StTypeOK, CandidatesOK
<1>5. OnTheirEdges'
  BY <1>1, <1>2 DEF StCore, OnTheirEdges
<1>6. durations' \in Seconds'
  BY <1>1 DEF StCore, StTypeOK, Seconds
<1> QED
  BY <1>1, <1>2, <1>3, <1>4, <1>5, <1>6 DEF StCore, StTypeOK

(* A step of a search changes the search and the rows alone.               *)
LEMMA OnlySearchChanges ==
  ASSUME StCore, UNCHANGED <<fmmVars, durations>>,
         stage = "match", pc = "update", level < N,
         rows' # <<>> => rows' \in Seq([Layer(level + 1) -> Nat \cup {Unreachable}]),
         search' # NoSearch => search' \in SearchState,
         TakenFirst'
  PROVE  StCore'
<1>1. UNCHANGED <<tgVars, network, ubodt, tc, eu_dists, durations>> /\ stage' = stage
  BY DEF fmmVars, matchVars
<1>2. /\ TGIInv' /\ CandidatesOK' /\ OnTheirEdges'
      /\ network' \in Networks /\ ubodt' = Tables[network'] /\ durations' \in Seconds'
      /\ pc' = pc /\ level' = level /\ N' = N
      /\ \A i : Layer(i)' = Layer(i)
  BY <1>1, CandidatesStand
<1>3. SearchState' = SearchState
  <2>1. Targets' = Targets
    BY <1>1, <1>2 DEF Targets
  <2> QED
    BY <1>1, <2>1 DEF SearchState
<1>4. StTypeOK'
  BY <1>1, <1>2, <1>3 DEF StTypeOK
<1>5. ~ IsMatched' /\ stage' # "complete"
  BY <1>1 DEF IsMatched
<1> QED
  BY <1>1, <1>2, <1>4, <1>5 DEF StCore

LEMMA StartSearchStep ==
  ASSUME StCore, StartSearch
  PROVE  StCore'
<1> DEFINE s == CG!CandidateNode(tc, level, Len(rows) + 1)
<1>1. /\ stage = "match" /\ pc = "update" /\ level < N /\ UNCHANGED <<fmmVars, durations>>
      /\ rows' = rows
      /\ search' = [unreached |-> Targets,
                    heap |-> [Unknown EXCEPT ![s] = 0],
                    dmap |-> [Unknown EXCEPT ![s] = 0],
                    over |-> FALSE]
  BY DEF StartSearch
<1>2. [Unknown EXCEPT ![s] = 0] \in [CG!CompNode(tc) -> Nat \cup {Absent}]
  BY DEF Unknown
<1>3. search' \in SearchState
  BY <1>1, <1>2 DEF SearchState
<1>4. search' # NoSearch
  BY <1>1 DEF NoSearch
<1>5. TakenFirst'
  BY <1>1 DEF TakenFirst, InQueue
<1> QED
  BY <1>1, <1>3, <1>4, <1>5, OnlySearchChanges DEF StCore, StTypeOK

(* The node taken is no farther than those still in the heap, and those    *)
(* taken before it are no farther than the node is.                        *)
LEMMA TakenIsNearest ==
  ASSUME StCore, Searching, NEW u \in InQueue, \A v \in InQueue : Before(u, v)
  PROVE  /\ search.dmap[u] = search.heap[u] /\ search.heap[u] \in Nat
         /\ \A w \in InQueue : search.heap[u] <= search.heap[w]
         /\ \A v \in DOMAIN search.dmap : v \notin InQueue /\ search.dmap[v] # Absent =>
              search.dmap[v] <= search.heap[u]
<1>1. search # NoSearch
  BY DEF Searching
<1>2. search.heap \in [CG!CompNode(tc) -> Nat \cup {Absent}]
  BY <1>1 DEF StCore, StTypeOK, SearchState
<1>3. \A w \in InQueue : search.heap[w] \in Nat
  BY <1>2 DEF InQueue
<1>4. \A w \in InQueue : search.heap[u] <= search.heap[w]
  BY <1>3 DEF Before
<1> QED
  BY <1>1, <1>3, <1>4 DEF StCore, TakenFirst

LEMMA StopStep ==
  ASSUME StCore, Searching, UNCHANGED <<fmmVars, durations, rows>>,
         NEW u \in InQueue, \A v \in InQueue : Before(u, v),
         search' = [search EXCEPT !.unreached = @ \ {u}, !.heap[u] = Absent, !.over = TRUE]
  PROVE  search' # NoSearch /\ search' \in SearchState /\ TakenFirst'
<1>1. search \in SearchState
  BY DEF Searching, StCore, StTypeOK
<1>2. /\ DOMAIN search.heap = CG!CompNode(tc) /\ DOMAIN search.dmap = CG!CompNode(tc)
      /\ u \in CG!CompNode(tc)
  BY <1>1 DEF SearchState, InQueue
<1>3. search'.dmap = search.dmap /\ search'.heap = [search.heap EXCEPT ![u] = Absent]
  BY <1>1 DEF SearchState
<1>4. InQueue' = InQueue \ {u} /\ \A w \in InQueue' : search'.heap[w] = search.heap[w]
  BY <1>2, <1>3 DEF InQueue
<1>5. TakenFirst'
  <2>1. /\ search.dmap[u] = search.heap[u] /\ search.heap[u] \in Nat
        /\ \A w \in InQueue : search.heap[u] <= search.heap[w]
        /\ \A v \in DOMAIN search.dmap : v \notin InQueue /\ search.dmap[v] # Absent =>
             search.dmap[v] <= search.heap[u]
    BY TakenIsNearest
  <2>2. \A w \in InQueue : search.heap[w] = search.dmap[w]
    BY DEF StCore, TakenFirst, Searching
  <2>3. \A v \in DOMAIN search.dmap \ InQueue : search.dmap[v] # Absent =>
          \A w \in InQueue : search.dmap[v] <= search.heap[w]
    BY DEF StCore, TakenFirst, Searching
  <2> QED
    BY <1>3, <1>4, <2>1, <2>2, <2>3 DEF TakenFirst
<1>6. search' \in SearchState
  BY <1>1 DEF SearchState
<1>7. search' # NoSearch
  <2>1. NoSearch.over /\ DOMAIN NoSearch.heap = {}
    BY DEF NoSearch
  <2>2. u \in DOMAIN search'.heap
    BY <1>2, <1>3
  <2> QED
    BY <2>1, <2>2
<1> QED
  BY <1>5, <1>6, <1>7

LEMMA RelaxStep ==
  ASSUME StCore, Searching, pc # "start", UNCHANGED <<fmmVars, durations, rows>>,
         NEW u \in InQueue, \A v \in InQueue : Before(u, v),
         search' = [search EXCEPT
                      !.unreached = @ \ {u},
                      !.dmap = Relaxed(u),
                      !.heap = [v \in DOMAIN @ |->
                                  IF Relaxed(u)[v] # search.dmap[v] THEN Relaxed(u)[v]
                                  ELSE IF v = u THEN Absent ELSE @[v]]]
  PROVE  search' # NoSearch /\ search' \in SearchState /\ TakenFirst'
<1> DEFINE far == Relaxed(u)
<1>1. search \in SearchState /\ search # NoSearch
  BY DEF Searching, StCore, StTypeOK
<1>2. /\ search.heap \in [CG!CompNode(tc) -> Nat \cup {Absent}]
      /\ search.dmap \in [CG!CompNode(tc) -> Nat \cup {Absent}]
      /\ u \in CG!CompNode(tc)
  BY <1>1 DEF SearchState, InQueue
<1>3. \A v \in CG!CompNode(tc) :
        \/ far[v] = search.dmap[v]
        \/ far[v] \in Nat /\ search.heap[u] <= far[v]
  BY <1>1, RelaxedDistance DEF StCore
<1>4. far \in [CG!CompNode(tc) -> Nat \cup {Absent}]
  <2>1. DOMAIN search.dmap = CG!CompNode(tc)
    BY <1>2
  <2>2. far = [v \in DOMAIN search.dmap |-> far[v]]
    BY DEF Relaxed
  <2> HIDE DEF far
  <2> QED
    BY <1>2, <1>3, <2>1, <2>2
<1> HIDE DEF far
<1>5. /\ search'.dmap = far
      /\ search'.heap = [v \in CG!CompNode(tc) |->
                           IF far[v] # search.dmap[v] THEN far[v]
                           ELSE IF v = u THEN Absent ELSE search.heap[v]]
      /\ search'.unreached = search.unreached \ {u} /\ search'.over = search.over
      /\ search' = [unreached |-> search'.unreached, heap |-> search'.heap,
                    dmap |-> search'.dmap, over |-> search'.over]
  BY <1>1, <1>2 DEF SearchState, far
<1>6. search'.heap \in [CG!CompNode(tc) -> Nat \cup {Absent}]
  BY <1>2, <1>4, <1>5
<1>7. search' \in SearchState
  BY <1>1, <1>4, <1>5, <1>6 DEF SearchState
<1>8. search' # NoSearch
  BY <1>2, <1>5 DEF NoSearch
<1>9. TakenFirst'
  <2>1. /\ search.dmap[u] = search.heap[u] /\ search.heap[u] \in Nat
        /\ \A w \in InQueue : search.heap[u] <= search.heap[w]
        /\ \A v \in DOMAIN search.dmap : v \notin InQueue /\ search.dmap[v] # Absent =>
             search.dmap[v] <= search.heap[u]
    BY TakenIsNearest
  <2>2. \A w \in InQueue : search.heap[w] = search.dmap[w]
    BY <1>1 DEF StCore, TakenFirst
  <2>3. ASSUME NEW v \in InQueue'
        PROVE  search'.heap[v] = far[v] /\ search.heap[u] <= search'.heap[v]
    <3>1. v \in CG!CompNode(tc) /\ search'.heap[v] # Absent
      BY <1>6 DEF InQueue
    <3>2. CASE far[v] # search.dmap[v]
      BY <1>3, <1>5, <3>1, <3>2
    <3>3. CASE far[v] = search.dmap[v]
      <4>1. v # u /\ search'.heap[v] = search.heap[v]
        BY <1>5, <3>1, <3>3
      <4>2. v \in InQueue
        BY <1>2, <3>1, <4>1 DEF InQueue
      <4> QED
        BY <2>1, <2>2, <3>3, <4>1, <4>2
    <3> QED
      BY <3>2, <3>3
  <2>4. ASSUME NEW v \in CG!CompNode(tc), v \notin InQueue', far[v] # Absent
        PROVE  far[v] \in Nat /\ far[v] <= search.heap[u]
    <3>1. search'.heap[v] = Absent
      BY <1>6, <2>4 DEF InQueue
    <3>2. far[v] = search.dmap[v]
      BY <1>5, <2>4, <3>1
    <3>3. v = u \/ search.heap[v] = Absent
      BY <1>5, <3>1, <3>2
    <3>4. v = u \/ v \notin InQueue
      BY <3>3 DEF InQueue
    <3>5. far[v] \in Nat
      BY <1>4, <2>4
    <3> QED
      BY <1>2, <2>1, <2>4, <3>2, <3>4, <3>5
  <2>5. ASSUME NEW v \in DOMAIN far, v \notin InQueue', far[v] # Absent, NEW w \in InQueue'
        PROVE  far[v] <= search'.heap[w]
    <3>1. w \in CG!CompNode(tc) /\ search'.heap[w] \in Nat
      BY <1>6 DEF InQueue
    <3>2. v \in CG!CompNode(tc)
      BY <1>4
    <3> QED
      BY <2>1, <2>3, <2>4, <2>5, <3>1, <3>2
  <2> QED
    BY <1>5, <2>3, <2>5 DEF TakenFirst
<1> QED
  BY <1>7, <1>8, <1>9

LEMMA ExpandStep ==
  ASSUME StCore, Expand
  PROVE  StCore'
<1>1. Searching /\ UNCHANGED <<fmmVars, durations, rows>>
  BY DEF Expand
<1>2. search # NoSearch /\ stage = "match" /\ pc = "update" /\ level < N
  BY <1>1 DEF Searching, StCore
<1>3. PICK u \in InQueue :
        /\ \A v \in InQueue : Before(u, v)
        /\ \/ search' = [search EXCEPT !.unreached = @ \ {u}, !.heap[u] = Absent, !.over = TRUE]
           \/ search' =
                [search EXCEPT
                   !.unreached = @ \ {u},
                   !.dmap = Relaxed(u),
                   !.heap = [v \in DOMAIN @ |->
                               IF Relaxed(u)[v] # search.dmap[v] THEN Relaxed(u)[v]
                               ELSE IF v = u THEN Absent ELSE @[v]]]
  BY DEF Expand
<1>4. search' # NoSearch /\ search' \in SearchState /\ TakenFirst'
  BY <1>1, <1>2, <1>3, StopStep, RelaxStep
<1>5. rows' # <<>> => rows' \in Seq([Layer(level + 1) -> Nat \cup {Unreachable}])
  BY <1>1 DEF StCore, StTypeOK
<1> QED
  BY <1>1, <1>2, <1>4, <1>5, OnlySearchChanges

LEMMA EndSearchStep ==
  ASSUME StCore, EndSearch
  PROVE  StCore'
<1> DEFINE row == [b \in Layer(level + 1) |->
                     LET d == search.dmap[CG!CandidateNode(tc, level + 1, b)] IN
                     IF d = Absent THEN Unreachable ELSE d]
           Row == [Layer(level + 1) -> Nat \cup {Unreachable}]
<1>1. /\ search # NoSearch /\ rows' = Append(rows, row) /\ search' = NoSearch
      /\ UNCHANGED <<fmmVars, durations>>
  BY DEF EndSearch
<1>2. stage = "match" /\ pc = "update" /\ level < N
  BY <1>1 DEF StCore
<1>3. search.dmap \in [CG!CompNode(tc) -> Nat \cup {Absent}]
  BY <1>1 DEF StCore, StTypeOK, SearchState
<1>4. ASSUME NEW b \in Layer(level + 1)
      PROVE  CG!CandidateNode(tc, level + 1, b) \in CG!CompNode(tc)
  <2>1. level + 1 \in 1 .. N
    BY <1>2 DEF StCore, StTypeOK, TGIInv, TGTypeOK, N
  <2>2. /\ tc \in Seq(Seq(Candidate)) /\ Len(tc) = N
        /\ Len(tc[level + 1]) = Len(ep[level + 1])
    BY <1>2, <2>1 DEF StCore, StTypeOK, CandidatesOK
  <2>3. level + 1 \in DOMAIN tc /\ tc[level + 1] \in Seq(Candidate)
    BY <2>1, <2>2
  <2>4. b \in DOMAIN tc[level + 1]
    BY <2>2, <2>3 DEF Layer
  <2>5. [at |-> level + 1, of |-> b] \in CG!Candidates(tc)
    BY <2>3, <2>4 DEF CG!Candidates
  <2> QED
    BY <2>5 DEF CG!CompNode
<1>5. row \in Row
  BY <1>3, <1>4
<1>6. rows \in Seq(Row)
  <2>1. CASE rows = <<>>
    BY <2>1
  <2> QED
    BY <2>1 DEF StCore, StTypeOK
<1> HIDE DEF row
<1>7. rows' \in Seq(Row)
  BY <1>1, <1>5, <1>6
<1>8. TakenFirst'
  BY <1>1 DEF TakenFirst
<1> QED
  BY <1>1, <1>2, <1>7, <1>8, OnlySearchChanges

-----------------------------------------------------------------------------
(* The steps outside of a search.                                          *)
LEMMA StCandidatesStep ==
  ASSUME StCore, StSearchCandidates
  PROVE  StCore'
<1>1. /\ SearchCandidates /\ pc = "start" /\ rows' = rows /\ search' = search
      /\ durations' \in {<<>>} \cup [1 .. Len(tc') - 1 -> Durations]
      /\ network \in Networks /\ ubodt = Tables[network]
  BY DEF StSearchCandidates, SearchCandidates, StCore, StTypeOK
<1>2. rows' = <<>> /\ search' = NoSearch
  BY <1>1 DEF StCore
<1>3. /\ TGIInv' /\ CandidatesOK' /\ opath' = <<>>
      /\ network' = network /\ ubodt' = ubodt
      /\ Len(tc') \in Nat \ {0} /\ DOMAIN tc' = 1 .. Len(tc')
      /\ \/ pc' = "start" /\ stage' = "done"
         \/ pc' = "update" /\ level' = 1 /\ stage' = "match" /\ N' = Len(tc')
  BY <1>1, CandidatesFound DEF StCore, StTypeOK
<1>4. durations' \in Seconds'
  BY <1>1, StMatchAssumption DEF Seconds
<1>5. \A i \in DOMAIN tc' : \A b \in DOMAIN tc'[i] :
        tc'[i][b].offset <= network[tc'[i][b].edge].length
  BY <1>1 DEF SearchCandidates
<1>6. OnTheirEdges'
  BY <1>3, <1>5 DEF OnTheirEdges
<1>7. ~ IsMatched' /\ stage' # "complete"
  BY <1>3 DEF IsMatched
<1>8. TakenFirst'
  BY <1>2 DEF TakenFirst
<1>9. StTypeOK'
  BY <1>1, <1>2, <1>3, <1>4 DEF StTypeOK
<1> QED
  BY <1>2, <1>6, <1>7, <1>8, <1>9 DEF StCore

(* A step that goes on with the forward pass or the backtracking leaves no *)
(* distances behind.                                                       *)
LEMMA LayersStep ==
  ASSUME StCore, TGIInv', UNCHANGED <<matchVars, durations, ep>>, pc # "start", pc' # "start",
         rows' = <<>>, search' = NoSearch, stage = "match"
  PROVE  StCore'
<1>1. /\ network' = network /\ ubodt' = ubodt /\ tc' = tc /\ eu_dists' = eu_dists
      /\ stage' = "match" /\ ep' = ep /\ durations' = durations
  BY DEF matchVars
<1>2. N' = N
  BY <1>1 DEF N
<1>3. CandidatesOK' /\ OnTheirEdges' /\ durations' \in Seconds'
  BY <1>1, <1>2 DEF StCore, StTypeOK, CandidatesOK, OnTheirEdges, Seconds
<1>4. StTypeOK' /\ TakenFirst' /\ ~ IsMatched'
  BY <1>1, <1>3 DEF StCore, StTypeOK, TakenFirst, IsMatched
<1> QED
  BY <1>1, <1>3, <1>4 DEF StCore

LEMMA SearchedTransitions ==
  ASSUME StCore, pc # "start", level < N, Len(rows) = Len(ep[level])
  PROVE  [a \in Layer(level) |-> [b \in Layer(level + 1) |->
            TransitionCost(rows[a][b], eu_dists[level])]] \in Transitions(level)
<1> DEFINE Row == [Layer(level + 1) -> Nat \cup {Unreachable}]
<1>1. rows \in Seq(Row)
  <2>1. CASE rows = <<>>
    BY <2>1
  <2> QED
    BY <2>1 DEF StCore, StTypeOK
<1>2. eu_dists[level] \in Nat
  <2>1. level \in 1 .. N - 1
    BY DEF StCore, StTypeOK, TGIInv, TGTypeOK, N
  <2> QED
    BY <2>1 DEF StCore, StTypeOK, CandidatesOK
<1>3. ASSUME NEW a \in Layer(level), NEW b \in Layer(level + 1)
      PROVE  TransitionCost(rows[a][b], eu_dists[level]) \in Cost
  <2>1. rows[a] \in Row
    BY <1>1 DEF Layer
  <2>2. rows[a][b] \in Int
    BY <2>1 DEF Unreachable
  <2>3. CalcTp(rows[a][b], eu_dists[level]) \in Cost
    BY <1>2, <2>2, TpIsCost
  <2> QED
    BY <2>3, StMatchAssumption DEF TransitionCost, Cost
<1> QED
  BY <1>3 DEF Transitions

LEMMA StUpdateStep ==
  ASSUME StCore, StUpdateLayer
  PROVE  StCore'
<1> DEFINE tp == [a \in Layer(level) |-> [b \in Layer(level + 1) |->
                    TransitionCost(rows[a][b], eu_dists[level])]]
<1>1. /\ stage = "match" /\ search = NoSearch /\ level < N /\ Len(rows) = Len(ep[level])
      /\ RunLayer(tp) /\ rows' = <<>> /\ UNCHANGED <<matchVars, durations, search>>
  BY DEF StUpdateLayer
<1>2. pc = "update" /\ pc' = pc /\ ep' = ep
  BY <1>1 DEF RunLayer
<1>3. tp \in Transitions(level)
  BY <1>1, <1>2, SearchedTransitions
<1> HIDE DEF tp
<1>4. TGIInv'
  BY <1>1, <1>2, <1>3, ForwardStep DEF StCore, StTypeOK
<1> QED
  BY <1>1, <1>2, <1>4, LayersStep

LEMMA StBacktrackStep ==
  ASSUME StCore, StBacktrack
  PROVE  StCore'
<1>1. /\ stage = "match" /\ UNCHANGED <<matchVars, durations, rows, search>>
      /\ (level = N /\ Backtrack) \/ TrackBack
  BY DEF StBacktrack
<1>2. TGIInv'
  BY <1>1, BacktrackStep, TrackBackStep DEF StCore, StTypeOK
<1>3. pc # "start" /\ pc' # "start" /\ ep' = ep /\ (level = N \/ pc # "update")
  BY <1>1 DEF Backtrack, TrackBack
<1>4. rows = <<>> /\ search = NoSearch
  BY <1>3 DEF StCore, StTypeOK, TGIInv, TGTypeOK, N
<1> QED
  BY <1>1, <1>2, <1>3, <1>4, LayersStep

(* A step of build_cpath keeps all but the stage and the path.             *)
LEMMA BuildStep ==
  ASSUME StCore, BuildCPath
  PROVE  StCore'
<1>1. /\ BeginComplete \/ CompletePair \/ Return
      /\ UNCHANGED <<durations, rows, search>>
  BY DEF BuildCPath
<1>2. UNCHANGED <<tgVars, network, ubodt, tc, eu_dists, durations>>
  BY <1>1 DEF BeginComplete, CompletePair, Return
<1>3. /\ TGIInv' /\ CandidatesOK' /\ OnTheirEdges'
      /\ network' \in Networks /\ ubodt' = Tables[network'] /\ durations' \in Seconds'
      /\ pc' = pc /\ opath' = opath /\ N' = N
  BY <1>2, CandidatesStand
<1>4. stage = "complete" \/ pc = "done"
  BY <1>1 DEF BeginComplete, CompletePair, Return
<1>5. rows' = <<>> /\ search' = NoSearch /\ pc = "done"
  BY <1>1, <1>4 DEF StCore
<1>6. /\ stage' \in {"complete", "done"}
      /\ stage' = "complete" => opath' # <<>> /\ PathSoFar'
      /\ IsMatched' => IF cpath' = <<>> THEN indices' = <<>>
                       ELSE PathSoFar' /\ Len(indices') = N
  <2>1. CASE BeginComplete
    <3>1. CASE opath = <<>>
      BY <1>3, <2>1, <3>1 DEF BeginComplete, IsMatched
    <3>2. CASE opath # <<>>
      <4>1. PathSoFar' /\ stage' = "complete" /\ opath' = opath
        BY <2>1, <3>2, PathBegun DEF StCore, StTypeOK
      <4> QED
        BY <3>2, <4>1 DEF IsMatched
    <3> QED
      BY <3>1, <3>2
  <2>2. CASE CompletePair
    <3>1. stage = "complete" /\ opath # <<>> /\ PathSoFar
      BY <2>2 DEF CompletePair, StCore
    <3>2. \/ stage' = "complete"
          \/ stage' = "done" /\ cpath' = <<>> /\ indices' = <<>>
      BY <2>2, <3>1 DEF CompletePair
    <3>3. N \in Nat \ {0} /\ \A i \in 1 .. N : Matched(i) \in Candidate
      BY <1>5, <3>1, MatchedCandidates DEF StCore, StTypeOK
    <3>4. stage' = "complete" => PathSoFar'
      BY <2>2, <3>1, <3>3, PairAdded DEF StCore, StTypeOK
    <3> QED
      BY <1>3, <3>1, <3>2, <3>4 DEF IsMatched
  <2>3. CASE Return
    <3>1. /\ PathSoFar /\ Len(indices) = N /\ stage' = "done" /\ opath # <<>>
          /\ cpath' = cpath /\ indices' = indices
      BY <2>3 DEF Return, StCore
    <3>3. PathSoFar'
      BY <2>3, <3>1, PathStands DEF Return
    <3>4. cpath # <<>>
      BY <3>1 DEF PathSoFar
    <3> QED
      BY <3>1, <3>3, <3>4
  <2> QED
    BY <1>1, <2>1, <2>2, <2>3
<1>7. StTypeOK' /\ TakenFirst'
  BY <1>3, <1>5, <1>6 DEF StTypeOK, TakenFirst
<1> QED
  BY <1>3, <1>5, <1>6, <1>7 DEF StCore

LEMMA StQuietStep ==
  ASSUME StCore, UNCHANGED stVars
  PROVE  StCore'
<1>1. UNCHANGED <<fmmVars, durations, rows, search>>
  BY DEF stVars
<1>2. CASE rows # <<>> \/ search # NoSearch
  <2>1. TakenFirst'
    BY <1>1 DEF StCore, TakenFirst, InQueue
  <2> QED
    BY <1>1, <1>2, <2>1, OnlySearchChanges DEF StCore, StTypeOK
<1>3. CASE rows = <<>> /\ search = NoSearch
  <2>1. /\ UNCHANGED <<tgVars, network, ubodt, tc, eu_dists, durations>>
        /\ stage' = stage /\ cpath' = cpath /\ indices' = indices
    BY <1>1 DEF fmmVars, matchVars
  <2>2. /\ TGIInv' /\ CandidatesOK' /\ OnTheirEdges'
        /\ network' \in Networks /\ ubodt' = Tables[network'] /\ durations' \in Seconds'
        /\ pc' = pc /\ opath' = opath /\ N' = N
    BY <2>1, CandidatesStand
  <2>4. (PathSoFar' <=> PathSoFar) /\ (IsMatched' <=> IsMatched)
    <3>1. PathSoFar' <=> PathSoFar
      BY <2>1, PathStands
    <3> QED
      BY <2>1, <2>2, <3>1 DEF IsMatched
  <2>5. rows' = <<>> /\ search' = NoSearch
    BY <1>1, <1>3
  <2>6. StTypeOK' /\ TakenFirst'
    BY <2>1, <2>2, <2>5 DEF StCore, StTypeOK, TakenFirst
  <2> QED
    BY <2>1, <2>2, <2>4, <2>5, <2>6 DEF StCore
<1> QED
  BY <1>2, <1>3

-----------------------------------------------------------------------------
(* The search of the model is one of those above.                          *)
LEMMA SearchedRoad ==
  ASSUME StCore, OneOnAnEdge, pc = "update", level < N
  PROVE  /\ OnRoad(network, tc) /\ OneEach(tc) /\ tc \in Seq(Seq(Candidate))
         /\ level \in DOMAIN tc /\ level + 1 \in DOMAIN tc
         /\ DOMAIN tc = 1 .. N /\ N \in Nat
         /\ \A i \in 1 .. N : Layer(i) = DOMAIN tc[i]
         /\ Bound(level) \in Int
<1>1. /\ network \in Networks /\ network \in Graph /\ level \in 1 .. N - 1 /\ N \in Nat
  BY MatchAssumption DEF StCore, StTypeOK, TGIInv, TGTypeOK, N
<1>2. /\ tc \in Seq(Seq(Candidate)) /\ Len(tc) = N
      /\ \A i \in 1 .. N : Len(tc[i]) = Len(ep[i])
      /\ eu_dists \in [1 .. N - 1 -> Nat] /\ durations \in Seconds
  BY DEF StCore, StTypeOK, CandidatesOK
<1>3. /\ DOMAIN tc = 1 .. N /\ level \in DOMAIN tc /\ level + 1 \in DOMAIN tc
  BY <1>1, <1>2
<1>4. \A i \in 1 .. N : Layer(i) = DOMAIN tc[i]
  <2> SUFFICES ASSUME NEW i \in 1 .. N PROVE Layer(i) = DOMAIN tc[i]
    OBVIOUS
  <2>1. tc[i] \in Seq(Candidate)
    BY <1>2, <1>3
  <2> QED
    BY <1>2, <2>1 DEF Layer
<1>5. OnRoad(network, tc)
  BY <1>1, <1>2, <1>3 DEF OnRoad, StCore, OnTheirEdges
<1>6. OneEach(tc)
  BY <1>3 DEF OneEach, OneOnAnEdge
<1>7. Bound(level) \in Int
  <2>1. CASE durations = <<>>
    <3>1. eu_dists[level] \in Nat
      BY <1>1, <1>2
    <3> QED
      BY <2>1, <3>1, StMatchAssumption DEF Bound
  <2>2. CASE durations # <<>>
    <3>1. durations[level] \in Int
      BY <1>1, <1>2, <2>2 DEF Seconds
    <3> QED
      BY <2>2, <3>1, StMatchAssumption DEF Bound
  <2> QED
    BY <2>1, <2>2
<1> QED
  BY <1>1, <1>2, <1>3, <1>4, <1>5, <1>6, <1>7

LEMMA SearchKnown ==
  ASSUME StCore, search # NoSearch
  PROVE  InComposite(tc, search) /\ Queue(search) = InQueue /\ Ordered(search)
<1>1. InComposite(tc, search)
  BY DEF StCore, StTypeOK, SearchState, InComposite
<1>2. Queue(search) = InQueue
  BY DEF Queue, InQueue
<1>3. DOMAIN search.heap = DOMAIN search.dmap
  BY <1>1 DEF InComposite
<1>4. \A v \in Taken(search) : v \in DOMAIN search.dmap \ InQueue /\ search.dmap[v] # Absent
  BY DEF Taken, InQueue
<1>5. Ordered(search)
  BY <1>2, <1>4 DEF StCore, TakenFirst, Ordered
<1> QED
  BY <1>1, <1>2, <1>5

LEMMA RelaxedExpands ==
  ASSUME StCore, OneOnAnEdge, search # NoSearch, pc = "update", level < N, NEW u \in InQueue
  PROVE  Expanded(network, tc, Bound(level), search, u, Relaxed(u))
<1> DEFINE far == Relaxed(u)
           arcs == CG!OutArcs(network, tc, u)
           h == search.heap[u]
           C == CG!CompNode(tc)
           bound == Bound(level)
           costs(v) == {r.cost : r \in {arc \in arcs : arc.target = v}}
           nearest(v) == CHOOSE c \in costs(v) : \A other \in costs(v) : c <= other
<1>1. /\ search.heap \in [C -> Nat \cup {Absent}] /\ search.dmap \in [C -> Nat \cup {Absent}]
      /\ bound \in Int /\ OnRoad(network, tc)
  BY SearchKnown, SearchedRoad DEF InComposite
<1>2. /\ h \in Nat
      /\ \A v \in C : \/ far[v] = search.dmap[v]
                      \/ /\ far[v] \in Nat /\ h <= far[v]
                         /\ search.dmap[v] = Absent \/ far[v] < search.dmap[v]
  <2>1. h \in Nat
    BY <1>1 DEF InQueue
  <2>2. pc # "start"
    OBVIOUS
  <2> QED
    BY <2>1, <2>2, RelaxedDistance DEF StCore
<1>3. \A v \in C : far[v] = IF costs(v) = {} THEN search.dmap[v] ELSE Shortened(v, h + nearest(v))
  BY <1>1 DEF Relaxed, RelaxedTo
<1>4. far \in [C -> Nat \cup {Absent}]
  <2>1. far = [v \in DOMAIN search.dmap |-> far[v]]
    BY DEF Relaxed
  <2> HIDE DEF far
  <2> QED
    BY <1>1, <1>2, <2>1
<1>5. ASSUME NEW v, costs(v) # {}
      PROVE  nearest(v) \in costs(v) /\ \A other \in costs(v) : nearest(v) <= other
  <2> DEFINE T == costs(v)
  <2>1. T \in SUBSET Nat
    BY <1>1, CostIsNat
  <2>2. T # {}
    BY <1>5
  <2> HIDE DEF T
  <2>3. PICK c \in T : \A other \in T : c <= other
    BY <2>1, <2>2, LeastElement
  <2>4. LET m == CHOOSE x \in T : \A other \in T : x <= other IN
        m \in T /\ \A other \in T : m <= other
    BY <2>3
  <2> QED
    BY <2>4 DEF T
<1>6. \A v : \A c \in costs(v) : c \in Nat /\ \E r \in arcs : r.target = v /\ r.cost = c
  BY <1>1, CostIsNat
<1>7. \A r \in arcs : r.cost \in costs(r.target)
  OBVIOUS
<1> HIDE DEF nearest, costs, arcs, far, C, bound, h
<1>8. ASSUME NEW v \in C, far[v] # search.dmap[v]
      PROVE  /\ \E r \in arcs : r.target = v /\ far[v] = h + r.cost
             /\ h <= far[v]
             /\ IF search.dmap[v] = Absent THEN far[v] <= bound ELSE far[v] < search.dmap[v]
  <2>1. costs(v) # {} /\ far[v] = Shortened(v, h + nearest(v))
    BY <1>3, <1>8
  <2>2. far[v] = h + nearest(v) /\ (search.dmap[v] = Absent => far[v] <= bound)
    BY <1>8, <2>1 DEF Shortened, bound
  <2>3. \E r \in arcs : r.target = v /\ far[v] = h + r.cost
    BY <1>5, <1>6, <2>1, <2>2
  <2> QED
    BY <1>2, <1>8, <2>2, <2>3
<1>9. ASSUME NEW r \in arcs, h + r.cost <= bound
      PROVE  far[r.target] # Absent /\ far[r.target] <= h + r.cost
  <2> DEFINE v == r.target
             near == nearest(v)
             c == r.cost
             d == h + near
             old == search.dmap[v]
  <2>1. v \in C
    BY <1>1, ArcEnds DEF arcs, C
  <2>2. c \in costs(v) /\ costs(v) # {}
    BY <1>7
  <2>3. near \in Nat /\ c \in Nat /\ near <= c
    BY <1>5, <1>6, <2>2
  <2>4. far[v] = Shortened(v, d) /\ old \in Nat \cup {Absent}
    BY <1>1, <1>3, <2>1, <2>2
  <2>5. far[v] = IF (old # Absent /\ old > d) \/ (old = Absent /\ d <= bound) THEN d ELSE old
    BY <2>4, Zenon DEF Shortened, bound
  <2>6. h + c <= bound
    BY <1>9
  <2> HIDE DEF near, c, old, v
  <2>7. d \in Nat /\ d <= h + c /\ d <= bound
    BY <1>1, <1>2, <2>3, <2>6
  <2>8. far[v] # Absent /\ far[v] <= h + c
    <3> HIDE DEF d
    <3> QED
      BY <1>2, <2>3, <2>4, <2>5, <2>7 DEF Absent
  <2> QED
    BY <2>8 DEF v, c
<1> QED
  BY <1>4, <1>8, <1>9 DEF Expanded, far, C, arcs, h, bound

-----------------------------------------------------------------------------
(* What a step of a search leaves standing besides.                        *)
LEMMA DistancesStand ==
  ASSUME UNCHANGED <<network, ubodt, tc, eu_dists, durations>>
  PROVE  /\ \A a, b : GetSpDist(a, b)' = GetSpDist(a, b)
         /\ \A i : Bound(i)' = Bound(i)
BY DEF GetSpDist, BackBy, Allowed, DistanceOver, LookUp, Bound

LEMMA ScoringStands ==
  ASSUME StInv, UNCHANGED <<tgVars, network, ubodt, tc, eu_dists, durations>>
  PROVE  OneOnAnEdge' /\ SearchesScored' /\ level' = level /\ \A i : Layer(i)' = Layer(i)
<1>1. /\ ep' = ep /\ tps' = tps /\ level' = level /\ pc' = pc /\ tc' = tc /\ eu_dists' = eu_dists
  BY DEF tgVars
<1>2. N' = N /\ \A i : Layer(i)' = Layer(i)
  BY <1>1 DEF N, Layer
<1>3. OneOnAnEdge'
  BY <1>1, <1>2 DEF StInv, OneOnAnEdge
<1>4. SearchesScored'
  BY <1>1, <1>2, DistancesStand DEF StInv, SearchesScored
<1> QED
  BY <1>1, <1>2, <1>3, <1>4

\* As long as the trajectory is matched there is no path to give up.
LEMMA NotYetMatched ==
  ASSUME stage' = "match"
  PROVE  GaveUp'
BY DEF GaveUp, IsMatched

LEMMA StartSearchFinds ==
  ASSUME StInv, StartSearch
  PROVE  StInv'
<1> DEFINE n == Len(rows) + 1
           source == CG!CandidateNode(tc, level, n)
<1>1. /\ stage = "match" /\ pc = "update" /\ level < N /\ Len(rows) < Len(ep[level])
      /\ UNCHANGED <<fmmVars, durations>> /\ rows' = rows
      /\ search' = [unreached |-> Targets,
                    heap |-> [Unknown EXCEPT ![source] = 0],
                    dmap |-> [Unknown EXCEPT ![source] = 0],
                    over |-> FALSE]
  BY DEF StartSearch
<1>2. /\ UNCHANGED <<tgVars, network, ubodt, tc, eu_dists, durations>> /\ stage' = "match"
  BY <1>1 DEF fmmVars, matchVars
<1>3. /\ OnRoad(network, tc) /\ level \in DOMAIN tc /\ level + 1 \in DOMAIN tc
      /\ DOMAIN tc = 1 .. N /\ Bound(level) \in Int
      /\ \A i \in 1 .. N : Layer(i) = DOMAIN tc[i]
  BY <1>1, SearchedRoad DEF StInv
<1>4. n \in DOMAIN tc[level]
  <2>1. Len(rows) \in Nat
    BY DEF StInv, StCore, StTypeOK
  <2>2. Len(ep[level]) \in Nat
    BY <1>3 DEF StInv, StCore, StTypeOK, TGIInv, TGTypeOK, N
  <2>3. n \in Layer(level)
    BY <1>1, <2>1, <2>2 DEF Layer
  <2> QED
    BY <1>3, <2>3
<1>5. Finds(network, tc, level, n, Bound(level), search')
  <2>1. Targets = { CG!CandidateNode(tc, level + 1, b) : b \in DOMAIN tc[level + 1] }
    BY <1>3 DEF Targets
  <2>2. /\ search'.unreached = Targets /\ search'.heap = search'.dmap /\ search'.over = FALSE
        /\ search'.dmap = [[v \in CG!CompNode(tc) |-> Absent] EXCEPT ![source] = 0]
    BY <1>1 DEF Unknown
  <2> QED
    BY <1>3, <1>4, <2>1, <2>2, SourceFinds
<1>6. OneOnAnEdge' /\ SearchesScored' /\ level' = level /\ \A i : Layer(i)' = Layer(i)
  BY <1>2, ScoringStands
<1>7. (Finds(network, tc, level, Len(rows) + 1, Bound(level), search))'
  BY <1>1, <1>2, <1>5, <1>6, DistancesStand
<1>8. RowsExact'
  BY <1>1, <1>2, <1>6, DistancesStand DEF StInv, RowsExact
<1>9. StCore'
  BY StartSearchStep DEF StInv
<1> QED
  BY <1>2, <1>6, <1>7, <1>8, <1>9, NotYetMatched DEF StInv

LEMMA ExpandGoesOn ==
  ASSUME StInv, Expand
  PROVE  StInv'
<1>1. Searching /\ UNCHANGED <<fmmVars, durations, rows>>
  BY DEF Expand
<1>2. search # NoSearch /\ stage = "match" /\ pc = "update" /\ level < N /\ ~ search.over
  BY <1>1 DEF Searching, StInv, StCore
<1>3. /\ UNCHANGED <<tgVars, network, ubodt, tc, eu_dists, durations>> /\ stage' = "match"
  BY <1>1, <1>2 DEF fmmVars, matchVars
<1>4. /\ OnRoad(network, tc) /\ OneEach(tc) /\ level \in DOMAIN tc /\ Bound(level) \in Int
  BY <1>2, SearchedRoad DEF StInv
<1>5. /\ InComposite(tc, search) /\ Ordered(search) /\ Queue(search) = InQueue
      /\ Finds(network, tc, level, Len(rows) + 1, Bound(level), search)
      /\ search \in SearchState
  BY <1>2, SearchKnown DEF StInv, StCore, StTypeOK
<1>6. PICK u \in InQueue :
        /\ \A v \in InQueue : Before(u, v)
        /\ IF search.heap[u] > Bound(level)
            THEN search' = [search EXCEPT !.unreached = @ \ {u}, !.heap[u] = Absent,
                                          !.over = TRUE]
            ELSE search' =
                   [search EXCEPT
                      !.unreached = @ \ {u},
                      !.dmap = Relaxed(u),
                      !.heap = [v \in DOMAIN @ |->
                                  IF Relaxed(u)[v] # search.dmap[v] THEN Relaxed(u)[v]
                                  ELSE IF v = u THEN Absent ELSE @[v]]]
  BY DEF Expand
<1>7. \A w \in InQueue : search.heap[u] <= search.heap[w]
  BY <1>1, <1>6, TakenIsNearest DEF StInv
<1>8. Finds(network, tc, level, Len(rows) + 1, Bound(level), search')
  <2>1. CASE search.heap[u] > Bound(level)
    <3>1. /\ search'.dmap = search.dmap /\ search'.unreached = search.unreached \ {u}
          /\ search'.heap = [search.heap EXCEPT ![u] = Absent]
      BY <1>5, <1>6, <2>1 DEF SearchState
    <3> QED
      BY <1>4, <1>5, <1>7, <2>1, <3>1, StopFinds
  <2>2. CASE ~ (search.heap[u] > Bound(level))
    <3> DEFINE far == Relaxed(u)
    <3>1. Expanded(network, tc, Bound(level), search, u, far)
      BY <1>2, RelaxedExpands DEF StInv
    <3> HIDE DEF far
    <3>2. DOMAIN search.heap = CG!CompNode(tc)
      BY <1>5 DEF InComposite
    <3>3. /\ search'.dmap = far /\ search'.unreached = search.unreached \ {u}
          /\ search'.over = search.over
          /\ search'.heap = [v \in CG!CompNode(tc) |->
                               IF far[v] # search.dmap[v] THEN far[v]
                               ELSE IF v = u THEN Absent ELSE search.heap[v]]
      BY <1>5, <1>6, <2>2, <3>2 DEF SearchState, far
    <3> QED
      BY <1>2, <1>4, <1>5, <3>1, <3>3, ExpandFinds
  <2> QED
    BY <2>1, <2>2
<1>9. OneOnAnEdge' /\ SearchesScored' /\ level' = level /\ \A i : Layer(i)' = Layer(i)
  BY <1>3, ScoringStands
<1>10. (Finds(network, tc, level, Len(rows) + 1, Bound(level), search))'
  BY <1>1, <1>3, <1>8, <1>9, DistancesStand
<1>11. RowsExact'
  BY <1>1, <1>3, <1>9, DistancesStand DEF StInv, RowsExact
<1>12. StCore'
  BY ExpandStep DEF StInv
<1> QED
  BY <1>3, <1>9, <1>10, <1>11, <1>12, NotYetMatched DEF StInv

LEMMA EndSearchExact ==
  ASSUME StInv, EndSearch
  PROVE  StInv'
<1> DEFINE row == [b \in Layer(level + 1) |->
                     LET d == search.dmap[CG!CandidateNode(tc, level + 1, b)] IN
                     IF d = Absent THEN Unreachable ELSE d]
           n == Len(rows) + 1
           dist(a, b) == Within(GetSpDist(tc[level][a], tc[level + 1][b]), Bound(level))
<1>1. /\ search # NoSearch /\ ~ Searching /\ search' = NoSearch
      /\ rows' = Append(rows, row) /\ UNCHANGED <<fmmVars, durations>>
  BY DEF EndSearch
<1>2. stage = "match" /\ pc = "update" /\ level < N
  BY <1>1 DEF StInv, StCore
<1>3. /\ UNCHANGED <<tgVars, network, ubodt, tc, eu_dists, durations>> /\ stage' = "match"
  BY <1>1, <1>2 DEF fmmVars, matchVars
<1>4. /\ OnRoad(network, tc) /\ OneEach(tc) /\ level \in DOMAIN tc /\ level + 1 \in DOMAIN tc
      /\ Bound(level) \in Int
  BY <1>2, SearchedRoad DEF StInv
<1>5. /\ InComposite(tc, search) /\ Ordered(search) /\ Queue(search) = InQueue
      /\ Finds(network, tc, level, n, Bound(level), search)
  BY <1>1, SearchKnown DEF StInv
<1>6. search.over \/ Queue(search) = {} \/ search.unreached = {}
  BY <1>1, <1>5 DEF Searching
<1>7. network \in Networks /\ ubodt = Tables[network]
  BY DEF StInv, StCore, StTypeOK
<1>8. \A b \in Layer(level + 1) : row[b] = dist(n, b)
  <2> SUFFICES ASSUME NEW b \in Layer(level + 1) PROVE row[b] = dist(n, b)
    OBVIOUS
  <2>1. b \in DOMAIN tc[level + 1]
    BY <1>2, <1>4, SearchedRoad DEF StInv
  <2> HIDE DEF n
  <2>2. Found(search, CG!CandidateNode(tc, level + 1, b))
          = Within(GetSpDist(tc[level][n], tc[level + 1][b]), Bound(level))
    BY <1>4, <1>5, <1>6, <1>7, <2>1, FoundExactly
  <2> QED
    BY <2>2 DEF Found
<1>9. \A a \in 1 .. Len(rows) : \A b \in Layer(level + 1) : rows[a][b] = dist(a, b)
  BY DEF StInv, RowsExact
<1> HIDE DEF row, dist
<1>10. /\ Len(rows) \in Nat /\ Len(rows') = n
       /\ \A a \in 1 .. Len(rows) : rows'[a] = rows[a]
       /\ rows'[n] = row
  <2>1. \E S : rows \in Seq(S) /\ row \in S
    <3> DEFINE S == [Layer(level + 1) -> Nat \cup {Unreachable}] \cup {row}
    <3>1. rows \in Seq(S)
      <4>1. CASE rows = <<>>
        BY <4>1
      <4>2. CASE rows # <<>>
        <5>1. rows \in Seq([Layer(level + 1) -> Nat \cup {Unreachable}])
          BY <4>2 DEF StInv, StCore, StTypeOK
        <5> QED
          BY <5>1
      <4> QED
        BY <4>1, <4>2
    <3>2. row \in S
      OBVIOUS
    <3> QED
      BY <3>1, <3>2
  <2>2. PICK S : rows \in Seq(S) /\ row \in S
    BY <2>1
  <2> QED
    BY <1>1, <2>2
<1>11. ASSUME NEW a \in 1 .. n, NEW b \in Layer(level + 1) PROVE rows'[a][b] = dist(a, b)
  <2>1. a = n \/ a \in 1 .. Len(rows)
    BY <1>10
  <2> QED
    BY <1>8, <1>9, <1>10, <2>1
<1>12. OneOnAnEdge' /\ SearchesScored' /\ level' = level /\ \A i : Layer(i)' = Layer(i)
  BY <1>3, ScoringStands
<1>13. RowsExact'
  BY <1>3, <1>10, <1>11, <1>12, DistancesStand DEF RowsExact, dist
<1>14. StCore'
  BY EndSearchStep DEF StInv
<1> QED
  BY <1>1, <1>3, <1>12, <1>13, <1>14, NotYetMatched DEF StInv

-----------------------------------------------------------------------------
(* The steps outside of a search.                                          *)
LEMMA CandidatesApart ==
  ASSUME StInv, StSearchCandidates
  PROVE  StInv'
<1>1. /\ SearchCandidates /\ rows' = rows /\ search' = search /\ pc = "start"
  BY DEF StSearchCandidates, SearchCandidates
<1>2. rows = <<>> /\ search = NoSearch
  BY <1>1 DEF StInv, StCore
<1>3. /\ DOMAIN tc' = 1 .. Len(tc') /\ CandidatesOK'
      /\ \/ pc' = "start" /\ stage' = "done"
         \/ pc' = "update" /\ level' = 1 /\ stage' = "match" /\ N' = Len(tc')
      /\ opath' = <<>>
  BY <1>1, CandidatesFound DEF StInv, StCore, StTypeOK
<1>4. \A i \in DOMAIN tc' : tc'[i] \in Points
  BY <1>1 DEF SearchCandidates
<1>5. OneOnAnEdge'
  BY <1>3, <1>4, OneCandidateAnEdge DEF OneOnAnEdge
<1>6. SearchesScored'
  BY <1>3 DEF SearchesScored
<1>7. RowsExact'
  BY <1>1, <1>2 DEF RowsExact
<1>8. GaveUp'
  BY <1>3 DEF GaveUp, IsMatched
<1>9. StCore'
  BY <1>1, StCandidatesStep DEF StInv
<1> QED
  BY <1>1, <1>2, <1>5, <1>6, <1>7, <1>8, <1>9 DEF StInv

LEMMA UpdateScores ==
  ASSUME StInv, StUpdateLayer
  PROVE  StInv'
<1> DEFINE tp == [a \in Layer(level) |-> [b \in Layer(level + 1) |->
                    TransitionCost(rows[a][b], eu_dists[level])]]
           dist(i, a, b) == Within(GetSpDist(tc[i][a], tc[i + 1][b]), Bound(i))
<1>1. /\ stage = "match" /\ search = NoSearch /\ level < N /\ Len(rows) = Len(ep[level])
      /\ RunLayer(tp) /\ rows' = <<>> /\ UNCHANGED <<matchVars, durations, search>>
  BY DEF StUpdateLayer
<1>2. /\ pc = "update" /\ pc' = pc /\ ep' = ep /\ level' = level + 1
      /\ tps' = [i \in 1 .. level |-> IF i = level THEN tp ELSE tps[i]]
  BY <1>1 DEF RunLayer
<1>3. /\ UNCHANGED <<network, ubodt, tc, eu_dists, durations>> /\ stage' = "match"
  BY <1>1 DEF matchVars
<1>4. N' = N /\ (\A i : Layer(i)' = Layer(i)) /\ level \in Nat
  BY <1>2 DEF N, Layer, StInv, StCore, StTypeOK, TGIInv, TGTypeOK
<1>5. ASSUME NEW a \in Layer(level), NEW b \in Layer(level + 1)
      PROVE  tp[a][b] = TransitionCost(dist(level, a, b), eu_dists[level])
  <2>1. a \in 1 .. Len(rows)
    BY <1>1 DEF Layer
  <2>2. rows[a][b] = dist(level, a, b)
    BY <2>1 DEF StInv, RowsExact
  <2>3. tp[a][b] = TransitionCost(rows[a][b], eu_dists[level])
    OBVIOUS
  <2> HIDE DEF tp, dist
  <2> QED
    BY <2>2, <2>3
<1> HIDE DEF tp
<1>6. ASSUME NEW i \in 1 .. level, NEW a \in Layer(i), NEW b \in Layer(i + 1)
      PROVE  tps'[i][a][b] = TransitionCost(dist(i, a, b), eu_dists[i])
  <2>1. CASE i = level
    BY <1>2, <1>5, <2>1
  <2>2. CASE i # level
    <3>1. i \in 1 .. level - 1
      BY <1>4, <2>2
    <3>2. tps[i][a][b] = TransitionCost(dist(i, a, b), eu_dists[i])
      BY <1>2, <3>1 DEF StInv, SearchesScored
    <3> QED
      BY <1>2, <2>2, <3>2
  <2> QED
    BY <2>1, <2>2
<1>7. SearchesScored'
  <2>1. 1 .. level' - 1 = 1 .. level
    BY <1>2, <1>4
  <2>2. \A i, a, b : dist(i, a, b)' = dist(i, a, b)
    BY <1>3, DistancesStand
  <2> HIDE DEF dist
  <2>3. \A i \in 1 .. level : \A a \in Layer(i), b \in Layer(i + 1) :
          tps'[i][a][b] = TransitionCost(dist(i, a, b)', eu_dists'[i])
    BY <1>3, <1>6, <2>2
  <2>4. (\A i \in 1 .. level - 1 : \A a \in Layer(i), b \in Layer(i + 1) :
          tps[i][a][b] = TransitionCost(dist(i, a, b), eu_dists[i]))'
    BY <1>4, <2>1, <2>3
  <2> QED
    BY <2>4 DEF SearchesScored, dist
<1>8. OneOnAnEdge'
  BY <1>2, <1>3, <1>4 DEF StInv, OneOnAnEdge
<1>9. RowsExact'
  BY <1>1 DEF RowsExact
<1>10. StCore'
  BY StUpdateStep DEF StInv
<1> QED
  BY <1>1, <1>3, <1>7, <1>8, <1>9, <1>10, NotYetMatched DEF StInv

LEMMA BacktrackKeepsScores ==
  ASSUME StInv, StBacktrack
  PROVE  StInv'
<1>1. /\ stage = "match" /\ UNCHANGED <<matchVars, durations, rows, search>>
      /\ (level = N /\ Backtrack) \/ TrackBack
  BY DEF StBacktrack
<1>2. /\ pc # "start" /\ pc' # "start" /\ (level = N \/ pc # "update")
      /\ UNCHANGED <<ep, tps, level>>
  BY <1>1 DEF Backtrack, TrackBack
<1>3. /\ UNCHANGED <<network, ubodt, tc, eu_dists, durations>> /\ stage' = "match"
  BY <1>1 DEF matchVars
<1>4. N' = N /\ \A i : Layer(i)' = Layer(i)
  BY <1>2 DEF N, Layer
<1>5. rows = <<>> /\ search = NoSearch
  BY <1>2 DEF StInv, StCore, StTypeOK, TGIInv, TGTypeOK, N
<1>6. SearchesScored'
  BY <1>2, <1>3, <1>4, DistancesStand DEF StInv, SearchesScored
<1>7. OneOnAnEdge'
  BY <1>2, <1>3, <1>4 DEF StInv, OneOnAnEdge
<1>8. RowsExact'
  BY <1>1, <1>5 DEF RowsExact
<1>9. StCore'
  BY StBacktrackStep DEF StInv
<1> QED
  BY <1>1, <1>3, <1>5, <1>6, <1>7, <1>8, <1>9, NotYetMatched DEF StInv

(* Where build_cpath gives up the table has no way.                        *)
LEMMA NoWayNoDistance ==
  ASSUME network \in Networks, ubodt = Tables[network],
         NEW a \in Candidate, NEW b \in Candidate, Moves(a, b),
         LookSpPath(network[a.edge].target, network[b.edge].source) = <<>>,
         network[a.edge].target # network[b.edge].source
  PROVE  GetSpDist(a, b) = Unreachable
<1> SUFFICES ASSUME GetSpDist(a, b) # Unreachable PROVE FALSE
  OBVIOUS
<1> DEFINE d == GetSpDist(a, b)
<1>1. d \in Int
  BY DistanceIsInt
<1>2. CalcTp(d, d) # Impossible
  <2> HIDE DEF d
  <2>1. d # Unreachable
    BY DEF d
  <2> QED
    BY <1>1, <2>1 DEF CalcTp, Impossible
<1> QED
  BY <1>2, MovesOverAWay

LEMMA BuildGivesUp ==
  ASSUME StInv, BuildCPath
  PROVE  StInv'
<1>1. /\ BeginComplete \/ CompletePair \/ Return
      /\ UNCHANGED <<durations, rows, search>>
  BY DEF BuildCPath
<1>2. UNCHANGED <<tgVars, network, ubodt, tc, eu_dists, durations>>
  BY <1>1 DEF BeginComplete, CompletePair, Return
<1>3. stage = "complete" \/ pc = "done"
  BY <1>1 DEF BeginComplete, CompletePair, Return
<1>4. rows = <<>> /\ search = NoSearch /\ pc = "done"
  BY <1>3 DEF StInv, StCore
<1>5. OneOnAnEdge' /\ SearchesScored'
  BY <1>2, ScoringStands
<1>6. RowsExact'
  BY <1>1, <1>4 DEF RowsExact
<1>7. /\ opath' = opath /\ pc' = pc /\ N' = N /\ tc' = tc
      /\ \A i : Matched(i)' = Matched(i)
  BY <1>2 DEF tgVars, N, Matched
<1>8. GaveUp'
  <2>1. CASE BeginComplete
    BY <1>7, <2>1 DEF GaveUp, IsMatched, BeginComplete
  <2>2. CASE CompletePair
    <3> DEFINE k == Len(indices)
               a == Matched(k)
               b == Matched(k + 1)
    <3>1. /\ stage = "complete" /\ k < N /\ opath # <<>> /\ PathSoFar
      BY <2>2 DEF CompletePair, StInv, StCore
    <3>2. CASE /\ Moves(a, b)
               /\ LookSpPath(network[a.edge].target, network[b.edge].source) = <<>>
               /\ network[a.edge].target # network[b.edge].source
      <4>1. k \in 1 .. N /\ N \in Nat /\ \A i \in 1 .. N : Matched(i) \in Candidate
        BY <1>4, <3>1, MatchedCandidates DEF StInv, StCore, StTypeOK, PathSoFar
      <4>2. k \in 1 .. N - 1 /\ a \in Candidate /\ b \in Candidate
        BY <3>1, <4>1
      <4>3. GetSpDist(a, b) = Unreachable
        BY <3>2, <4>2, NoWayNoDistance DEF StInv, StCore, StTypeOK
      <4> HIDE DEF k
      <4>4. \E i \in 1 .. N - 1 : GetSpDist(Matched(i), Matched(i + 1)) = Unreachable
        BY <4>2, <4>3
      <4>5. (\E i \in 1 .. N - 1 : GetSpDist(Matched(i), Matched(i + 1)) = Unreachable)'
        BY <1>2, <1>7, <4>4, DistancesStand
      <4> QED
        BY <1>4, <1>7, <4>5 DEF GaveUp
    <3>3. CASE stage' = stage
      BY <3>1, <3>3 DEF GaveUp, IsMatched
    <3> QED
      BY <2>2, <3>2, <3>3 DEF CompletePair
  <2>3. CASE Return
    <3>1. PathSoFar /\ cpath' = cpath
      BY <2>3 DEF Return, StInv, StCore
    <3> QED
      BY <3>1 DEF GaveUp, PathSoFar
  <2> QED
    BY <1>1, <2>1, <2>2, <2>3
<1>9. StCore'
  BY BuildStep DEF StInv
<1> QED
  BY <1>1, <1>4, <1>5, <1>6, <1>8, <1>9 DEF StInv

LEMMA QuietKeepsAll ==
  ASSUME StInv, UNCHANGED stVars
  PROVE  StInv'
<1>1. UNCHANGED <<fmmVars, durations, rows, search>>
  BY DEF stVars
<1>2. /\ UNCHANGED <<tgVars, network, ubodt, tc, eu_dists, durations>>
      /\ stage' = stage /\ cpath' = cpath
  BY <1>1 DEF fmmVars, matchVars
<1>3. OneOnAnEdge' /\ SearchesScored' /\ level' = level /\ \A i : Layer(i)' = Layer(i)
  BY <1>2, ScoringStands
<1>4. RowsExact'
  BY <1>1, <1>2, <1>3, DistancesStand DEF StInv, RowsExact
<1>5. (search # NoSearch =>
         Finds(network, tc, level, Len(rows) + 1, Bound(level), search))'
  BY <1>1, <1>2, <1>3, DistancesStand DEF StInv
<1>6. /\ opath' = opath /\ pc' = pc /\ N' = N /\ \A i : Matched(i)' = Matched(i)
  BY <1>2 DEF tgVars, N, Matched
<1>7. GaveUp'
  BY <1>2, <1>6, DistancesStand DEF StInv, GaveUp, IsMatched
<1>8. StCore'
  BY StQuietStep DEF StInv
<1> QED
  BY <1>3, <1>4, <1>5, <1>7, <1>8 DEF StInv
-----------------------------------------------------------------------------
(* A choice is no likelier than any one of its transitions.                *)
LEMMA PlusIsNoLikelier ==
  ASSUME NEW a \in Cost, NEW b \in Cost, NEW c \in Cost, ~ Likelier(a, c) \/ ~ Likelier(b, c)
  PROVE  ~ Likelier(Plus(a, b), c)
BY DEF Plus, Cost, Impossible, Likelier

LEMMA AsUnlikelyAsOneStep ==
  ASSUME TGIInv, pc # "start", NEW n \in 1 .. level,
         NEW choice, IsChoice(choice, n), NEW k \in 1 .. n - 1,
         NEW c \in Cost, ~ Likelier(tps[k][choice[k]][choice[k + 1]], c)
  PROVE  CostOf(choice, n) \in Cost /\ ~ Likelier(CostOf(choice, n), c)
<1>0. n \in Nat /\ n \in 1 .. n
  BY DEF TGIInv, TGTypeOK
<1>1. PICK f : IsTotal(choice, n, f) /\ CostOf(choice, n) = f[n]
  BY CostOfTotal
<1>2. \A i \in 1 .. n : f[i] \in Cost /\ f[i] = Accumulated(choice, f, i)
  BY <1>1 DEF IsTotal
<1> DEFINE T == {i \in k + 1 .. n : Likelier(f[i], c)}
<1>3. T = {}
  <2> SUFFICES ASSUME T # {} PROVE FALSE
    OBVIOUS
  <2>1. T \in SUBSET Nat
    BY <1>0
  <2>2. PICK m \in T : \A i \in T : m <= i
    <3> HIDE DEF T
    <3> QED
      BY <2>1, LeastElement
  <2>3. /\ m \in k + 1 .. n /\ Likelier(f[m], c) /\ m \in 1 .. n /\ m # 1
        /\ m - 1 \in 1 .. n
    BY <1>0, <2>2
  <2> DEFINE t == tps[m - 1][choice[m - 1]][choice[m]]
             e == ep[m][choice[m]]
  <2>4. /\ t \in Cost /\ e \in Cost /\ f[m - 1] \in Cost
        /\ f[m] = Plus(Plus(f[m - 1], t), e)
    BY <1>2, <2>3, CostsOfStep DEF Accumulated
  <2>5. ~ Likelier(f[m - 1], c) \/ ~ Likelier(t, c)
    <3>1. CASE m = k + 1
      <4>1. m - 1 = k /\ k \in Nat
        BY <3>1
      <4>2. t = tps[k][choice[k]][choice[k + 1]]
        BY <3>1, <4>1
      <4> HIDE DEF t
      <4> QED
        BY <4>2
    <3>2. CASE m # k + 1
      <4>1. m - 1 \in k + 1 .. n /\ ~ (m <= m - 1)
        BY <1>0, <2>3, <3>2
      <4>2. m - 1 \notin T
        BY <2>2, <4>1
      <4> QED
        BY <4>1, <4>2
    <3> QED
      BY <3>1, <3>2
  <2> HIDE DEF t, e
  <2>6. Plus(f[m - 1], t) \in Cost /\ ~ Likelier(Plus(f[m - 1], t), c)
    BY <2>4, <2>5, PlusIsCost, PlusIsNoLikelier
  <2>7. ~ Likelier(Plus(Plus(f[m - 1], t), e), c)
    BY <2>4, <2>6, PlusIsNoLikelier
  <2> QED
    BY <2>3, <2>4, <2>7
<1>4. n \in k + 1 .. n
  BY <1>0
<1> QED
  BY <1>0, <1>1, <1>2, <1>3, <1>4

LEMMA GivenUpIsUnlikely == StInv => GivesUpOnlyBeyondBound
<1> SUFFICES ASSUME StInv, IsMatched, cpath = <<>>,
                    NEW choice \in [1 .. N -> 1 .. MaxCandidates], IsChoice(choice, N)
             PROVE  ~ Likelier(CostOf(choice, N), Remote)
  BY DEF GivesUpOnlyBeyondBound
<1> DEFINE c == [i \in 1 .. N |-> opath[i].at]
<1>1. /\ TGIInv /\ pc = "done" /\ opath # <<>>
  BY DEF StInv, StCore, StTypeOK, GaveUp, IsMatched
<1>2. /\ level = N /\ N \in Nat \ {0} /\ N \in 1 .. level
      /\ \A i \in 1 .. N : opath[i].at \in Layer(i)
  BY <1>1, PathIsPossible
<1>3. IsChoice(c, N)
  BY <1>2 DEF IsChoice
<1>4. PICK i \in 1 .. N - 1 : GetSpDist(Matched(i), Matched(i + 1)) = Unreachable
  BY DEF StInv, GaveUp
<1>5. /\ i \in 1 .. N /\ i + 1 \in 1 .. N
      /\ c[i] = opath[i].at /\ c[i + 1] = opath[i + 1].at
  BY <1>2
<1>6. tps[i][c[i]][c[i + 1]] = TransitionCost(Unreachable, eu_dists[i])
  <2>1. /\ Matched(i) = tc[i][c[i]] /\ Matched(i + 1) = tc[i + 1][c[i + 1]]
        /\ c[i] \in Layer(i) /\ c[i + 1] \in Layer(i + 1)
    BY <1>2, <1>5 DEF Matched
  <2>2. Within(GetSpDist(tc[i][c[i]], tc[i + 1][c[i + 1]]), Bound(i)) = Unreachable
    BY <1>4, <2>1 DEF Within
  <2> HIDE DEF c
  <2> QED
    BY <1>1, <1>2, <2>1, <2>2 DEF StInv, SearchesScored
<1> HIDE DEF c
<1>7. Remote \in Cost /\ ~ Likelier(tps[i][c[i]][c[i + 1]], Remote)
  <2>1. Remote \in Nat
    BY StMatchAssumption
  <2>2. tps[i][c[i]][c[i + 1]] \in {Remote, Impossible}
    BY <1>6 DEF TransitionCost, CalcTp
  <2> QED
    BY <2>1, <2>2 DEF Cost, Likelier, Impossible
<1>8. CostOf(c, N) \in Cost /\ ~ Likelier(CostOf(c, N), Remote)
  BY <1>1, <1>2, <1>3, <1>7, AsUnlikelyAsOneStep
<1>9. CostOf(choice, N) \in Cost
  <2>1. PICK f : IsTotal(choice, N, f) /\ CostOf(choice, N) = f[N]
    BY <1>1, <1>2, CostOfTotal
  <2> QED
    BY <1>2, <2>1 DEF IsTotal
<1>10. ~ Likelier(CostOf(choice, N), CostOf(c, N))
  BY <1>1, <1>2, TrackedIsMostLikely DEF MostLikely, c
<1> QED
  BY <1>7, <1>8, <1>9, <1>10, LikelierOrder

-----------------------------------------------------------------------------
(***************************************************************************)
(* The invariant of STMATCH's match_traj on every network, whatever the    *)
(* timestamps say: each search knows distances of ways over the road, and  *)
(* all of them up to what its queue still holds; the rows it has left are  *)
(* get_sp_dist's up to the bound, and so are the transitions scored; the   *)
(* path build_cpath has so far is connected and located, unless it has     *)
(* given up where the table has no way.                                    *)
(***************************************************************************)
THEOREM StInvariance == StSpec => []StInv
<1>1. StInit => StInv
  <2> SUFFICES ASSUME StInit PROVE StInv
    OBVIOUS
  <2>1. TGIInv
    BY EmptyGraph DEF StInit, FMMInit
  <2>2. pc = "start" /\ opath = <<>> /\ stage = "match" /\ rows = <<>> /\ search = NoSearch
    BY DEF StInit, FMMInit, TGInit
  <2>3. CandidatesOK /\ OnTheirEdges /\ TakenFirst /\ ~ IsMatched
    BY <2>2 DEF StInit, CandidatesOK, OnTheirEdges, TakenFirst, IsMatched
  <2>4. StTypeOK
    BY <2>1, <2>2, <2>3 DEF StInit, FMMInit, StTypeOK, Seconds
  <2>5. StCore
    BY <2>2, <2>3, <2>4 DEF StCore
  <2>6. OneOnAnEdge /\ RowsExact /\ SearchesScored /\ GaveUp
    BY <2>2, <2>3 DEF OneOnAnEdge, RowsExact, SearchesScored, GaveUp
  <2> QED
    BY <2>2, <2>5, <2>6 DEF StInv
<1>2. StInv /\ [StNext]_stVars => StInv'
  BY CandidatesApart, StartSearchFinds, ExpandGoesOn, EndSearchExact, UpdateScores,
     BacktrackKeepsScores, BuildGivesUp, QuietKeepsAll DEF StNext, Match, StReturned
<1> QED
  BY <1>1, <1>2, PTL DEF StSpec

(***************************************************************************)
(* No search asks its heap to decrease the key of a node it has taken:     *)
(* Heap::decrease_key would look up a handle that is no longer there.      *)
(***************************************************************************)
THEOREM StNeverLowers == StSpec => []TakenStays
<1>1. StInv => TakenStays
  BY TakenNeverLowered DEF StInv
<1> QED
  BY <1>1, StInvariance, PTL

\* What build_cpath returns is nothing, or a connected path in which
\* indices finds the edge of every point.
THEOREM StPathLocates == StSpec => []PathLocatesPoints
<1>1. StInv => PathLocatesPoints
  BY DEF StInv, StCore, PathLocatesPoints, IndicesLocatePoints, PathSoFar
<1> QED
  BY <1>1, StInvariance, PTL

\* The points are matched along a most likely path of the transition graph
\* that the searches score.
THEOREM StMostLikely == StSpec => []MostLikely
<1>1. StInv => MostLikely
  BY TrackedIsMostLikely DEF StInv, StCore, StTypeOK
<1> QED
  BY <1>1, StInvariance, PTL

(***************************************************************************)
(* shortest_path_upperbound finds, between any two candidates of points    *)
(* that follow each other, the distance get_sp_dist computes from the      *)
(* table if that is within the bound, and none if it is not.               *)
(***************************************************************************)
THEOREM StDistances == StSpec => []DistancesAgree
<1>1. StInv => DistancesAgree
  BY TakenNeverLowered DEF StInv, DistancesAgree
<1> QED
  BY <1>1, StInvariance, PTL

\* build_cpath gives up on a trajectory only when every choice of candidates
\* is as unlikely as a single transition beyond the bound.
THEOREM StGivesUp == StSpec => []GivesUpOnlyBeyondBound
BY StInvariance, GivenUpIsUnlikely, PTL
=============================================================================
