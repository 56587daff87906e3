--------------------------- MODULE UBODTGen_proofs ---------------------------
(***************************************************************************)
(* The bounded search finds the shortest distances, the rows of the table  *)
(* it is run for are exact and fit together, and look_sp_path returns the  *)
(* path whose cost its row tells: for every graph, bound and order of the  *)
(* sources.                                                                *)
(***************************************************************************)
EXTENDS UBODTGen, RoadGraph_proofs, SequenceTheorems

-----------------------------------------------------------------------------
(***************************************************************************)
(* UpperboundDijkstra: one search.                                         *)
(***************************************************************************)

(***************************************************************************)
(* A search about to begin: the state Init chooses, for any graph.  The    *)
(* generator of the table starts every further search from such a state.   *)
(***************************************************************************)
Fresh ==
  /\ graph \in Graph
  /\ source \in Node
  /\ delta \in Deltas
  /\ heap = [Empty EXCEPT ![source] = 0]
  /\ dmap = [Empty EXCEPT ![source] = 0]
  /\ pmap = [Empty EXCEPT ![source] = source]
  /\ node = [index |-> source, value |-> 0]
  /\ todo = {}
  /\ pc = "search"

-----------------------------------------------------------------------------
(***************************************************************************)
(* Every variable of the search keeps its type: the maps have nodes as     *)
(* keys and values, distances are natural numbers.                         *)
(***************************************************************************)
LEMMA TypeFresh == Fresh => TypeOK
BY GraphAssumption DEF Fresh, TypeOK, Empty, Absent, Node

LEMMA TypeInit == Init => TypeOK
BY TypeFresh DEF Init, Fresh

LEMMA TypeStep == TypeOK /\ [Next]_vars => TypeOK'
<1> SUFFICES ASSUME TypeOK, [Next]_vars PROVE TypeOK'
  OBVIOUS
<1> USE DEF TypeOK
<1>1. CASE Pop
  BY <1>1 DEF Pop, IsTop, Queued, OutEdges, Absent
<1>2. CASE Exhausted
  BY <1>2 DEF Exhausted
<1>3. ASSUME NEW i \in EdgeIndex
      PROVE  graph[i].target \in Node /\ TempDist(i) \in Nat
  <2>1. graph[i].target \in Node /\ graph[i].length \in Nat
    BY EdgeTypes
  <2>2. node.value \in Nat
    OBVIOUS
  <2> QED
    BY <2>1, <2>2 DEF TempDist
<1>4. CASE RelaxShorter
  BY <1>3, <1>4 DEF RelaxShorter, Record
<1>5. CASE RelaxFirst
  BY <1>3, <1>5 DEF RelaxFirst, Record
<1>6. CASE RelaxNothing
  BY <1>6 DEF RelaxNothing
<1>7. CASE UNCHANGED vars
  BY <1>7 DEF vars
<1> QED
  BY <1>1, <1>2, <1>4, <1>5, <1>6, <1>7 DEF Next, Search, Returned

THEOREM TypeCorrect == Spec => []TypeOK
BY TypeInit, TypeStep, PTL DEF Spec

-----------------------------------------------------------------------------
(***************************************************************************)
(* The inductive invariant.  Each lemma is one action of the search; its   *)
(* steps are the conjuncts of IInv that the action can disturb.            *)
(***************************************************************************)
LEMMA InvFresh == Fresh => IInv
<1> SUFFICES ASSUME Fresh PROVE IInv
  OBVIOUS
<1>1. TypeOK
  BY TypeFresh
<1>2. /\ source \in Node /\ todo = {} /\ pc = "search"
      /\ node = [index |-> source, value |-> 0]
      /\ heap \in [Node -> Int] /\ dmap \in [Node -> Int]
      /\ heap[source] = 0 /\ dmap[source] = 0 /\ pmap[source] = source
      /\ \A v \in Node \ {source} :
           heap[v] = Absent /\ dmap[v] = Absent /\ pmap[v] = Absent
  BY DEF Fresh, Empty, Absent
<1>3. Settled = {} /\ Queued = {source}
  BY <1>2 DEF Settled, Queued, Absent
<1>4. MapsAgree /\ WithinBound
  BY <1>2 DEF MapsAgree, WithinBound, Absent, Node
<1>5. FrontierOrdered /\ Expanding /\ SettledRelaxed /\ NothingLeft
  BY <1>2, <1>3 DEF FrontierOrdered, Expanding, SettledRelaxed, NothingLeft
<1>6. PredecessorsTight
  BY <1>2 DEF PredecessorsTight
<1> QED
  BY <1>1, <1>4, <1>5, <1>6 DEF IInv

LEMMA InvInit == Init => IInv
BY InvFresh DEF Init, Fresh

(***************************************************************************)
(* Facts every relaxation step starts from: i is an out edge of the node   *)
(* being expanded, which is settled at the value it was popped with.       *)
(***************************************************************************)
LEMMA ExpandedEdge ==
  ASSUME IInv, NEW i \in todo
  PROVE  /\ i \in EdgeIndex /\ i \in OutEdges(graph, node.index)
         /\ graph[i].source = node.index
         /\ graph[i].target \in Node
         /\ graph[i].length \in Nat
         /\ node.index \in Settled
         /\ node.index \in Node
         /\ node.value \in Nat
         /\ dmap[node.index] = node.value
         /\ TempDist(i) \in Nat
         /\ TempDist(i) = node.value + graph[i].length
         /\ node.value <= TempDist(i)
<1>1. i \in EdgeIndex /\ node.index \in Node /\ node.value \in Nat /\ graph \in Graph
  BY DEF IInv, TypeOK
<1>2. graph[i].target \in Node /\ graph[i].length \in Nat
  BY <1>1, EdgeTypes
<1>3. /\ node.index \in Settled
      /\ dmap[node.index] = node.value
      /\ i \in OutEdges(graph, node.index)
  BY DEF IInv, Expanding
<1>4. graph[i].source = node.index
  BY <1>3 DEF OutEdges
<1> QED
  BY <1>1, <1>2, <1>3, <1>4 DEF TempDist

LEMMA InvPop == IInv /\ Pop /\ TypeOK' => IInv'
<1> SUFFICES ASSUME IInv, Pop, TypeOK' PROVE IInv'
  OBVIOUS
<1> PICK u \in Node :
       /\ IsTop(u)
       /\ node' = [index |-> u, value |-> heap[u]]
       /\ heap' = [heap EXCEPT ![u] = Absent]
       /\ IF heap[u] > delta
            THEN pc' = "done" /\ todo' = {}
            ELSE pc' = "search" /\ todo' = OutEdges(graph, u)
  BY DEF Pop
<1>1. /\ pc = "search" /\ todo = {}
      /\ UNCHANGED <<graph, source, delta, dmap, pmap>>
  BY DEF Pop
<1>2. /\ heap \in [Node -> Nat \cup {Absent}]
      /\ dmap \in [Node -> Nat \cup {Absent}]
      /\ node.value \in Nat /\ delta \in Int /\ source \in Node
  BY DeltasAssumption DEF IInv, TypeOK
<1>3. /\ heap[u] # Absent /\ heap[u] \in Nat /\ dmap[u] = heap[u]
      /\ node.value <= heap[u]
  BY <1>2 DEF IsTop, Queued, IInv, MapsAgree, FrontierOrdered
<1>4. node'.index = u /\ node'.value = heap[u]
  OBVIOUS
<1>5. Settled' = Settled \cup {u}
  BY <1>1, <1>2, <1>3 DEF Settled, Absent
<1>6. Queued' = Queued \ {u} /\ \A v \in Queued' : heap'[v] = heap[v]
  BY <1>2 DEF Queued
<1>7. MapsAgree' /\ WithinBound'
  BY <1>1, <1>2 DEF IInv, MapsAgree, WithinBound, Absent
<1>8. FrontierOrdered'
  <2>1. ASSUME NEW v \in Settled PROVE dmap[v] <= heap[u]
    <3>1. dmap[v] \in Nat
      BY <1>2 DEF Settled, Absent
    <3> QED
      BY <1>2, <1>3, <3>1 DEF IInv, FrontierOrdered, Settled
  <2>2. ASSUME NEW v \in Queued \ {u} PROVE heap[u] <= heap[v]
    <3>1. heap[v] \in Nat
      BY <1>2 DEF Queued, Absent
    <3> QED
      BY <1>3, <3>1 DEF IsTop, HeapLess
  <2> QED
    BY <1>1, <1>3, <1>4, <1>5, <1>6, <2>1, <2>2 DEF FrontierOrdered
<1>9. Expanding'
  BY <1>1, <1>3, <1>4, <1>5 DEF Expanding
<1>10. SettledRelaxed'
  <2> SUFFICES ASSUME NEW w \in Settled', dmap[w] <= delta,
                      NEW i \in OutEdges(graph, w) \ todo'
               PROVE  LET v == graph[i].target IN
                      IF dmap[v] = Absent
                      THEN dmap[w] + graph[i].length > delta
                      ELSE dmap[v] <= dmap[w] + graph[i].length
    BY <1>1 DEF SettledRelaxed, OutEdges
  <2>1. w \in Settled
    BY <1>1, <1>2, <1>3, <1>5
  <2> QED
    BY <1>1, <2>1 DEF IInv, SettledRelaxed
<1>11. PredecessorsTight'
  BY <1>1, <1>5 DEF IInv, PredecessorsTight, EdgesOfCost, OutEdges
<1>12. NothingLeft'
  <2>1. ASSUME NEW v \in Queued \ {u}, heap[u] > delta PROVE heap[v] > delta
    <3>1. heap[v] \in Nat
      BY <1>2 DEF Queued, Absent
    <3> QED
      BY <1>2, <1>3, <2>1, <3>1 DEF IsTop, HeapLess
  <2> QED
    BY <1>1, <1>6, <2>1 DEF NothingLeft
<1> QED
  BY <1>7, <1>8, <1>9, <1>10, <1>11, <1>12 DEF IInv

LEMMA InvExhausted == IInv /\ Exhausted /\ TypeOK' => IInv'
<1> SUFFICES ASSUME IInv, Exhausted, TypeOK' PROVE IInv'
  OBVIOUS
<1>1. /\ pc' = "done" /\ todo = {} /\ Queued = {}
      /\ UNCHANGED <<graph, source, delta, heap, dmap, pmap, node, todo>>
  BY DEF Exhausted
<1>2. Settled' = Settled /\ Queued' = Queued
  BY <1>1 DEF Settled, Queued
<1>3. MapsAgree' /\ WithinBound' /\ FrontierOrdered'
  BY <1>1, <1>2 DEF IInv, MapsAgree, WithinBound, FrontierOrdered
<1>4. SettledRelaxed' /\ PredecessorsTight'
  BY <1>1, <1>2 DEF IInv, SettledRelaxed, PredecessorsTight,
                    EdgesOfCost, OutEdges
<1>5. Expanding' /\ NothingLeft'
  BY <1>1, <1>2 DEF Expanding, NothingLeft
<1> QED
  BY <1>3, <1>4, <1>5 DEF IInv

(***************************************************************************)
(* RelaxShorter and RelaxFirst both record a distance for v: the target of *)
(* an out edge of the node being expanded.  What they do to the invariant  *)
(* depends only on v being unsettled, within the bound, and farther than   *)
(* the new distance if it was known.                                       *)
(***************************************************************************)
LEMMA InvRecord ==
  ASSUME IInv, TypeOK', pc = "search",
         UNCHANGED <<graph, source, delta, node, pc>>,
         NEW i \in todo, NEW v \in Node \ {source},
         v = graph[i].target,
         v \notin Settled,
         TempDist(i) <= delta,
         dmap[v] = Absent \/ TempDist(i) <= dmap[v],
         Record(v, TempDist(i)),
         todo' = todo \ {i}
  PROVE  IInv'
<1> DEFINE t == TempDist(i)
<1>0. /\ pmap' = [pmap EXCEPT ![v] = node.index]
      /\ dmap' = [dmap EXCEPT ![v] = t]
      /\ heap' = [heap EXCEPT ![v] = t]
  BY DEF Record
<1>1. /\ i \in EdgeIndex /\ i \in OutEdges(graph, node.index)
      /\ graph[i].source = node.index
      /\ graph[i].length \in Nat
      /\ node.index \in Settled /\ node.index \in Node /\ node.value \in Nat
      /\ dmap[node.index] = node.value
      /\ t \in Nat /\ t = node.value + graph[i].length /\ node.value <= t
  BY ExpandedEdge
<1>2. /\ heap \in [Node -> Nat \cup {Absent}]
      /\ dmap \in [Node -> Nat \cup {Absent}]
      /\ pmap \in [Node -> Node \cup {Absent}]
      /\ delta \in Int /\ source \in Node
  BY DeltasAssumption DEF IInv, TypeOK
<1>3. v # node.index
  BY <1>1
<1>4. Settled' = Settled
  BY <1>0, <1>1, <1>2 DEF Settled, Absent
<1>5. Queued' = Queued \cup {v}
  BY <1>0, <1>1, <1>2 DEF Queued, Absent
<1>6. \A w \in Settled : dmap'[w] = dmap[w] /\ pmap'[w] = pmap[w] /\ w \in Node
  BY <1>0, <1>2 DEF Settled
<1>7. MapsAgree'
  <2>1. \A w \in Node : heap'[w] # Absent => heap'[w] = dmap'[w]
    BY <1>0, <1>1, <1>2 DEF IInv, MapsAgree
  <2>2. \A w \in Node : dmap'[w] = Absent <=> pmap'[w] = Absent
    BY <1>0, <1>1, <1>2 DEF IInv, MapsAgree, Absent, Node
  <2>3. dmap'[source'] = 0 /\ pmap'[source'] = source'
    BY <1>0, <1>2 DEF IInv, MapsAgree
  <2> QED
    BY <2>1, <2>2, <2>3 DEF MapsAgree
<1>8. WithinBound'
  BY <1>0, <1>2 DEF IInv, WithinBound
<1>9. FrontierOrdered'
  <2>1. \A w \in Settled' : dmap'[w] <= node'.value
    BY <1>4, <1>6 DEF IInv, FrontierOrdered
  <2>2. \A w \in Queued' : node'.value <= heap'[w]
    BY <1>0, <1>1, <1>2, <1>5 DEF IInv, FrontierOrdered, Queued
  <2> QED
    BY <2>1, <2>2 DEF FrontierOrdered
<1>10. Expanding'
  BY <1>1, <1>4, <1>6 DEF IInv, Expanding
<1>11. SettledRelaxed'
  <2> SUFFICES ASSUME NEW w \in Settled, dmap[w] <= delta,
                      NEW j \in OutEdges(graph, w), j \notin todo \ {i}
               PROVE  LET x == graph[j].target IN
                      IF dmap'[x] = Absent
                      THEN dmap[w] + graph[j].length > delta
                      ELSE dmap'[x] <= dmap[w] + graph[j].length
    BY <1>4, <1>6 DEF SettledRelaxed, OutEdges
  <2>1. j \in EdgeIndex /\ graph[j].source = w
    BY DEF OutEdges
  <2>2. graph[j].target \in Node /\ graph[j].length \in Nat
    BY <2>1, EdgeTypes DEF IInv, TypeOK
  <2>3. dmap[w] \in Nat
    BY <1>2 DEF Settled, Absent
  <2>4. CASE j = i
    BY <1>0, <1>1, <1>2, <2>1, <2>2, <2>3, <2>4 DEF Absent
  <2>5. CASE j # i
    <3>1. LET x == graph[j].target IN
          IF dmap[x] = Absent
          THEN dmap[w] + graph[j].length > delta
          ELSE dmap[x] <= dmap[w] + graph[j].length
      BY <2>5 DEF IInv, SettledRelaxed
    <3> QED
      BY <1>0, <1>1, <1>2, <2>2, <2>3, <3>1 DEF Absent
  <2> QED
    BY <2>4, <2>5
<1>12. PredecessorsTight'
  <2> SUFFICES ASSUME NEW w \in Node \ {source}, dmap'[w] # Absent
               PROVE  /\ pmap'[w] \in Settled
                      /\ EdgesOfCost(graph, pmap'[w], w,
                                     dmap'[w] - dmap'[pmap'[w]]) # {}
    BY <1>4 DEF PredecessorsTight, EdgesOfCost, OutEdges
  <2>1. CASE w = v
    <3>1. /\ pmap'[w] = node.index /\ dmap'[w] = t
          /\ dmap'[node.index] = node.value
      BY <1>0, <1>1, <1>2, <1>6, <2>1
    <3>2. dmap'[w] - dmap'[pmap'[w]] = graph[i].length
      BY <1>1, <3>1
    <3> QED
      BY <1>1, <2>1, <3>1, <3>2 DEF EdgesOfCost
  <2>2. CASE w # v
    <3>1. dmap'[w] = dmap[w] /\ pmap'[w] = pmap[w]
      BY <1>0, <1>2, <2>2
    <3>2. /\ pmap[w] \in Settled
          /\ EdgesOfCost(graph, pmap[w], w, dmap[w] - dmap[pmap[w]]) # {}
      BY <3>1 DEF IInv, PredecessorsTight
    <3> QED
      BY <1>6, <3>1, <3>2
  <2> QED
    BY <2>1, <2>2
<1>13. NothingLeft'
  BY DEF NothingLeft
<1> QED
  BY <1>7, <1>8, <1>9, <1>10, <1>11, <1>12, <1>13 DEF IInv

(***************************************************************************)
(* A node whose distance drops is still queued: settled nodes are no       *)
(* farther than the node being expanded, and no length is negative.        *)
(***************************************************************************)
LEMMA ShorterIsQueued ==
  ASSUME IInv, NEW i \in todo, NEW v \in Node, v = graph[i].target,
         dmap[v] # Absent, dmap[v] > TempDist(i)
  PROVE  v \in Queued /\ v \notin Settled /\ v # source
<1>1. node.value \in Nat /\ TempDist(i) \in Nat /\ node.value <= TempDist(i)
  BY ExpandedEdge
<1>2. dmap[v] \in Nat
  BY DEF IInv, TypeOK, Absent
<1>3. v \notin Settled
  BY <1>1, <1>2 DEF IInv, FrontierOrdered
<1>4. v # source
  BY <1>1, <1>2 DEF IInv, MapsAgree
<1> QED
  BY <1>3, <1>4 DEF Settled, Queued

LEMMA InvRelaxShorter == IInv /\ RelaxShorter /\ TypeOK' => IInv'
<1> SUFFICES ASSUME IInv, RelaxShorter, TypeOK' PROVE IInv'
  OBVIOUS
<1> PICK i \in todo :
       /\ IsShorter(graph[i].target, i)
       /\ Record(graph[i].target, TempDist(i))
       /\ todo' = todo \ {i}
  BY DEF RelaxShorter
<1> DEFINE v == graph[i].target
<1>1. pc = "search" /\ UNCHANGED <<graph, source, delta, node, pc>>
  BY DEF RelaxShorter
<1>2. v \in Node /\ TempDist(i) \in Nat
  BY ExpandedEdge
<1>3. v \notin Settled /\ v # source
  BY <1>2, ShorterIsQueued DEF IsShorter
<1>4. TempDist(i) <= dmap[v] /\ TempDist(i) <= delta
  BY <1>2, <1>3, DeltasAssumption
     DEF IsShorter, IInv, TypeOK, WithinBound, Absent
<1> HIDE DEF v
<1> QED
  BY <1>1, <1>2, <1>3, <1>4, InvRecord DEF v, IsShorter

LEMMA InvRelaxFirst == IInv /\ RelaxFirst /\ TypeOK' => IInv'
<1> SUFFICES ASSUME IInv, RelaxFirst, TypeOK' PROVE IInv'
  OBVIOUS
<1> PICK i \in todo :
       /\ dmap[graph[i].target] = Absent
       /\ InBound(i)
       /\ Record(graph[i].target, TempDist(i))
       /\ todo' = todo \ {i}
  BY DEF RelaxFirst
<1> DEFINE v == graph[i].target
<1>1. pc = "search" /\ UNCHANGED <<graph, source, delta, node, pc>>
  BY DEF RelaxFirst
<1>2. v \in Node
  BY ExpandedEdge
<1>3. v \notin Settled /\ v # source
  BY DEF Settled, IInv, MapsAgree, Absent
<1> HIDE DEF v
<1> QED
  BY <1>1, <1>2, <1>3, InvRecord DEF v, InBound

LEMMA InvRelaxNothing == IInv /\ RelaxNothing /\ TypeOK' => IInv'
<1> SUFFICES ASSUME IInv, RelaxNothing, TypeOK' PROVE IInv'
  OBVIOUS
<1> PICK i \in todo :
       LET v == graph[i].target IN
       /\ IF dmap[v] # Absent THEN dmap[v] <= TempDist(i)
                              ELSE TempDist(i) > delta
       /\ todo' = todo \ {i}
  <2>1. PICK i \in todo :
          /\ ~IsShorter(graph[i].target, i)
          /\ dmap[graph[i].target] = Absent => ~InBound(i)
          /\ todo' = todo \ {i}
    BY DEF RelaxNothing
  <2>2. graph[i].target \in Node /\ TempDist(i) \in Nat
    BY ExpandedEdge
  <2>3. dmap[graph[i].target] \in Nat \cup {Absent} /\ delta \in Int
    BY <2>2, DeltasAssumption DEF IInv, TypeOK
  <2> QED
    BY <2>1, <2>2, <2>3 DEF IsShorter, InBound, Absent
<1>1. UNCHANGED <<graph, source, delta, heap, dmap, pmap, node, pc>>
  BY DEF RelaxNothing
<1>2. Settled' = Settled /\ Queued' = Queued
  BY <1>1 DEF Settled, Queued
<1>3. MapsAgree' /\ WithinBound' /\ FrontierOrdered'
  BY <1>1, <1>2 DEF IInv, MapsAgree, WithinBound, FrontierOrdered
<1>4. Expanding' /\ NothingLeft'
  BY <1>1, <1>2 DEF IInv, Expanding, NothingLeft, OutEdges
<1>5. PredecessorsTight'
  BY <1>1, <1>2 DEF IInv, PredecessorsTight, EdgesOfCost, OutEdges
<1>6. SettledRelaxed'
  <2>1. /\ graph[i].source = node.index
        /\ dmap[node.index] = node.value
        /\ TempDist(i) = node.value + graph[i].length
    BY ExpandedEdge
  <2> SUFFICES ASSUME NEW w \in Settled, dmap[w] <= delta,
                      NEW j \in OutEdges(graph, w), j \notin todo \ {i}
               PROVE  LET x == graph[j].target IN
                      IF dmap[x] = Absent
                      THEN dmap[w] + graph[j].length > delta
                      ELSE dmap[x] <= dmap[w] + graph[j].length
    BY <1>1, <1>2 DEF SettledRelaxed, OutEdges
  <2>2. CASE j = i
    BY <2>1, <2>2 DEF OutEdges
  <2>3. CASE j # i
    BY <2>3 DEF IInv, SettledRelaxed
  <2> QED
    BY <2>2, <2>3
<1> QED
  BY <1>3, <1>4, <1>5, <1>6 DEF IInv

LEMMA InvStep == IInv /\ [Next]_vars => IInv'
<1> SUFFICES ASSUME IInv, [Next]_vars PROVE IInv'
  OBVIOUS
<1>1. TypeOK'
  BY TypeStep DEF IInv
<1>2. CASE UNCHANGED vars
  BY <1>2 DEF vars, IInv, TypeOK, MapsAgree, WithinBound, FrontierOrdered,
              Expanding, SettledRelaxed, PredecessorsTight, NothingLeft,
              Settled, Queued, EdgesOfCost, OutEdges
<1> QED
  BY <1>1, <1>2, InvPop, InvExhausted, InvRelaxShorter, InvRelaxFirst,
     InvRelaxNothing DEF Next, Search, Returned

(***************************************************************************)
(* The invariant holds throughout every search.                            *)
(***************************************************************************)
THEOREM Invariance == Spec => []IInv
BY InvInit, InvStep, PTL DEF Spec

(***************************************************************************)
(* Heap::decrease_key is never called for a popped node.                   *)
(***************************************************************************)
THEOREM DecreaseKeySafe == Spec => LoweredOnlyWhileQueued
<1>1. IInv /\ [Next]_vars =>
        [\A v \in Node :
           dmap[v] # Absent /\ dmap'[v] # dmap[v] => heap[v] # Absent]_vars
  <2> SUFFICES ASSUME IInv, Next, NEW v \in Node,
                      dmap[v] # Absent, dmap'[v] # dmap[v]
               PROVE  heap[v] # Absent
    OBVIOUS
  <2>1. CASE RelaxShorter
    <3> PICK i \in todo :
          LET w == graph[i].target IN
          /\ dmap[w] # Absent
          /\ dmap[w] > TempDist(i)
          /\ dmap' = [dmap EXCEPT ![w] = TempDist(i)]
      BY <2>1 DEF RelaxShorter, IsShorter, Record
    <3>1. v = graph[i].target
      BY DEF IInv, TypeOK
    <3> QED
      BY <3>1, ShorterIsQueued DEF Queued
  <2>2. CASE RelaxFirst
    BY <2>2 DEF RelaxFirst, Record, IInv, TypeOK
  <2>3. CASE Pop \/ Exhausted \/ RelaxNothing \/ Returned
    BY <2>3 DEF Pop, Exhausted, RelaxNothing, Returned, vars
  <2> QED
    BY <2>1, <2>2, <2>3 DEF Next, Search
<1> QED
  BY <1>1, Invariance, PTL DEF Spec, LoweredOnlyWhileQueued

(***************************************************************************)
(* The predecessor of a known node is final, and get_edge_index finds the  *)
(* edge the search came by: the writer of the table never records -1.      *)
(***************************************************************************)
THEOREM EdgeLookupsSucceed == Spec => []PredecessorsHaveEdges
<1>1. IInv => PredecessorsHaveEdges
  BY GetEdgeIndexFinds DEF IInv, PredecessorsTight, PredecessorsHaveEdges
<1> QED
  BY <1>1, Invariance, PTL

(***************************************************************************)
(* Nodes are popped in order of their distance.                            *)
(***************************************************************************)
THEOREM PopOrder == Spec => PopsInOrder
<1>1. IInv /\ [Next]_vars => [node'.value >= node.value]_vars
  <2> SUFFICES ASSUME IInv, Next PROVE node'.value >= node.value
    OBVIOUS
  <2>0. node.value \in Nat /\ heap \in [Node -> Nat \cup {Absent}]
    BY DEF IInv, TypeOK
  <2>1. CASE Pop
    BY <2>0, <2>1 DEF Pop, IsTop, Queued, IInv, FrontierOrdered, Absent
  <2>2. CASE ~Pop
    BY <2>0, <2>2 DEF Next, Search, Exhausted, RelaxShorter, RelaxFirst,
                      RelaxNothing, Returned, vars
  <2> QED
    BY <2>1, <2>2
<1> QED
  BY <1>1, Invariance, PTL DEF Spec, PopsInOrder

(***************************************************************************)
(* The predecessors of known nodes never form a cycle: a node gets a new   *)
(* predecessor only while it is unsettled, and predecessors are settled,   *)
(* so the new pair closes no cycle.  The first-hop loop of the table       *)
(* writer therefore ends for every graph, zero lengths included.           *)
(***************************************************************************)
LEMMA CycleFreeRecord ==
  ASSUME IInv, NoPredecessorCycle, UNCHANGED source,
         NEW v \in Node, NEW u \in Settled, v \notin Settled, NEW t \in Nat,
         pmap' = [pmap EXCEPT ![v] = u],
         dmap' = [dmap EXCEPT ![v] = t]
  PROVE  NoPredecessorCycle'
<1> SUFFICES ASSUME NEW S, S \subseteq Node \ {source}, S # {},
                    \A w \in S : dmap'[w] # Absent
             PROVE  \E w \in S : pmap'[w] \notin S
  BY DEF NoPredecessorCycle
<1>1. /\ dmap \in [Node -> Nat \cup {Absent}]
      /\ pmap \in [Node -> Node \cup {Absent}]
  BY DEF IInv, TypeOK
<1>2. \A w \in S \ {v} : dmap[w] # Absent /\ pmap'[w] = pmap[w]
  BY <1>1
<1>3. CASE S = {v}
  BY <1>1, <1>3
<1>4. CASE S # {v}
  <2>1. S \ {v} \in SUBSET {w \in Node \ {source} : dmap[w] # Absent}
    BY <1>2
  <2>2. S \ {v} # {}
    BY <1>4
  <2>3. PICK w \in S \ {v} : pmap[w] \notin S \ {v}
    BY <2>1, <2>2 DEF NoPredecessorCycle
  <2>4. pmap[w] \in Settled
    BY <1>2 DEF IInv, PredecessorsTight
  <2>5. pmap[w] \notin S
    BY <2>3, <2>4
  <2> QED
    BY <1>2, <2>5
<1> QED
  BY <1>3, <1>4

LEMMA CycleFreeFresh == Fresh => NoPredecessorCycle
BY GraphAssumption DEF Fresh, NoPredecessorCycle, Empty, Absent

LEMMA CycleFreeStep ==
  IInv /\ NoPredecessorCycle /\ [Next]_vars => NoPredecessorCycle'
<1> SUFFICES ASSUME IInv, NoPredecessorCycle, [Next]_vars
             PROVE  NoPredecessorCycle'
  OBVIOUS
<1>1. CASE RelaxShorter
  <2> PICK i \in todo :
        LET v == graph[i].target IN
        /\ dmap[v] # Absent
        /\ dmap[v] > TempDist(i)
        /\ pmap' = [pmap EXCEPT ![v] = node.index]
        /\ dmap' = [dmap EXCEPT ![v] = TempDist(i)]
    BY <1>1 DEF RelaxShorter, IsShorter, Record
  <2> DEFINE v == graph[i].target
  <2>1. v \in Node /\ TempDist(i) \in Nat /\ node.index \in Settled
    BY ExpandedEdge
  <2>2. v \notin Settled
    BY <2>1, ShorterIsQueued
  <2>3. UNCHANGED source
    BY <1>1 DEF RelaxShorter
  <2> HIDE DEF v
  <2> QED
    BY <2>1, <2>2, <2>3, CycleFreeRecord DEF v
<1>2. CASE RelaxFirst
  <2> PICK i \in todo :
        LET v == graph[i].target IN
        /\ dmap[v] = Absent
        /\ pmap' = [pmap EXCEPT ![v] = node.index]
        /\ dmap' = [dmap EXCEPT ![v] = TempDist(i)]
    BY <1>2 DEF RelaxFirst, Record
  <2> DEFINE v == graph[i].target
  <2>1. v \in Node /\ TempDist(i) \in Nat /\ node.index \in Settled
    BY ExpandedEdge
  <2>2. v \notin Settled
    BY DEF Settled
  <2>3. UNCHANGED source
    BY <1>2 DEF RelaxFirst
  <2> HIDE DEF v
  <2> QED
    BY <2>1, <2>2, <2>3, CycleFreeRecord DEF v
<1>3. CASE Pop \/ Exhausted \/ RelaxNothing \/ Returned \/ UNCHANGED vars
  BY <1>3 DEF Pop, Exhausted, RelaxNothing, Returned, vars, NoPredecessorCycle
<1> QED
  BY <1>1, <1>2, <1>3 DEF Next, Search

THEOREM FirstHopWalkEnds == Spec => []NoPredecessorCycle
<1>1. Init => NoPredecessorCycle
  BY CycleFreeFresh DEF Init, Fresh
<1> QED
  BY <1>1, CycleFreeStep, Invariance, PTL DEF Spec

-----------------------------------------------------------------------------
(***************************************************************************)
(* Every recorded distance is the length of a route of the graph.          *)
(***************************************************************************)
DistancesAreRoutes ==
  \A v \in Node : dmap[v] # Absent => HasRoute(graph, source, v, dmap[v])

LEMMA RoutesRecord ==
  ASSUME IInv, DistancesAreRoutes, UNCHANGED <<graph, source>>, NEW i \in todo,
         dmap' = [dmap EXCEPT ![graph[i].target] = TempDist(i)]
  PROVE  DistancesAreRoutes'
<1>1. /\ i \in OutEdges(graph, node.index)
      /\ node.index \in Node
      /\ dmap[node.index] = node.value
      /\ node.value \in Nat
      /\ TempDist(i) = node.value + graph[i].length
  BY ExpandedEdge
<1>2. HasRoute(graph, source, node.index, node.value)
  BY <1>1 DEF DistancesAreRoutes, Absent
<1>3. graph \in Graph /\ source \in Node /\ dmap \in [Node -> Nat \cup {Absent}]
  BY DEF IInv, TypeOK
<1>4. HasRoute(graph, source, graph[i].target, TempDist(i))
  BY <1>1, <1>2, <1>3, ExtendedRoute
<1> QED
  BY <1>3, <1>4 DEF DistancesAreRoutes

LEMMA RoutesFresh == Fresh => DistancesAreRoutes
<1> SUFFICES ASSUME Fresh PROVE DistancesAreRoutes
  OBVIOUS
<1>1. source \in Node /\ dmap[source] = 0
  BY DEF Fresh, Empty
<1>2. \A v \in Node \ {source} : dmap[v] = Absent
  BY DEF Fresh, Empty
<1> QED
  BY <1>1, <1>2, EmptyRoute DEF DistancesAreRoutes

LEMMA RoutesStep ==
  IInv /\ DistancesAreRoutes /\ [Next]_vars => DistancesAreRoutes'
<1> SUFFICES ASSUME IInv, DistancesAreRoutes, [Next]_vars
             PROVE  DistancesAreRoutes'
  OBVIOUS
<1>1. CASE RelaxShorter \/ RelaxFirst
  BY <1>1, RoutesRecord DEF RelaxShorter, RelaxFirst, Record
<1>2. CASE Pop \/ Exhausted \/ RelaxNothing \/ Returned \/ UNCHANGED vars
  BY <1>2 DEF Pop, Exhausted, RelaxNothing, Returned, vars, DistancesAreRoutes
<1> QED
  BY <1>1, <1>2 DEF Next, Search

THEOREM DistancesAreLengths == Spec => []DistancesAreRoutes
<1>1. Init => DistancesAreRoutes
  BY RoutesFresh DEF Init, Fresh
<1> QED
  BY <1>1, RoutesStep, Invariance, PTL DEF Spec

(***************************************************************************)
(* When the search has returned, the end of every route within the bound   *)
(* is known, at a distance no greater than the length of the route.  With  *)
(* DistancesAreLengths: dmap holds the shortest distances, all of them     *)
(* within the bound, and nothing else.                                     *)
(***************************************************************************)
NoRouteIsShorter ==
  pc = "done" =>
    \A v \in Node, d \in Nat :
      HasRoute(graph, source, v, d) /\ d <= delta =>
        dmap[v] # Absent /\ dmap[v] <= d

LEMMA ShortestFromInv == IInv => NoRouteIsShorter
<1> SUFFICES ASSUME IInv, pc = "done", NEW k \in Nat, NEW visit, NEW cost,
                    IsRoute(graph, source, k, visit, cost), cost[k] <= delta
             PROVE  dmap[visit[k]] # Absent /\ dmap[visit[k]] <= cost[k]
  BY DEF NoRouteIsShorter, HasRoute
<1> DEFINE Missed == {j \in 0 .. k : ~(/\ dmap[visit[j]] # Absent
                                       /\ dmap[visit[j]] <= cost[j])}
<1>1. /\ graph \in Graph /\ dmap \in [Node -> Nat \cup {Absent}]
      /\ heap \in [Node -> Nat \cup {Absent}]
      /\ delta \in Int
      /\ visit \in [0 .. k -> Node] /\ cost \in [0 .. k -> Nat]
  BY DeltasAssumption DEF IInv, TypeOK, IsRoute
<1> SUFFICES ASSUME Missed # {} PROVE FALSE
  OBVIOUS
<1>2. PICK j \in Missed : \A m \in Missed : j <= m
  <2>1. Missed \in SUBSET Nat
    OBVIOUS
  <2> HIDE DEF Missed
  <2> QED
    BY <2>1, LeastElement
<1>3. j # 0
  <2>1. dmap[visit[0]] = 0 /\ cost[0] = 0
    BY DEF IInv, MapsAgree, IsRoute
  <2> QED
    BY <2>1 DEF Absent
<1>4. j \in 1 .. k /\ j - 1 \in 0 .. k /\ j - 1 \notin Missed
  <2>1. j \in 0 .. k /\ j - 1 \in 0 .. k /\ ~(j <= j - 1)
    BY <1>3
  <2> HIDE DEF Missed
  <2> QED
    BY <1>2, <1>3, <2>1
<1> DEFINE u == visit[j - 1]
<1>5. /\ u \in Node /\ dmap[u] # Absent /\ dmap[u] \in Nat
      /\ dmap[u] <= cost[j - 1]
  BY <1>1, <1>4
<1>6. ASSUME NEW m \in 0 .. k PROVE cost[m] <= delta
  <2>1. cost[m] <= cost[k]
    BY <1>1, RouteCostsGrow
  <2> HIDE DEF Missed
  <2> QED
    BY <1>1, <2>1
<1>7. dmap[u] <= delta
  BY <1>1, <1>4, <1>5, <1>6
<1>8. u \in Settled
  <2>1. u \notin Queued
    BY <1>1, <1>5, <1>7 DEF IInv, NothingLeft, MapsAgree, Queued
  <2> QED
    BY <1>5, <2>1 DEF Settled, Queued
<1>9. PICK i \in OutEdges(graph, u) :
        graph[i].target = visit[j] /\ cost[j] = cost[j - 1] + graph[i].length
  <2>1. \A m \in 1 .. k : \E i \in OutEdges(graph, visit[m - 1]) :
          graph[i].target = visit[m] /\ cost[m] = cost[m - 1] + graph[i].length
    BY DEF IsRoute
  <2> QED
    BY <1>4, <2>1
<1>10. graph[i].length \in Nat
  BY <1>1, EdgeTypes DEF OutEdges
<1>11. i \notin todo
  BY DEF IInv, Expanding
<1>12. IF dmap[visit[j]] = Absent
       THEN dmap[u] + graph[i].length > delta
       ELSE dmap[visit[j]] <= dmap[u] + graph[i].length
  BY <1>7, <1>8, <1>9, <1>11 DEF IInv, SettledRelaxed
<1>13. /\ cost[j] \in Nat /\ cost[j - 1] \in Nat /\ cost[j] <= delta
       /\ dmap[visit[j]] \in Nat \cup {Absent}
  BY <1>1, <1>4, <1>6
<1>14. ~(dmap[visit[j]] # Absent /\ dmap[visit[j]] <= cost[j])
  OBVIOUS
<1>15. cost[j] = cost[j - 1] + graph[i].length
  BY <1>9
<1>16. dmap[u] + graph[i].length <= cost[j]
  <2> HIDE DEF u, Missed
  <2> QED
    BY <1>5, <1>10, <1>13, <1>15
<1>17. CASE dmap[visit[j]] = Absent
  <2>1. dmap[u] + graph[i].length > delta
    BY <1>12, <1>17
  <2> HIDE DEF u, Missed
  <2> QED
    BY <1>1, <1>5, <1>10, <1>13, <1>16, <2>1, SMTT(30)
<1>18. CASE dmap[visit[j]] # Absent
  <2>1. dmap[visit[j]] <= dmap[u] + graph[i].length
    BY <1>12, <1>18
  <2>2. dmap[visit[j]] \in Nat
    BY <1>13, <1>18
  <2> HIDE DEF u, Missed
  <2> QED
    BY <1>5, <1>10, <1>13, <1>14, <1>16, <1>18, <2>1, <2>2
<1> QED
  BY <1>17, <1>18

THEOREM ShortestDistances == Spec => []NoRouteIsShorter
BY ShortestFromInv, Invariance, PTL

(***************************************************************************)
(* When the search has returned, dmap holds the distance of every node     *)
(* within the bound and no other node: the maps the table is written from  *)
(* are exact for every graph.                                              *)
(***************************************************************************)
LEMMA ExactFromRoutes ==
  IInv /\ DistancesAreRoutes /\ NoRouteIsShorter => ExactWhenDone
<1> SUFFICES ASSUME IInv, DistancesAreRoutes, NoRouteIsShorter, pc = "done",
                    NEW v \in Node \ {source}
             PROVE  LET d == DistanceFrom(graph, source)[v] IN
                    dmap[v] = IF d # Unreachable /\ d <= delta THEN d ELSE Absent
  BY DEF ExactWhenDone
<1> DEFINE d == DistanceFrom(graph, source)[v]
<1>1. /\ graph \in Graph /\ source \in Node /\ delta \in Int
      /\ dmap[v] \in Nat \cup {Absent}
      /\ dmap[v] # Absent => dmap[v] <= delta
  BY DeltasAssumption DEF IInv, TypeOK, WithinBound
<1>2. /\ d \in Nat \cup {Unreachable}
      /\ d # Unreachable => HasRoute(graph, source, v, d)
      /\ \A l : HasRoute(graph, source, v, l) => d # Unreachable /\ d <= l
  BY <1>1, DistanceIsLeast
<1>3. dmap[v] # Absent => HasRoute(graph, source, v, dmap[v])
  BY DEF DistancesAreRoutes
<1>4. d # Unreachable /\ d <= delta => dmap[v] # Absent /\ dmap[v] <= d
  BY <1>2 DEF NoRouteIsShorter
<1> HIDE DEF d
<1>5. dmap[v] = IF d # Unreachable /\ d <= delta THEN d ELSE Absent
  BY <1>1, <1>2, <1>3, <1>4 DEF Unreachable, Absent
<1> QED
  BY <1>5 DEF d

THEOREM SearchIsExact == Spec => []ExactWhenDone
BY ExactFromRoutes, Invariance, DistancesAreLengths, ShortestDistances, PTL

(***************************************************************************)
(* What the generator of the table needs of every search it runs.          *)
(***************************************************************************)
SearchInv == IInv /\ NoPredecessorCycle /\ DistancesAreRoutes

LEMMA SearchFresh == Fresh => SearchInv
BY InvFresh, CycleFreeFresh, RoutesFresh DEF SearchInv

LEMMA SearchInvStep == SearchInv /\ [Next]_vars => SearchInv'
BY InvStep, CycleFreeStep, RoutesStep DEF SearchInv

LEMMA SearchInvExact == SearchInv => ExactWhenDone
BY ExactFromRoutes, ShortestFromInv DEF SearchInv

-----------------------------------------------------------------------------
(***************************************************************************)
(* UBODTGen: the rows made of the searches, and the paths made of the      *)
(* rows.                                                                   *)
(***************************************************************************)

(***************************************************************************)
(* The loop that follows predecessors from a known node to the first hop   *)
(* is well defined: as long as some known node is not accounted for, there *)
(* is one whose predecessor is.                                            *)
(***************************************************************************)
IsWalk(C, w) ==
  /\ w \in [C -> Known]
  /\ \A v \in C : pmap[v] = source \/ pmap[v] \in C
  /\ \A v \in C : w[v] = IF pmap[v] = source THEN v ELSE w[pmap[v]]

LEMMA KnownNodes ==
  ASSUME SearchInv
  PROVE  /\ Known \subseteq Node
         /\ source \in Known
         /\ \A v \in Known : pmap[v] \in Known /\ dmap[v] \in Nat
         /\ \A v \in Node : v \in Known <=> dmap[v] # Absent
<1>1. /\ dmap \in [Node -> Nat \cup {Absent}]
      /\ pmap \in [Node -> Node \cup {Absent}]
      /\ source \in Node
  BY DEF SearchInv, IInv, TypeOK
<1>2. \A v \in Node : dmap[v] = Absent <=> pmap[v] = Absent
  BY DEF SearchInv, IInv, MapsAgree
<1>3. dmap[source] # Absent
  BY DEF SearchInv, IInv, MapsAgree, Absent
<1>4. \A v \in Node \ {source} : dmap[v] # Absent => pmap[v] \in Settled
  BY DEF SearchInv, IInv, PredecessorsTight
<1>5. pmap[source] = source
  BY DEF SearchInv, IInv, MapsAgree
<1> QED
  BY <1>1, <1>2, <1>3, <1>4, <1>5 DEF Known, Settled

LEMMA WalkGrows ==
  ASSUME SearchInv, NEW C \in SUBSET Known, C # Known, NEW w, IsWalk(C, w)
  PROVE  \E v \in Known \ C : \E w2 : IsWalk(C \cup {v}, w2)
<1>1. PICK v \in Known \ C : pmap[v] = source \/ pmap[v] \in C
  <2> DEFINE S == (Known \ C) \ {source}
  <2>1. CASE S = {}
    BY <2>1, KnownNodes
  <2>2. CASE S # {}
    <3>1. S \in SUBSET {x \in Node \ {source} : dmap[x] # Absent}
      BY KnownNodes
    <3>2. PICK x \in S : pmap[x] \notin S
      BY <2>2, <3>1 DEF SearchInv, NoPredecessorCycle
    <3> QED
      BY <3>2, KnownNodes
  <2> QED
    BY <2>1, <2>2
<1> DEFINE hop == IF pmap[v] = source THEN v ELSE w[pmap[v]]
           D == C \cup {v}
           w2 == [x \in D |-> IF x = v THEN hop ELSE w[x]]
<1>2. hop \in Known
  BY <1>1 DEF IsWalk
<1>3. w2 \in [D -> Known]
  BY <1>2 DEF IsWalk
<1>4. \A x \in D : pmap[x] = source \/ pmap[x] \in D
  BY <1>1 DEF IsWalk
<1>5. ASSUME NEW x \in D
      PROVE  w2[x] = IF pmap[x] = source THEN x ELSE w2[pmap[x]]
  <2>1. CASE x = v
    BY <1>1, <2>1
  <2>2. CASE x # v
    <3>1. x \in C /\ w2[x] = w[x]
      BY <2>2
    <3>2. pmap[x] # source => pmap[x] \in C /\ w2[pmap[x]] = w[pmap[x]]
      BY <3>1 DEF IsWalk
    <3> QED
      BY <3>1, <3>2 DEF IsWalk
  <2> QED
    BY <2>1, <2>2
<1> HIDE DEF w2
<1>6. IsWalk(D, w2)
  BY <1>3, <1>4, <1>5 DEF IsWalk
<1> QED
  BY <1>6

LEMMA WalkExists ==
  ASSUME SearchInv
  PROVE  \E w : IsWalk(Known, w)
<1> DEFINE Done == {C \in SUBSET Known : \E w : IsWalk(C, w)}
           Left == {Cardinality(Known \ C) : C \in Done}
<1>1. IsFiniteSet(Known)
  <2>1. IsFiniteSet(Node)
    BY GraphAssumption, FS_Interval DEF Node
  <2> QED
    BY <2>1, KnownNodes, FS_Subset
<1>2. {} \in Done
  <2> DEFINE w == [v \in {} |-> v]
  <2>1. IsWalk({}, w)
    BY DEF IsWalk
  <2> QED
    BY <2>1
<1>3. Left \in SUBSET Nat /\ Left # {}
  <2>1. ASSUME NEW C \in SUBSET Known PROVE Cardinality(Known \ C) \in Nat
    BY <1>1, FS_Subset, FS_CardinalityType
  <2> QED
    BY <1>2, <2>1
<1>4. PICK n \in Left : \A m \in Left : n <= m
  <2> HIDE DEF Left
  <2> QED
    BY <1>3, LeastElement
<1>5. PICK C \in Done : n = Cardinality(Known \ C)
  OBVIOUS
<1>6. ASSUME C # Known PROVE FALSE
  <2>1. PICK w : IsWalk(C, w)
    OBVIOUS
  <2>2. PICK v \in Known \ C : \E w2 : IsWalk(C \cup {v}, w2)
    BY <1>6, <2>1, WalkGrows
  <2>3. C \cup {v} \in Done
    BY <2>2
  <2>4. Known \ (C \cup {v}) = (Known \ C) \ {v}
    OBVIOUS
  <2>5. /\ IsFiniteSet(Known \ C)
        /\ Cardinality((Known \ C) \ {v}) = Cardinality(Known \ C) - 1
    BY <1>1, <2>2, FS_Subset, FS_RemoveElement
  <2>6. Cardinality((Known \ C) \ {v}) \in Left
    BY <2>3, <2>4
  <2>7. n \in Nat /\ n <= n - 1
    BY <1>3, <1>4, <1>5, <2>5, <2>6
  <2> HIDE DEF Left, Done
  <2> QED
    BY <2>7
<1> QED
  BY <1>6

(***************************************************************************)
(* The first hop of a known node other than the source follows the source  *)
(* on a route to the node, whose rest is as long as the distances tell.    *)
(***************************************************************************)
IsHop(t, f) ==
  /\ f \in Known \ {source}
  /\ pmap[f] = source
  /\ dmap[f] <= dmap[t]
  /\ HasRoute(graph, f, t, dmap[t] - dmap[f])

LEMMA HopExtended ==
  ASSUME SearchInv, NEW v \in Known \ {source}, pmap[v] # source,
         NEW f, IsHop(pmap[v], f)
  PROVE  IsHop(v, f)
<1>1. /\ graph \in Graph /\ f \in Node /\ v \in Node
      /\ dmap[v] \in Nat /\ dmap[pmap[v]] \in Nat /\ dmap[f] \in Nat
  BY KnownNodes DEF SearchInv, IInv, TypeOK, IsHop
<1>2. EdgesOfCost(graph, pmap[v], v, dmap[v] - dmap[pmap[v]]) # {}
  BY KnownNodes DEF SearchInv, IInv, PredecessorsTight
<1>3. PICK i \in OutEdges(graph, pmap[v]) :
        graph[i].target = v /\ graph[i].length = dmap[v] - dmap[pmap[v]]
  BY <1>2 DEF EdgesOfCost
<1>4. graph[i].length \in Nat
  BY <1>1, EdgeTypes DEF OutEdges
<1>5. HasRoute(graph, f, v, (dmap[pmap[v]] - dmap[f]) + graph[i].length)
  BY <1>1, <1>3, ExtendedRoute DEF IsHop
<1>6. (dmap[pmap[v]] - dmap[f]) + graph[i].length = dmap[v] - dmap[f]
  BY <1>1, <1>3
<1>7. dmap[f] <= dmap[v]
  BY <1>1, <1>3, <1>4 DEF IsHop
<1> QED
  BY <1>5, <1>6, <1>7 DEF IsHop

LEMMA WalksAreHops ==
  ASSUME SearchInv, NEW w,
         \A v \in Known : w[v] = IF pmap[v] = source THEN v ELSE w[pmap[v]],
         NEW t \in Known \ {source}
  PROVE  IsHop(t, w[t])
<1> DEFINE S == {v \in Known \ {source} : ~ IsHop(v, w[v])}
<1> SUFFICES ASSUME S # {} PROVE FALSE
  OBVIOUS
<1>1. PICK v \in S : pmap[v] \notin S
  <2>1. S \in SUBSET {x \in Node \ {source} : dmap[x] # Absent}
    BY KnownNodes
  <2> QED
    BY <2>1 DEF SearchInv, NoPredecessorCycle
<1>2. v \in Known \ {source} /\ ~ IsHop(v, w[v])
  OBVIOUS
<1>3. CASE pmap[v] = source
  <2>1. v \in Node /\ dmap[v] \in Nat /\ dmap[v] - dmap[v] = 0
    BY <1>2, KnownNodes
  <2>2. HasRoute(graph, v, v, dmap[v] - dmap[v])
    BY <2>1, EmptyRoute
  <2> QED
    BY <1>2, <1>3, <2>1, <2>2 DEF IsHop
<1>4. CASE pmap[v] # source
  <2>1. pmap[v] \in Known \ {source}
    BY <1>2, <1>4, KnownNodes
  <2>2. IsHop(pmap[v], w[pmap[v]])
    BY <1>1, <2>1
  <2>3. w[v] = w[pmap[v]]
    BY <1>2, <1>4
  <2> QED
    BY <1>2, <1>4, <2>2, <2>3, HopExtended
<1> QED
  BY <1>3, <1>4

LEMMA FirstHopIsHop ==
  ASSUME SearchInv, NEW t \in Known \ {source}
  PROVE  IsHop(t, FirstHop(t))
<1> DEFINE Body(w) == [v \in Known |-> IF pmap[v] = source THEN v ELSE w[pmap[v]]]
           walk == CHOOSE w : w = Body(w)
<1>1. PICK f : IsWalk(Known, f)
  BY WalkExists
<1>2. f = Body(f)
  <2>1. f \in [Known -> Known] /\ \A v \in Known : f[v] = Body(f)[v]
    BY <1>1 DEF IsWalk
  <2> QED
    BY <2>1
<1>3. walk = Body(walk)
  <2> HIDE DEF Body
  <2> QED
    BY <1>2
<1>4. FirstHop(t) = walk[t]
  BY DEF FirstHop
<1>5. \A v \in Known : walk[v] = IF pmap[v] = source THEN v ELSE walk[pmap[v]]
  <2> HIDE DEF walk
  <2> QED
    BY <1>3
<1> HIDE DEF walk
<1> QED
  BY <1>4, <1>5, WalksAreHops

-----------------------------------------------------------------------------
(***************************************************************************)
(* The rows write_result makes of a search that has returned are exact,    *)
(* and what is left after their first edge is the distance from there.     *)
(***************************************************************************)
LEMMA DistanceAlong ==
  ASSUME NEW g \in Graph, NEW s \in Node, NEW i \in OutEdges(g, s), NEW t \in Node,
         NEW c, HasRoute(g, g[i].target, t, c),
         DistanceFrom(g, s)[t] = g[i].length + c
  PROVE  DistanceFrom(g, g[i].target)[t] = c
<1> DEFINE d == DistanceFrom(g, g[i].target)[t]
<1>1. g[i].target \in Node /\ g[i].length \in Nat
  BY EdgeTypes DEF OutEdges
<1>2. c \in Nat /\ d # Unreachable /\ d <= c
  BY <1>1, DistanceIsLeast
<1>3. HasRoute(g, g[i].target, t, d) /\ d \in Nat
  BY <1>1, <1>2, DistanceIsLeast
<1>4. HasRoute(g, s, t, g[i].length + d)
  BY <1>3, PrependedRoute
<1>5. g[i].length + c <= g[i].length + d
  BY <1>4, DistanceIsLeast
<1> HIDE DEF d
<1>6. d = c
  BY <1>1, <1>2, <1>3, <1>5
<1> QED
  BY <1>6 DEF d

LEMMA SourceDistance ==
  ASSUME NEW g \in Graph, NEW s \in Node
  PROVE  DistanceFrom(g, s)[s] = 0
<1>1. HasRoute(g, s, s, 0)
  BY EmptyRoute
<1> QED
  BY <1>1, DistanceIsLeast DEF Unreachable

LEMMA RowsWritten ==
  ASSUME SearchInv, pc = "done", NEW t \in Node \ {source}
  PROVE  /\ Rows[t] \in RowType
         /\ RowIsExact(source, t, Rows[t])
         /\ RowFits(t, Rows[t])
<1> DEFINE dist == DistanceFrom(graph, source)
<1>1. /\ graph \in Graph /\ source \in Node /\ delta \in Int
      /\ pmap \in [Node -> Node \cup {Absent}]
  BY DeltasAssumption DEF SearchInv, IInv, TypeOK
<1>2. \A v \in Node \ {source} :
        dmap[v] = IF dist[v] # Unreachable /\ dist[v] <= delta
                  THEN dist[v] ELSE Absent
  BY SearchInvExact DEF ExactWhenDone
<1>3. dmap[source] = 0 /\ dist[source] = 0
  BY <1>1, SourceDistance DEF SearchInv, IInv, MapsAgree
<1>4. dist[t] \in Nat \cup {Unreachable}
  BY <1>1, DistanceIsLeast
<1>5. CASE t \notin Known
  <2>1. Rows[t] = NoRow /\ dmap[t] = Absent
    BY <1>5, KnownNodes DEF Rows
  <2>2. dist[t] = Unreachable \/ dist[t] > delta
    BY <1>1, <1>2, <1>4, <2>1 DEF Absent, Unreachable
  <2>3. Rows[t] \in RowType
    BY <2>1 DEF NoRow, RowType
  <2> QED
    BY <2>1, <2>2, <2>3 DEF RowIsExact, RowFits
<1>6. CASE t \in Known
  <2> DEFINE f == FirstHop(t)
             e == GetEdgeIndex(graph, source, f, dmap[f])
  <2>1. Rows[t] = Row(t)
    BY <1>6 DEF Rows
  <2>2. IsHop(t, f)
    BY <1>6, FirstHopIsHop
  <2>3. /\ f \in Node \ {source} /\ dmap[f] \in Nat /\ dmap[t] \in Nat
        /\ pmap[t] \in Node /\ dmap[pmap[t]] \in Nat /\ pmap[f] = source
        /\ dmap[f] # Absent /\ dmap[t] # Absent
    BY <1>6, <2>2, KnownNodes DEF IsHop, Absent
  <2>4. dist[t] = dmap[t] /\ dist[t] # Unreachable /\ ~ (dist[t] > delta)
    BY <1>1, <1>2, <1>4, <2>3 DEF Unreachable
  <2>5. dist[pmap[t]] = dmap[pmap[t]]
    BY <1>2, <1>3, <2>3 DEF Absent
  <2>6. e \in EdgesOfCost(graph, source, f, dmap[f])
    <3>1. EdgesOfCost(graph, pmap[f], f, dmap[f] - dmap[pmap[f]]) # {}
      BY <2>3 DEF SearchInv, IInv, PredecessorsTight
    <3>2. dmap[f] - dmap[pmap[f]] = dmap[f]
      BY <1>3, <2>3
    <3>3. EdgesOfCost(graph, source, f, dmap[f]) # {}
      BY <2>3, <3>1, <3>2
    <3> QED
      BY <3>3, GetEdgeIndexFinds
  <2>7. /\ e \in OutEdges(graph, source) /\ e \in EdgeIndex
        /\ graph[e].target = f /\ graph[e].length = dmap[f]
    BY <2>6 DEF EdgesOfCost, OutEdges
  <2>8. PICK i \in OutEdges(graph, pmap[t]) :
          graph[i].target = t /\ graph[i].length = dmap[t] - dmap[pmap[t]]
    <3>1. EdgesOfCost(graph, pmap[t], t, dmap[t] - dmap[pmap[t]]) # {}
      BY <2>3 DEF SearchInv, IInv, PredecessorsTight
    <3> QED
      BY <3>1 DEF EdgesOfCost
  <2>9. dist[pmap[t]] + graph[i].length = dist[t]
    BY <2>3, <2>4, <2>5, <2>8
  <2>10. Row(t) = [first_n |-> f, prev_n |-> pmap[t], next_e |-> e, cost |-> dmap[t]]
    BY DEF Row
  <2> HIDE DEF f, e, dist
  <2>11. /\ Rows[t].first_n = f /\ Rows[t].prev_n = pmap[t]
         /\ Rows[t].next_e = e /\ Rows[t].cost = dmap[t]
    BY <2>1, <2>10
  <2>12. Rows[t] \in RowType
    BY <2>1, <2>3, <2>7, <2>10 DEF RowType
  <2>13. RowIsExact(source, t, Rows[t])
    BY <2>4, <2>7, <2>8, <2>9, <2>11 DEF RowIsExact, dist
  <2>14. RowFits(t, Rows[t])
    <3>1. HasRoute(graph, graph[e].target, t, dmap[t] - dmap[f])
      BY <2>2, <2>7 DEF IsHop
    <3>2. DistanceFrom(graph, source)[t] = graph[e].length + (dmap[t] - dmap[f])
      BY <2>3, <2>4, <2>7 DEF dist
    <3>3. DistanceFrom(graph, f)[t] = dmap[t] - dmap[f]
      BY <1>1, <2>7, <3>1, <3>2, DistanceAlong
    <3> QED
      BY <2>2, <2>7, <2>11, <3>3 DEF RowFits, IsHop
  <2> QED
    BY <2>12, <2>13, <2>14
<1> QED
  BY <1>5, <1>6

-----------------------------------------------------------------------------
(***************************************************************************)
(* The inductive invariant of generation and use: the search of the source *)
(* being served is right, the rows written so far are right, and so is the *)
(* walk of the call in progress.                                           *)
(***************************************************************************)
TableInv == SearchInv /\ GenTypeOK /\ RowsRight

QueryInv == WalkRight /\ PathIsRight

LEMMA SearchKeeps ==
  ASSUME Search
  PROVE  UNCHANGED <<graph, source, delta>>
BY DEF Search, Pop, Exhausted, RelaxShorter, RelaxFirst, RelaxNothing

LEMMA TableInit == GenInit => TableInv
<1> SUFFICES ASSUME GenInit PROVE TableInv
  OBVIOUS
<1>1. SearchInv
  BY SearchFresh DEF GenInit, Init, Fresh
<1>2. source \in Node
  BY DEF GenInit, Init
<1>3. /\ waiting = Node \ {source} /\ phase = "generate"
      /\ table = EmptyTable /\ query = NoQuery
  BY DEF GenInit
<1>4. NoRow \in RowType
  BY DEF NoRow, RowType
<1>5. 0 \in Node
  BY GraphAssumption DEF Node
<1>6. GenTypeOK
  BY <1>2, <1>3, <1>4, <1>5 DEF GenTypeOK, EmptyTable, NoQuery
<1>7. Written = {}
  BY <1>3 DEF Written
<1> QED
  BY <1>1, <1>6, <1>7 DEF TableInv, RowsRight

LEMMA QueryInit == GenInit => QueryInv
BY DEF GenInit, NoQuery, QueryInv, WalkRight, PathIsRight

(***************************************************************************)
(* A turn of the search leaves the rows alone.                             *)
(***************************************************************************)
LEMMA TableSearch == TableInv /\ SearchStep => TableInv'
<1> SUFFICES ASSUME TableInv, SearchStep PROVE TableInv'
  OBVIOUS
<1>1. Search /\ UNCHANGED <<use_omp, waiting, table, phase, query>>
  BY DEF SearchStep
<1>2. UNCHANGED <<graph, source, delta>>
  BY <1>1, SearchKeeps
<1>3. SearchInv'
  BY <1>1, SearchInvStep DEF TableInv, Next
<1>4. GenTypeOK'
  BY <1>1, <1>2 DEF TableInv, GenTypeOK
<1>5. RowsRight'
  BY <1>1, <1>2 DEF TableInv, RowsRight, Written, RowIsExact, RowFits, OutEdges
<1> QED
  BY <1>3, <1>4, <1>5 DEF TableInv

(***************************************************************************)
(* The rows of a source are written when its search has returned; the next *)
(* search, if there is one, begins with fresh maps.                        *)
(***************************************************************************)
LEMMA TableWrite == TableInv /\ WriteSource => TableInv'
<1> SUFFICES ASSUME TableInv, WriteSource PROVE TableInv'
  OBVIOUS
<1>1. /\ phase = "generate" /\ pc = "done" /\ query' = query
      /\ table' = [table EXCEPT ![source] = Rows]
  BY DEF WriteSource
<1>2. /\ source \in Node /\ graph \in Graph /\ delta \in Deltas
      /\ waiting \subseteq Node \ {source}
      /\ table \in [Node -> [Node -> RowType]]
      /\ query \in [from : Node, to : Node, at : Node, edges : Seq(EdgeIndex),
                    state : {"idle", "walking", "returned"}]
  BY DEF TableInv, GenTypeOK, SearchInv, IInv, TypeOK
<1>3. Rows[source] = NoRow /\ NoRow \in RowType
  BY <1>2 DEF Rows, NoRow, RowType
<1>4. ASSUME NEW t \in Node \ {source}
      PROVE  /\ Rows[t] \in RowType
             /\ RowIsExact(source, t, Rows[t])
             /\ RowFits(t, Rows[t])
  BY <1>1, RowsWritten DEF TableInv
<1>5. Rows \in [Node -> RowType]
  <2>1. \A t \in Node : Rows[t] \in RowType
    BY <1>3, <1>4
  <2>2. Rows = [t \in Node |-> Rows[t]]
    BY DEF Rows
  <2> HIDE DEF Rows
  <2> QED
    BY <2>1, <2>2
<1>6. table' \in [Node -> [Node -> RowType]]
  BY <1>1, <1>2, <1>5
<1>7. UNCHANGED <<graph, delta>>
  BY DEF WriteSource, StartSearch, vars
<1>8. ASSUME NEW s \in Written \cup {source}, NEW t \in Node
      PROVE  IF t = s THEN table'[s][t] = NoRow
             ELSE (RowIsExact(s, t, table[s][t]) /\ RowFits(t, table[s][t]))'
  <2>1. CASE s = source
    <3>1. table'[s][t] = Rows[t]
      BY <1>1, <1>2, <2>1
    <3>2. t # s => RowIsExact(s, t, table'[s][t]) /\ RowFits(t, table'[s][t])
      BY <1>4, <2>1, <3>1
    <3> QED
      BY <1>3, <1>7, <2>1, <3>1, <3>2 DEF RowIsExact, RowFits, OutEdges
  <2>2. CASE s # source
    <3>1. s \in Written /\ s \in Node /\ table'[s] = table[s]
      BY <1>1, <1>2, <2>2 DEF Written
    <3>2. IF t = s THEN table[s][t] = NoRow
          ELSE RowIsExact(s, t, table[s][t]) /\ RowFits(t, table[s][t])
      BY <3>1 DEF TableInv, RowsRight
    <3> QED
      BY <1>7, <3>1, <3>2 DEF RowIsExact, RowFits, OutEdges
  <2> QED
    BY <2>1, <2>2
<1>9. CASE AllTaken /\ phase' = "serve" /\ UNCHANGED <<vars, waiting>>
  <2>1. SearchInv'
    <3>1. Returned
      BY <1>1, <1>9 DEF Returned
    <3> QED
      BY <3>1, SearchInvStep DEF TableInv, Next
  <2>2. GenTypeOK'
    BY <1>1, <1>2, <1>6, <1>9 DEF GenTypeOK, AllTaken, vars
  <2>3. Written' = Written \cup {source}
    BY <1>1, <1>2, <1>9 DEF Written, AllTaken
  <2>4. RowsRight'
    BY <1>8, <2>3 DEF RowsRight
  <2> QED
    BY <2>1, <2>2, <2>4 DEF TableInv
<1>10. ASSUME ~ AllTaken, NEW s \in NextSources(waiting), StartSearch(s),
              phase' = phase
       PROVE  TableInv'
  <2>1. s \in waiting
    <3>1. CASE use_omp
      BY <1>10, <3>1 DEF NextSources
    <3>2. CASE ~ use_omp
      <4>1. waiting \in SUBSET Nat /\ waiting # {}
        BY <1>2, <1>10 DEF AllTaken, Node
      <4>2. \E n \in waiting : \A m \in waiting : n <= m
        BY <4>1, LeastElement
      <4> QED
        BY <1>10, <3>2, <4>2 DEF NextSources, Least
    <3> QED
      BY <3>1, <3>2
  <2>2. Fresh'
    BY <1>2, <1>7, <1>10, <2>1 DEF StartSearch, Fresh, Empty
  <2>3. SearchInv'
    BY <2>2, SearchFresh, PTL
  <2>4. GenTypeOK'
    BY <1>1, <1>2, <1>6, <1>10, <2>1 DEF GenTypeOK, StartSearch
  <2>5. Written' = Written \cup {source}
    BY <1>1, <1>2, <1>10, <2>1 DEF Written, StartSearch
  <2>6. RowsRight'
    BY <1>8, <2>5 DEF RowsRight
  <2> QED
    BY <2>3, <2>4, <2>6 DEF TableInv
<1> QED
  BY <1>9, <1>10 DEF WriteSource

(***************************************************************************)
(* Once every source is written, a row leads along one of its origin's     *)
(* edges to a node that is the destination or has a row with the rest of   *)
(* the cost.                                                               *)
(***************************************************************************)
LEMMA RowLeadsOn ==
  ASSUME TableInv, phase = "serve", NEW s \in Node, NEW t \in Node,
         table[s][t] # NoRow
  PROVE  LET r == table[s][t]
             e == graph[r.next_e]
             c == r.cost - e.length IN
         /\ s # t /\ r.cost \in Nat
         /\ r.next_e \in EdgeIndex /\ e.source = s /\ e.target = r.first_n
         /\ e.length \in Nat /\ r.first_n \in Node /\ c \in Nat
         /\ r.first_n = t => c = 0
         /\ r.first_n # t =>
              table[r.first_n][t] # NoRow /\ table[r.first_n][t].cost = c
<1> DEFINE r == table[s][t]
           dist == DistanceFrom(graph, s)
           c == r.cost - graph[r.next_e].length
<1>1. /\ graph \in Graph /\ delta \in Int /\ Written = Node
      /\ table \in [Node -> [Node -> RowType]]
  BY DeltasAssumption DEF TableInv, SearchInv, IInv, TypeOK, GenTypeOK, Written
<1>2. s # t /\ RowIsExact(s, t, r) /\ RowFits(t, r)
  BY <1>1 DEF TableInv, RowsRight
<1>3. /\ r.cost = dist[t] /\ r.next_e \in OutEdges(graph, s)
      /\ graph[r.next_e].target = r.first_n
      /\ dist[t] # Unreachable /\ ~ (dist[t] > delta)
  BY <1>2 DEF RowIsExact
<1>4. dist[t] \in Nat /\ dist[t] <= delta
  BY <1>1, <1>3, DistanceIsLeast
<1>5. r.next_e \in EdgeIndex /\ graph[r.next_e].source = s
  BY <1>3 DEF OutEdges
<1>6. r.first_n \in Node /\ graph[r.next_e].length \in Nat
  BY <1>1, <1>3, <1>5, EdgeTypes
<1>7. /\ graph[r.next_e].length <= r.cost
      /\ DistanceFrom(graph, r.first_n)[t] = c
  BY <1>2 DEF RowFits
<1>8. c \in Nat /\ c <= delta
  BY <1>1, <1>3, <1>4, <1>6, <1>7
<1>9. CASE r.first_n = t
  BY <1>1, <1>2, <1>3, <1>4, <1>5, <1>6, <1>7, <1>8, <1>9, SourceDistance
<1>10. CASE r.first_n # t
  <2> DEFINE n == table[r.first_n][t]
  <2>1. RowIsExact(r.first_n, t, n)
    BY <1>1, <1>6, <1>10 DEF TableInv, RowsRight
  <2>2. n.cost = c
    <3> HIDE DEF c, r
    <3> QED
      BY <1>1, <1>7, <1>8, <2>1 DEF RowIsExact, Unreachable
  <2>3. n # NoRow
    BY <1>8, <2>2 DEF NoRow, Absent
  <2> QED
    BY <1>2, <1>3, <1>4, <1>5, <1>6, <1>8, <1>10, <2>2, <2>3
<1> QED
  BY <1>9, <1>10

(***************************************************************************)
(* A path with one more edge behind it.                                    *)
(***************************************************************************)
LEMMA LeadsOn ==
  ASSUME NEW p \in Seq(EdgeIndex), NEW e \in EdgeIndex, NEW u, NEW v,
         \/ p = <<>> /\ v = u
         \/ LeadsTo(p, u, v),
         graph[e].source = v
  PROVE  LeadsTo(Append(p, e), u, graph[e].target)
<1> DEFINE q == Append(p, e)
<1>1. /\ Len(p) \in Nat /\ Len(q) = Len(p) + 1 /\ q[Len(p) + 1] = e
      /\ \A k \in 1 .. Len(p) : q[k] = p[k]
      /\ q # <<>>
      /\ \A k \in 1 .. Len(q) : q[k] \in EdgeIndex
  OBVIOUS
<1>2. CASE p = <<>> /\ v = u
  <2>1. Len(q) = 1 /\ q[1] = e
    BY <1>1, <1>2
  <2> HIDE DEF q
  <2> QED
    BY <1>1, <1>2, <2>1 DEF LeadsTo, q
<1>3. CASE LeadsTo(p, u, v)
  <2>1. Len(p) >= 1 /\ q[1] = p[1] /\ q[Len(q)] = e
    BY <1>1, <1>3 DEF LeadsTo
  <2>2. ASSUME NEW k \in 1 .. Len(q) - 1
        PROVE  graph[q[k]].target = graph[q[k + 1]].source
    <3>1. CASE k = Len(p)
      <4>1. q[k] = p[Len(p)] /\ q[k + 1] = e
        BY <1>1, <2>1, <3>1
      <4> QED
        BY <1>3, <4>1 DEF LeadsTo
    <3>2. CASE k # Len(p)
      <4>1. k \in 1 .. Len(p) - 1 /\ q[k] = p[k] /\ q[k + 1] = p[k + 1]
        BY <1>1, <3>2
      <4> QED
        BY <1>3, <4>1 DEF LeadsTo
    <3> QED
      BY <3>1, <3>2
  <2> HIDE DEF q
  <2>3. LeadsTo(q, u, graph[e].target)
    BY <1>1, <1>3, <2>1, <2>2 DEF LeadsTo
  <2> QED
    BY <2>3 DEF q
<1> QED
  BY <1>2, <1>3

(***************************************************************************)
(* The steps of a call of look_sp_path.                                    *)
(***************************************************************************)
LEMMA TableServe ==
  ASSUME TableInv, UNCHANGED <<vars, waiting, table, phase>>,
         query' \in [from : Node, to : Node, at : Node, edges : Seq(EdgeIndex),
                     state : {"idle", "walking", "returned"}]
  PROVE  TableInv'
<1>1. SearchInv'
  BY SearchInvStep DEF TableInv
<1>2. GenTypeOK'
  BY DEF TableInv, GenTypeOK, vars
<1>3. RowsRight'
  BY DEF TableInv, RowsRight, Written, RowIsExact, RowFits, OutEdges, vars
<1> QED
  BY <1>1, <1>2, <1>3 DEF TableInv

LEMMA InvBegin == TableInv /\ QueryInv /\ BeginQuery => TableInv' /\ QueryInv'
<1> SUFFICES ASSUME TableInv, QueryInv, BeginQuery PROVE TableInv' /\ QueryInv'
  OBVIOUS
<1>1. phase = "serve" /\ UNCHANGED <<vars, use_omp, waiting, table, phase>>
  BY DEF BeginQuery
<1>2. PICK s \in Node, t \in Node :
        query' = [from |-> s, to |-> t, at |-> s, edges |-> <<>>,
                  state |-> IF s = t \/ table[s][t] = NoRow
                            THEN "returned" ELSE "walking"]
  BY DEF BeginQuery, LookUp
<1>3. /\ query'.from = s /\ query'.to = t /\ query'.at = s /\ query'.edges = <<>>
      /\ query'.state = IF s = t \/ table[s][t] = NoRow
                        THEN "returned" ELSE "walking"
  BY <1>2
<1>4. query' \in [from : Node, to : Node, at : Node, edges : Seq(EdgeIndex),
                  state : {"idle", "walking", "returned"}]
  BY <1>2
<1>5. TableInv'
  BY <1>1, <1>4, TableServe
<1>6. WalkRight'
  <2>1. s # t /\ table[s][t] # NoRow => table[s][t].cost \in Nat
    BY <1>1, RowLeadsOn
  <2>2. PathLength(graph, <<>>) = 0
    BY NoPathLength DEF TableInv, SearchInv, IInv, TypeOK
  <2> QED
    BY <1>1, <1>3, <2>1, <2>2 DEF WalkRight, vars
<1>7. PathIsRight'
  BY <1>1, <1>3 DEF PathIsRight
<1> QED
  BY <1>5, <1>6, <1>7 DEF QueryInv

LEMMA InvFollow == TableInv /\ QueryInv /\ FollowRow => TableInv' /\ QueryInv'
<1> SUFFICES ASSUME TableInv, QueryInv, FollowRow PROVE TableInv' /\ QueryInv'
  OBVIOUS
<1> DEFINE r == table[query.at][query.to]
           from == query.from
           to == query.to
           p == query.edges
           q == Append(p, r.next_e)
           c == r.cost - graph[r.next_e].length
<1>1. /\ phase = "serve" /\ query.state \in {"walking", "crashed"}
      /\ UNCHANGED <<vars, use_omp, waiting, table, phase>>
  BY DEF FollowRow
<1>2. /\ query \in [from : Node, to : Node, at : Node, edges : Seq(EdgeIndex),
                    state : {"idle", "walking", "returned"}]
      /\ graph \in Graph /\ table \in [Node -> [Node -> RowType]]
  BY DEF TableInv, SearchInv, IInv, TypeOK, GenTypeOK
<1>3. /\ query.state = "walking"
      /\ query.from \in Node /\ to \in Node /\ query.at \in Node
      /\ p \in Seq(EdgeIndex)
  BY <1>1, <1>2
<1>4. /\ query.at # to /\ query.from # to
      /\ table[query.from][to] # NoRow /\ r # NoRow
      /\ \/ p = <<>> /\ query.at = query.from
         \/ LeadsTo(p, query.from, query.at)
      /\ PathLength(graph, p) + r.cost = table[query.from][to].cost
  BY <1>3 DEF QueryInv, WalkRight
<1>5. query' = [query EXCEPT !.edges = q, !.at = r.first_n,
                             !.state = IF r.first_n = to
                                       THEN "returned" ELSE "walking"]
  BY <1>4 DEF FollowRow, LookUp, MoveTo
<1>6. /\ r.cost \in Nat /\ r.next_e \in EdgeIndex
      /\ graph[r.next_e].source = query.at
      /\ graph[r.next_e].target = r.first_n
      /\ graph[r.next_e].length \in Nat /\ r.first_n \in Node /\ c \in Nat
      /\ r.first_n = to => c = 0
      /\ r.first_n # to =>
           table[r.first_n][to] # NoRow /\ table[r.first_n][to].cost = c
  <2>1. PICK v \in Node, x \in Node : v = query.at /\ x = query.to
    BY <1>3
  <2>2. table[v][x] # NoRow /\ phase = "serve"
    BY <1>1, <1>4, <2>1
  <2>3. LET row == table[v][x]
            e == graph[row.next_e]
            left == row.cost - e.length IN
        /\ v # x /\ row.cost \in Nat
        /\ row.next_e \in EdgeIndex /\ e.source = v /\ e.target = row.first_n
        /\ e.length \in Nat /\ row.first_n \in Node /\ left \in Nat
        /\ row.first_n = x => left = 0
        /\ row.first_n # x =>
             table[row.first_n][x] # NoRow /\ table[row.first_n][x].cost = left
    BY <1>1, <2>2, RowLeadsOn
  <2> QED
    BY <2>1, <2>3
<1>7. q \in Seq(EdgeIndex)
  <2> HIDE DEF r, p
  <2> QED
    BY <1>3, <1>6
<1>8. LeadsTo(q, query.from, r.first_n)
  <2> DEFINE e == r.next_e
             u == query.from
             v == query.at
  <2>1. /\ e \in EdgeIndex /\ graph[e].source = v /\ graph[e].target = r.first_n
        /\ p \in Seq(EdgeIndex)
        /\ \/ p = <<>> /\ v = u
           \/ LeadsTo(p, u, v)
    BY <1>3, <1>4, <1>6
  <2> HIDE DEF r, p, e, u, v
  <2>2. LeadsTo(Append(p, e), u, graph[e].target)
    BY <2>1, LeadsOn
  <2> QED
    BY <2>1, <2>2 DEF e, u
<1>9. PathLength(graph, q) + c = table[query.from][to].cost /\ PathLength(graph, q) \in Nat
  <2>1. /\ PathLength(graph, p) \in Nat /\ PathLength(graph, q) \in Nat
        /\ PathLength(graph, q) = PathLength(graph, p) + graph[r.next_e].length
    BY <1>2, <1>3, <1>6, <1>7, PathLengthGrows
  <2> HIDE DEF p, q, r, to
  <2> QED
    BY <1>4, <1>6, <2>1
<1> HIDE DEF q, r, c
<1>10. /\ query'.from = query.from /\ query'.to = query.to
       /\ query'.at = r.first_n /\ query'.edges = q
       /\ query'.state = IF r.first_n = to THEN "returned" ELSE "walking"
  BY <1>2, <1>5
<1>11. query' \in [from : Node, to : Node, at : Node, edges : Seq(EdgeIndex),
                   state : {"idle", "walking", "returned"}]
  BY <1>2, <1>5, <1>6, <1>7
<1>12. TableInv'
  BY <1>1, <1>11, TableServe
<1>13. graph' = graph /\ table' = table
  BY <1>1 DEF vars
<1>14. LeadsTo(query.edges, query.from, query.at)'
  BY <1>8, <1>10, <1>13 DEF LeadsTo
<1>15. WalkRight'
  <2>1. r.first_n # to => PathLength(graph, q) + table[r.first_n][to].cost
                            = table[query.from][to].cost
    BY <1>6, <1>9
  <2> QED
    BY <1>1, <1>4, <1>6, <1>10, <1>13, <1>14, <2>1 DEF WalkRight
<1>16. PathIsRight'
  <2>1. r.first_n = to => PathLength(graph, q) = table[query.from][to].cost
    BY <1>6, <1>9
  <2> QED
    BY <1>4, <1>10, <1>13, <1>14, <2>1 DEF PathIsRight
<1> QED
  BY <1>12, <1>15, <1>16 DEF QueryInv

LEMMA InvEnd == TableInv /\ QueryInv /\ EndQuery => TableInv' /\ QueryInv'
<1> SUFFICES ASSUME TableInv, QueryInv, EndQuery PROVE TableInv' /\ QueryInv'
  OBVIOUS
<1>1. query' = NoQuery /\ UNCHANGED <<vars, use_omp, waiting, table, phase>>
  BY DEF EndQuery
<1>2. 0 \in Node
  BY GraphAssumption DEF Node
<1>3. query' \in [from : Node, to : Node, at : Node, edges : Seq(EdgeIndex),
                  state : {"idle", "walking", "returned"}]
  BY <1>1, <1>2 DEF NoQuery
<1>4. TableInv'
  BY <1>1, <1>3, TableServe
<1>5. QueryInv'
  BY <1>1 DEF NoQuery, QueryInv, WalkRight, PathIsRight
<1> QED
  BY <1>4, <1>5

LEMMA GenInvStep ==
  TableInv /\ QueryInv /\ [GenNext]_genVars => TableInv' /\ QueryInv'
<1> SUFFICES ASSUME TableInv, QueryInv, [GenNext]_genVars
             PROVE  TableInv' /\ QueryInv'
  OBVIOUS
<1>1. ASSUME phase = "generate", query' = query PROVE QueryInv'
  BY <1>1 DEF QueryInv, WalkRight, PathIsRight
<1>2. CASE SearchStep
  BY <1>1, <1>2, TableSearch DEF SearchStep
<1>3. CASE WriteSource
  BY <1>1, <1>3, TableWrite DEF WriteSource
<1>4. CASE BeginQuery
  BY <1>4, InvBegin
<1>5. CASE FollowRow
  BY <1>5, InvFollow
<1>6. CASE EndQuery
  BY <1>6, InvEnd
<1>7. CASE UNCHANGED genVars
  <2>1. /\ UNCHANGED <<vars, waiting, table, phase>> /\ query' = query
        /\ query \in [from : Node, to : Node, at : Node, edges : Seq(EdgeIndex),
                      state : {"idle", "walking", "returned"}]
    BY <1>7 DEF genVars, TableInv, GenTypeOK
  <2>2. TableInv'
    BY <2>1, TableServe
  <2>3. graph' = graph /\ table' = table
    BY <2>1 DEF vars
  <2>4. QueryInv'
    BY <2>1, <2>3 DEF QueryInv, WalkRight, PathIsRight, LeadsTo
  <2> QED
    BY <2>2, <2>4
<1> QED
  BY <1>2, <1>3, <1>4, <1>5, <1>6, <1>7 DEF GenNext

(***************************************************************************)
(* Generation and use keep every invariant of the searches, the rows and   *)
(* the walk, and with them the types: no call of look_sp_path ever         *)
(* dereferences a row that is not there, the state "crashed".              *)
(***************************************************************************)
LEMMA GenInvariance == GenSpec => [](TableInv /\ QueryInv)
BY TableInit, QueryInit, GenInvStep, PTL DEF GenSpec

THEOREM NeverDereferencesNothing == GenSpec => []GenTypeOK
<1>1. TableInv /\ QueryInv => GenTypeOK
  BY DEF TableInv
<1> QED
  BY <1>1, GenInvariance, PTL

(***************************************************************************)
(* The closed file holds a row precisely for the pairs within the bound,   *)
(* with the shortest distance, a first edge and a last edge of the graph:  *)
(* for every graph, bound and order of the sources.                        *)
(***************************************************************************)
THEOREM RowsExact == GenSpec => []RowsAreExact
<1>1. TableInv /\ QueryInv => RowsAreExact
  BY DEF TableInv, RowsRight, RowsAreExact, Closed, Written
<1> QED
  BY <1>1, GenInvariance, PTL

(***************************************************************************)
(* Rows of different searches fit together: after the first hop of a row   *)
(* there is a row with exactly the cost that is left.                      *)
(***************************************************************************)
THEOREM RowsClosed == GenSpec => []RowsAreClosed
<1>1. TableInv /\ QueryInv => RowsAreClosed
  <2> SUFFICES ASSUME TableInv, Closed, NEW s \in Node, NEW t \in Node,
                      table[s][t] # NoRow, table[s][t].first_n # t
               PROVE  LET r == table[s][t] IN
                      /\ r.next_e \in EdgeIndex
                      /\ table[r.first_n][t] # NoRow
                      /\ table[r.first_n][t].cost = r.cost - graph[r.next_e].length
    BY DEF RowsAreClosed
  <2> QED
    BY RowLeadsOn DEF Closed
<1> QED
  BY <1>1, GenInvariance, PTL

(***************************************************************************)
(* look_sp_path returns a path of the graph from origin to destination as  *)
(* long as the cost of the row, and nothing only where there is no row or  *)
(* nowhere to go.                                                          *)
(***************************************************************************)
THEOREM PathRight == GenSpec => []PathIsRight
<1>1. TableInv /\ QueryInv => PathIsRight
  BY DEF QueryInv
<1> QED
  BY <1>1, GenInvariance, PTL

(***************************************************************************)
(* Where no edge has length zero the walk passes no node twice: what is    *)
(* left to go drops with every edge.                                       *)
(***************************************************************************)
Remaining(k) == DistanceFrom(graph, graph[query.edges[k]].source)[query.to]

Rest ==
  IF query.state = "walking" THEN table[query.at][query.to].cost ELSE 0

Approaching ==
  \A k \in 1 .. Len(query.edges) :
    /\ Remaining(k) \in Nat
    /\ Remaining(k) > Rest
    /\ \A j \in 1 .. k - 1 : Remaining(j) > Remaining(k)

LEMMA ApproachingFollow ==
  ASSUME 0 \notin Lengths
  PROVE  TableInv /\ QueryInv /\ Approaching /\ FollowRow => Approaching'
<1> SUFFICES ASSUME TableInv, QueryInv, Approaching, FollowRow PROVE Approaching'
  OBVIOUS
<1> DEFINE r == table[query.at][query.to]
           p == query.edges
           q == Append(p, r.next_e)
           to == query.to
           left(e) == DistanceFrom(graph, graph[e].source)[to]
<1>1. /\ phase = "serve" /\ query.state = "walking"
      /\ graph' = graph /\ table' = table
      /\ query \in [from : Node, to : Node, at : Node, edges : Seq(EdgeIndex),
                    state : {"idle", "walking", "returned"}]
  BY DEF FollowRow, TableInv, GenTypeOK, vars
<1>2. r # NoRow /\ query.at # to
  BY <1>1 DEF QueryInv, WalkRight
<1>3. query' = [query EXCEPT !.edges = q, !.at = r.first_n,
                             !.state = IF r.first_n = to
                                       THEN "returned" ELSE "walking"]
  BY <1>2 DEF FollowRow, LookUp, MoveTo
<1>4. /\ r.cost \in Nat /\ r.next_e \in EdgeIndex
      /\ graph[r.next_e].source = query.at
      /\ graph[r.next_e].length \in Nat
      /\ r.cost - graph[r.next_e].length \in Nat
      /\ r.first_n # to =>
           table[r.first_n][to].cost = r.cost - graph[r.next_e].length
  <2>1. PICK v \in Node, x \in Node : v = query.at /\ x = query.to
    BY <1>1
  <2>2. table[v][x] # NoRow
    BY <1>2, <2>1
  <2>3. LET row == table[v][x]
            e == graph[row.next_e]
            rest == row.cost - e.length IN
        /\ v # x /\ row.cost \in Nat
        /\ row.next_e \in EdgeIndex /\ e.source = v /\ e.target = row.first_n
        /\ e.length \in Nat /\ row.first_n \in Node /\ rest \in Nat
        /\ row.first_n = x => rest = 0
        /\ row.first_n # x =>
             table[row.first_n][x] # NoRow /\ table[row.first_n][x].cost = rest
    BY <1>1, <2>2, RowLeadsOn
  <2> QED
    BY <2>1, <2>3
<1>5. graph[r.next_e].length # 0
  <2>1. graph \in Graph
    BY DEF TableInv, SearchInv, IInv, TypeOK
  <2> HIDE DEF r
  <2>2. graph[r.next_e] \in Edge
    BY <1>4, <2>1 DEF Graph
  <2> QED
    BY <2>2 DEF Edge
<1>6. left(r.next_e) = r.cost
  <2>1. Written = Node
    BY <1>1 DEF TableInv, GenTypeOK, Written
  <2>2. RowIsExact(query.at, to, r)
    BY <1>1, <1>2, <2>1 DEF TableInv, RowsRight
  <2> QED
    BY <1>2, <1>4, <2>2 DEF RowIsExact
<1>7. /\ Len(p) \in Nat /\ Len(q) = Len(p) + 1 /\ q[Len(q)] = r.next_e
      /\ \A k \in 1 .. Len(p) : q[k] = p[k]
  <2>1. p \in Seq(EdgeIndex) /\ r.next_e \in EdgeIndex
    BY <1>1, <1>4
  <2> HIDE DEF p, r
  <2> QED
    BY <2>1
<1> HIDE DEF q
<1>8. \A k \in 1 .. Len(p) :
        /\ left(p[k]) \in Nat /\ left(p[k]) > r.cost
        /\ \A j \in 1 .. k - 1 : left(p[j]) > left(p[k])
  BY <1>1 DEF Approaching, Remaining, Rest
<1>9. query'.edges = q /\ query'.to = to /\ Rest' \in Nat /\ Rest' < r.cost
  <2> HIDE DEF r
  <2>1. /\ query'.to = to /\ query'.at = r.first_n /\ query'.edges = q
        /\ query'.state = IF r.first_n = to THEN "returned" ELSE "walking"
    BY <1>1, <1>3
  <2> QED
    BY <1>1, <1>4, <1>5, <2>1 DEF Rest
<1> HIDE DEF r, p, left
<1>10. \A k \in 1 .. Len(q) :
         /\ left(q[k]) \in Nat /\ left(q[k]) > Rest'
         /\ \A j \in 1 .. k - 1 : left(q[j]) > left(q[k])
  <2> SUFFICES ASSUME NEW k \in 1 .. Len(q)
               PROVE  /\ left(q[k]) \in Nat /\ left(q[k]) > Rest'
                      /\ \A j \in 1 .. k - 1 : left(q[j]) > left(q[k])
    OBVIOUS
  <2>1. CASE k = Len(q)
    <3>1. left(q[k]) = r.cost
      BY <1>6, <1>7, <2>1
    <3>2. ASSUME NEW j \in 1 .. k - 1 PROVE left(q[j]) > r.cost
      <4>1. j \in 1 .. Len(p) /\ q[j] = p[j]
        BY <1>7, <2>1
      <4> QED
        BY <1>8, <4>1
    <3> QED
      BY <1>4, <1>9, <3>1, <3>2
  <2>2. CASE k # Len(q)
    <3>1. k \in 1 .. Len(p) /\ q[k] = p[k]
      BY <1>7, <2>2
    <3>2. \A j \in 1 .. k - 1 : q[j] = p[j]
      BY <1>7, <3>1
    <3> QED
      BY <1>4, <1>8, <1>9, <3>1, <3>2
  <2> QED
    BY <2>1, <2>2
<1> QED
  BY <1>1, <1>9, <1>10 DEF Approaching, Remaining, left

LEMMA ApproachingStep ==
  ASSUME 0 \notin Lengths
  PROVE  TableInv /\ QueryInv /\ Approaching /\ [GenNext]_genVars => Approaching'
<1> SUFFICES ASSUME TableInv, QueryInv, Approaching, [GenNext]_genVars
             PROVE  Approaching'
  OBVIOUS
<1>1. ASSUME query'.edges = <<>> PROVE Approaching'
  BY <1>1 DEF Approaching
<1>2. CASE SearchStep \/ WriteSource
  <2>1. phase = "generate" /\ query' = query
    BY <1>2 DEF SearchStep, WriteSource
  <2>2. query.state = "idle"
    BY <2>1 DEF TableInv, GenTypeOK, QueryInv, WalkRight
  <2>3. graph' = graph
    BY <1>2, SearchKeeps DEF SearchStep, WriteSource, StartSearch, vars
  <2>4. \A k : Remaining(k)' = Remaining(k)
    BY <2>1, <2>3 DEF Remaining
  <2>5. Rest' = Rest
    BY <2>1, <2>2 DEF Rest
  <2> QED
    BY <2>1, <2>4, <2>5 DEF Approaching
<1>3. CASE BeginQuery
  BY <1>1, <1>3 DEF BeginQuery
<1>4. CASE FollowRow
  BY <1>4, ApproachingFollow
<1>5. CASE EndQuery
  BY <1>1, <1>5 DEF EndQuery, NoQuery
<1>6. CASE UNCHANGED genVars
  <2>1. query' = query /\ graph' = graph /\ table' = table
    BY <1>6 DEF genVars, vars
  <2> QED
    BY <2>1 DEF Approaching, Remaining, Rest
<1> QED
  BY <1>2, <1>3, <1>4, <1>5, <1>6 DEF GenNext

LEMMA ApproachingIsShort ==
  ASSUME TableInv, QueryInv, Approaching
  PROVE  NoNodeTwice
<1> DEFINE p == query.edges
           from == [k \in 1 .. Len(p) |-> graph[p[k]].source]
           Others == Node \ {query.to}
<1>1. /\ graph \in Graph /\ p \in Seq(EdgeIndex) /\ query.to \in Node
      /\ query.edges = p
  BY DEF TableInv, SearchInv, IInv, TypeOK, GenTypeOK
<1>2. Len(p) \in Nat /\ \A k \in 1 .. Len(p) : p[k] \in EdgeIndex
  BY <1>1
<1> HIDE DEF p
<1>3. ASSUME NEW k \in 1 .. Len(p)
      PROVE  from[k] \in Others
  <2>1. graph[p[k]].source \in Node
    BY <1>1, <1>2, EdgeTypes
  <2>2. Remaining(k) # 0
    <3>1. Remaining(k) \in Nat /\ Remaining(k) > Rest
      BY <1>1 DEF Approaching
    <3>2. Rest \in Nat
      BY RowLeadsOn DEF Rest, QueryInv, WalkRight, TableInv, GenTypeOK
    <3> QED
      BY <3>1, <3>2
  <2>3. graph[p[k]].source # query.to
    BY <1>1, <2>2, SourceDistance DEF Remaining
  <2> QED
    BY <2>1, <2>3
<1>4. from \in [1 .. Len(p) -> Others]
  BY <1>3
<1>5. ASSUME NEW k \in 1 .. Len(p), NEW j \in 1 .. Len(p), k # j, from[k] = from[j]
      PROVE  FALSE
  <2>1. Remaining(k) = Remaining(j) /\ Remaining(k) \in Nat /\ Remaining(j) \in Nat
    BY <1>1, <1>5 DEF Remaining, Approaching
  <2>2. k \in 1 .. j - 1 \/ j \in 1 .. k - 1
    BY <1>2, <1>5
  <2>3. k \in 1 .. j - 1 => Remaining(k) > Remaining(j)
    BY <1>1 DEF Approaching
  <2>4. j \in 1 .. k - 1 => Remaining(j) > Remaining(k)
    BY <1>1 DEF Approaching
  <2> QED
    BY <2>1, <2>2, <2>3, <2>4
<1>6. IsFiniteSet(Others) /\ Cardinality(Others) = NumNodes - 1
  <2>1. IsFiniteSet(Node) /\ Cardinality(Node) = NumNodes
    BY GraphAssumption, FS_Interval DEF Node
  <2> QED
    BY <1>1, <2>1, FS_RemoveElement
<1>7. IsFiniteSet(1 .. Len(p)) /\ Cardinality(1 .. Len(p)) = Len(p)
  BY <1>2, FS_Interval
<1>8. ~ (Cardinality(Others) < Cardinality(1 .. Len(p)))
  <2> HIDE DEF Others, from
  <2> QED
    BY <1>4, <1>5, <1>6, <1>7, FS_PigeonHole
<1> QED
  BY <1>1, <1>2, <1>6, <1>7, <1>8, GraphAssumption DEF NoNodeTwice

THEOREM ReturnsShortPath ==
  ASSUME 0 \notin Lengths
  PROVE  GenSpec => []ReturnsThePath
<1>1. GenInit => Approaching
  BY DEF GenInit, NoQuery, Approaching
<1>2. TableInv /\ QueryInv /\ Approaching /\ [GenNext]_genVars => Approaching'
  BY ApproachingStep
<1>3. TableInv /\ QueryInv /\ Approaching => ReturnsThePath
  BY ApproachingIsShort DEF ReturnsThePath, QueryInv
<1> QED
  BY <1>1, <1>2, <1>3, GenInvariance, PTL DEF GenSpec
==============================================================================
