-------------------------- MODULE PathSearch_proofs --------------------------
(***************************************************************************)
(* The searches from one node to another, on every network: A* wherever    *)
(* the straight distances are below the lengths.                           *)
(***************************************************************************)
EXTENDS PathSearch, RoadGraph_proofs, SequenceTheorems

-----------------------------------------------------------------------------
(***************************************************************************)
(* A front, whatever search it belongs to: g is the graph it grows in (the *)
(* reversed one for a front from the target), h the heuristic distances.   *)
(***************************************************************************)
SettledIn(f) == {v \in Node : f.dmap[v] # Absent /\ f.heap[v] = Absent}

FrontTyped(h, f) ==
  /\ f \in Front
  /\ \A v \in Node : f.dmap[v] = Absent <=> f.via[v] = Absent
  /\ \A v \in InQueue(f) : f.dmap[v] # Absent /\ f.heap[v] = f.dmap[v] + h[v]

\* What is settled comes before what is queued.
SettledFirst(h, f) ==
  \A v \in SettledIn(f), u \in InQueue(f) : f.dmap[v] + h[v] <= f.heap[u]

\* A known node hangs from a settled one by an edge of the right length.
Rooted(g, s, f) ==
  \A v \in Node \ {s} :
    f.dmap[v] # Absent =>
      /\ f.via[v] \in SettledIn(f)
      /\ EdgesOfCost(g, f.via[v], v, f.dmap[v] - f.dmap[f.via[v]]) # {}

KnowsRoutes(g, s, f) ==
  \A v \in Node : f.dmap[v] # Absent => HasRoute(g, s, v, f.dmap[v])

FrontOK(g, h, s, f) ==
  /\ FrontTyped(h, f)
  /\ f.dmap[s] = 0
  /\ SettledFirst(h, f)
  /\ Rooted(g, s, f)
  /\ KnowsRoutes(g, s, f)

\* The heuristic drops along an edge by no more than its length.
Consistent(g, h) ==
  \A e \in EdgeIndex : h[g[e].source] <= g[e].length + h[g[e].target]

(***************************************************************************)
(* What a turn of the loop does to a node: with L, the lengths of the      *)
(* edges to it, it takes a smaller distance or is left as it was.          *)
(***************************************************************************)
Moved(h, f, u, L, v, after) ==
  \E l \in L :
    /\ \A m \in L : l <= m
    /\ f.dmap[v] = Absent \/ f.dmap[v] > f.dmap[u] + l
    /\ after.dmap[v] = f.dmap[u] + l
    /\ after.heap[v] = (f.dmap[u] + l) + h[v]
    /\ after.via[v] = u

Kept(f, u, L, v, after) ==
  /\ \A l \in L : f.dmap[v] # Absent /\ f.dmap[v] <= f.dmap[u] + l
  /\ after.dmap[v] = f.dmap[v]
  /\ after.via[v] = f.via[v]
  /\ after.heap[v] = IF v = u THEN Absent ELSE f.heap[v]

Turn(h, f, u, lengths, after) ==
  /\ after \in Front
  /\ Kept(f, u, lengths[u], u, after)
  /\ \A v \in Node : Moved(h, f, u, lengths[v], v, after)
                       \/ Kept(f, u, lengths[v], v, after)

(***************************************************************************)
(* The top of the heap has the least key.                                  *)
(***************************************************************************)
LEMMA TopIsLeast ==
  ASSUME NEW f \in Front, InQueue(f) # {}
  PROVE  /\ Top(f) \in InQueue(f)
         /\ \A v \in InQueue(f) : f.heap[Top(f)] <= f.heap[v]
<1> DEFINE Keys == {f.heap[v] : v \in InQueue(f)}
<1>1. \A v \in InQueue(f) : v \in Node /\ f.heap[v] \in Nat
  BY DEF InQueue, Front
<1>2. Keys \in SUBSET Nat /\ Keys # {}
  BY <1>1
<1>3. PICK k \in Keys : \A m \in Keys : k <= m
  <2> HIDE DEF Keys
  <2> QED
    BY <1>2, LeastElement
<1> DEFINE Ties == {v \in InQueue(f) : f.heap[v] = k}
<1>4. Ties \in SUBSET Nat /\ Ties # {}
  BY <1>1, GraphAssumption DEF Node
<1>5. PICK u \in Ties : \A v \in Ties : u <= v
  <2> HIDE DEF Ties
  <2> QED
    BY <1>4, LeastElement
<1>6. u \in InQueue(f) /\ f.heap[u] = k
  BY <1>5
<1>7. ASSUME NEW v \in InQueue(f) PROVE Before(f, u, v)
  <2>1. k <= f.heap[v] /\ k \in Nat /\ f.heap[v] \in Nat
    BY <1>1, <1>2, <1>3
  <2>2. f.heap[v] = k => u <= v
    BY <1>5
  <2> QED
    BY <1>6, <2>1, <2>2 DEF Before
<1>8. /\ Top(f) \in InQueue(f)
      /\ \A v \in InQueue(f) : Before(f, Top(f), v)
  BY <1>6, <1>7 DEF Top
<1> QED
  BY <1>1, <1>8 DEF Before

(***************************************************************************)
(* The beginning of a front, and the loss of a node taken for nothing.     *)
(***************************************************************************)
LEMMA FrontBegins ==
  ASSUME NEW s \in Node, NEW h \in [Node -> Nat], NEW g
  PROVE  LET f == FrontAt(s, h[s]) IN
         /\ FrontOK(g, h, s, f) /\ SettledIn(f) = {}
         /\ InQueue(f) = {s}
<1> DEFINE f == FrontAt(s, h[s])
<1>1. /\ f \in Front
      /\ f.heap[s] = h[s] /\ f.dmap[s] = 0 /\ f.via[s] = s
      /\ \A v \in Node \ {s} :
           f.heap[v] = Absent /\ f.dmap[v] = Absent /\ f.via[v] = Absent
  BY DEF FrontAt, Unknown, Front, Absent
<1> HIDE DEF f
<1>2. InQueue(f) = {s} /\ SettledIn(f) = {}
  BY <1>1 DEF InQueue, SettledIn, Absent
<1>3. FrontTyped(h, f)
  BY <1>1, <1>2 DEF FrontTyped, Absent, Node
<1>4. KnowsRoutes(g, s, f)
  BY <1>1, EmptyRoute DEF KnowsRoutes
<1>5. SettledFirst(h, f) /\ Rooted(g, s, f)
  BY <1>1, <1>2 DEF SettledFirst, Rooted
<1> QED
  BY <1>1, <1>2, <1>3, <1>4, <1>5 DEF FrontOK, f

LEMMA TakenTyped ==
  ASSUME NEW f, NEW h, FrontTyped(h, f), NEW u \in InQueue(f)
  PROVE  /\ FrontTyped(h, Taken(f, u))
         /\ Taken(f, u).dmap = f.dmap /\ Taken(f, u).via = f.via
         /\ InQueue(Taken(f, u)) = InQueue(f) \ {u}
         /\ SettledIn(Taken(f, u)) = SettledIn(f) \cup {u}
         /\ \A v \in InQueue(f) \ {u} : Taken(f, u).heap[v] = f.heap[v]
<1> DEFINE a == Taken(f, u)
<1>1. /\ f \in Front /\ u \in Node /\ f.dmap[u] # Absent
  BY DEF FrontTyped, InQueue
<1>2. /\ a \in Front /\ a.dmap = f.dmap /\ a.via = f.via
      /\ a.heap = [f.heap EXCEPT ![u] = Absent]
  BY <1>1 DEF Taken, Front
<1> HIDE DEF a
<1>3. a.heap[u] = Absent /\ \A v \in Node \ {u} : a.heap[v] = f.heap[v]
  BY <1>1, <1>2 DEF Front
<1>4. InQueue(a) = InQueue(f) \ {u}
  BY <1>1, <1>3 DEF InQueue
<1>5. SettledIn(a) = SettledIn(f) \cup {u}
  BY <1>1, <1>2, <1>3 DEF SettledIn
<1>6. FrontTyped(h, a)
  BY <1>1, <1>2, <1>3, <1>4 DEF FrontTyped, InQueue
<1> QED
  BY <1>2, <1>3, <1>4, <1>5, <1>6 DEF a, InQueue

LEMMA TakenOK ==
  ASSUME NEW g, NEW h \in [Node -> Nat], NEW s, NEW f, FrontOK(g, h, s, f),
         NEW u \in InQueue(f), \A v \in InQueue(f) : f.heap[u] <= f.heap[v]
  PROVE  FrontOK(g, h, s, Taken(f, u))
<1> DEFINE a == Taken(f, u)
<1>1. FrontTyped(h, f)
  BY DEF FrontOK
<1>2. /\ FrontTyped(h, a) /\ a.dmap = f.dmap /\ a.via = f.via
      /\ InQueue(a) = InQueue(f) \ {u}
      /\ SettledIn(a) = SettledIn(f) \cup {u}
      /\ \A v \in InQueue(f) \ {u} : a.heap[v] = f.heap[v]
  BY <1>1, TakenTyped
<1> HIDE DEF a
<1>3. f.heap[u] = f.dmap[u] + h[u]
  BY <1>1 DEF FrontTyped
<1>4. SettledFirst(h, a)
  BY <1>2, <1>3 DEF FrontOK, SettledFirst
<1>5. Rooted(g, s, a) /\ KnowsRoutes(g, s, a) /\ a.dmap[s] = 0
  BY <1>2 DEF FrontOK, Rooted, KnowsRoutes
<1> QED
  BY <1>2, <1>4, <1>5 DEF FrontOK, a

(***************************************************************************)
(* Expanded is such a turn: a node takes the least length of its edges, if *)
(* that improves its distance, and the node expanded never improves.       *)
(***************************************************************************)
LEMMA LeastLength ==
  ASSUME NEW L \in SUBSET Nat, L # {}
  PROVE  Least(L) \in L /\ \A m \in L : Least(L) <= m
<1>1. \E l \in L : \A m \in L : l <= m
  BY LeastElement
<1> QED
  BY <1>1 DEF Least

LEMMA ExpandedTurns ==
  ASSUME NEW f, NEW h \in [Node -> Nat], \A v \in Node : Heuristic(v) = h[v],
         FrontTyped(h, f), NEW u \in InQueue(f),
         NEW lengths \in [Node -> SUBSET Nat]
  PROVE  Turn(h, f, u, lengths, Expanded(f, u, lengths))
<1> DEFINE dist(v) == f.dmap[u] + Least(lengths[v])
           better == {v \in Node : lengths[v] # {} /\ Improves(f, v, dist(v))}
           a == Expanded(f, u, lengths)
<1>1. /\ f.heap \in [Node -> Nat \cup {Absent}]
      /\ f.dmap \in [Node -> Nat \cup {Absent}]
      /\ f.via \in [Node -> Node \cup {Absent}]
      /\ u \in Node /\ f.dmap[u] \in Nat
  BY DEF FrontTyped, Front, InQueue
<1>2. ASSUME NEW v \in Node, lengths[v] # {}
      PROVE  /\ Least(lengths[v]) \in lengths[v] /\ Least(lengths[v]) \in Nat
             /\ \A m \in lengths[v] : Least(lengths[v]) <= m
             /\ dist(v) \in Nat
  <2>1. lengths[v] \in SUBSET Nat
    OBVIOUS
  <2>2. Least(lengths[v]) \in lengths[v] /\ \A m \in lengths[v] : Least(lengths[v]) <= m
    BY <1>2, <2>1, LeastLength
  <2> QED
    BY <1>1, <2>1, <2>2
<1>3. a = [heap |-> [v \in Node |-> IF v \in better THEN dist(v) + h[v]
                                    ELSE IF v = u THEN Absent ELSE f.heap[v]],
           dmap |-> [v \in Node |-> IF v \in better THEN dist(v) ELSE f.dmap[v]],
           via |-> [v \in Node |-> IF v \in better THEN u ELSE f.via[v]]]
  BY DEF Expanded, Key, Popped
<1> HIDE DEF a
<1>4. ASSUME NEW v \in Node
      PROVE  /\ a.heap[v] = IF v \in better THEN dist(v) + h[v]
                            ELSE IF v = u THEN Absent ELSE f.heap[v]
             /\ a.dmap[v] = IF v \in better THEN dist(v) ELSE f.dmap[v]
             /\ a.via[v] = IF v \in better THEN u ELSE f.via[v]
  BY <1>3
<1>5. ASSUME NEW v \in better
      PROVE  dist(v) \in Nat /\ dist(v) + h[v] \in Nat
  BY <1>2
<1>6. a \in Front
  <2> HIDE DEF better, dist
  <2>1. [v \in Node |-> IF v \in better THEN dist(v) + h[v]
                        ELSE IF v = u THEN Absent ELSE f.heap[v]]
          \in [Node -> Nat \cup {Absent}]
    BY <1>1, <1>5
  <2>2. [v \in Node |-> IF v \in better THEN dist(v) ELSE f.dmap[v]]
          \in [Node -> Nat \cup {Absent}]
    BY <1>1, <1>5
  <2>3. [v \in Node |-> IF v \in better THEN u ELSE f.via[v]]
          \in [Node -> Node \cup {Absent}]
    BY <1>1
  <2> QED
    BY <1>3, <2>1, <2>2, <2>3 DEF Front
<1>7. ASSUME NEW v \in better
      PROVE  Moved(h, f, u, lengths[v], v, a)
  <2>1. v \in Node /\ lengths[v] # {}
    OBVIOUS
  <2>2. f.dmap[v] = Absent \/ f.dmap[v] > f.dmap[u] + Least(lengths[v])
    BY DEF Improves
  <2>3. /\ Least(lengths[v]) \in lengths[v]
        /\ \A m \in lengths[v] : Least(lengths[v]) <= m
    BY <1>2, <2>1
  <2>4. /\ a.heap[v] = (f.dmap[u] + Least(lengths[v])) + h[v]
        /\ a.dmap[v] = f.dmap[u] + Least(lengths[v])
        /\ a.via[v] = u
    BY <1>4, <2>1
  <2> HIDE DEF better
  <2> QED
    BY <2>2, <2>3, <2>4 DEF Moved
<1>8. ASSUME NEW v \in Node \ better
      PROVE  Kept(f, u, lengths[v], v, a)
  <2>1. ASSUME NEW l \in lengths[v]
        PROVE  f.dmap[v] # Absent /\ f.dmap[v] <= f.dmap[u] + l
    <3>1. lengths[v] # {} /\ ~ Improves(f, v, dist(v))
      OBVIOUS
    <3>2. Least(lengths[v]) <= l /\ Least(lengths[v]) \in Nat /\ l \in Nat
      BY <1>2, <3>1
    <3>3. f.dmap[v] # Absent /\ ~ (f.dmap[v] > dist(v))
      BY <3>1 DEF Improves
    <3>4. f.dmap[v] \in Nat
      BY <1>1, <3>3
    <3> QED
      BY <1>1, <3>2, <3>3, <3>4
  <2>2. /\ a.dmap[v] = f.dmap[v] /\ a.via[v] = f.via[v]
        /\ a.heap[v] = IF v = u THEN Absent ELSE f.heap[v]
    BY <1>4
  <2> QED
    BY <2>1, <2>2 DEF Kept
<1>9. u \notin better
  <2> SUFFICES ASSUME u \in better PROVE FALSE
    OBVIOUS
  <2>1. lengths[u] # {} /\ Improves(f, u, dist(u))
    OBVIOUS
  <2>2. Least(lengths[u]) \in Nat
    BY <1>1, <1>2, <2>1
  <2> HIDE DEF better
  <2> QED
    BY <1>1, <2>1, <2>2 DEF Improves, Absent
<1> QED
  <2> HIDE DEF better
  <2> QED
    BY <1>1, <1>6, <1>7, <1>8, <1>9 DEF Turn, a

LEMMA TurnTyped ==
  ASSUME NEW f, NEW h \in [Node -> Nat], FrontTyped(h, f), NEW u \in InQueue(f),
         NEW lengths \in [Node -> SUBSET Nat], NEW a, Turn(h, f, u, lengths, a)
  PROVE  FrontTyped(h, a)
<1>1. a \in Front /\ f \in Front /\ u \in Node /\ f.dmap[u] \in Nat
  BY DEF Turn, FrontTyped, Front, InQueue
<1>2. ASSUME NEW v \in Node
      PROVE  /\ a.dmap[v] = Absent <=> a.via[v] = Absent
             /\ a.heap[v] # Absent => a.dmap[v] # Absent /\ a.heap[v] = a.dmap[v] + h[v]
  <2>1. CASE Moved(h, f, u, lengths[v], v, a)
    <3>1. PICK l \in lengths[v] :
            /\ a.dmap[v] = f.dmap[u] + l
            /\ a.heap[v] = (f.dmap[u] + l) + h[v]
            /\ a.via[v] = u
      BY <2>1 DEF Moved
    <3>2. l \in Nat
      OBVIOUS
    <3> QED
      BY <1>1, <3>1, <3>2 DEF Absent, Node
  <2>2. CASE Kept(f, u, lengths[v], v, a)
    BY <2>2 DEF Kept, FrontTyped, InQueue
  <2> QED
    BY <2>1, <2>2 DEF Turn
<1> QED
  BY <1>1, <1>2 DEF FrontTyped, InQueue

(***************************************************************************)
(* A turn with the top of the heap keeps the front right, where lengths    *)
(* are those of edges in it and the heuristic is consistent; the node      *)
(* expanded is settled, what is settled keeps its distance, and only       *)
(* distances of queued nodes drop.                                         *)
(***************************************************************************)
EdgeLengths(g, u, v) ==
  {g[e].length : e \in {i \in OutEdges(g, u) : g[i].target = v}}

LEMMA TurnOK ==
  ASSUME NEW g \in Graph, NEW h \in [Node -> Nat], Consistent(g, h),
         NEW s \in Node, NEW f, FrontOK(g, h, s, f), NEW u \in InQueue(f),
         \A v \in InQueue(f) : f.heap[u] <= f.heap[v],
         NEW lengths \in [Node -> SUBSET Nat],
         \A v \in Node : lengths[v] \subseteq EdgeLengths(g, u, v),
         NEW a, Turn(h, f, u, lengths, a)
  PROVE  /\ FrontOK(g, h, s, a)
         /\ SettledIn(a) = SettledIn(f) \cup {u}
         /\ \A v \in SettledIn(a) : a.dmap[v] = f.dmap[v]
         /\ \A v \in Node : f.dmap[v] # Absent =>
              a.dmap[v] # Absent /\ a.dmap[v] <= f.dmap[v]
         /\ \A v \in Node : \A l \in lengths[v] :
              a.dmap[v] # Absent /\ a.dmap[v] <= f.dmap[u] + l
         /\ Lowered(f, a) \subseteq InQueue(f)
<1>1. /\ FrontTyped(h, f) /\ f \in Front /\ a \in Front /\ u \in Node
      /\ f.dmap[u] \in Nat /\ f.heap[u] = f.dmap[u] + h[u] /\ f.heap[u] \in Nat
      /\ f.dmap \in [Node -> Nat \cup {Absent}]
      /\ a.dmap \in [Node -> Nat \cup {Absent}]
      /\ f.heap \in [Node -> Nat \cup {Absent}]
  BY DEF FrontOK, Turn, FrontTyped, Front, InQueue
<1>2. FrontTyped(h, a)
  BY <1>1, TurnTyped
<1>3. ASSUME NEW v \in Node, Moved(h, f, u, lengths[v], v, a)
      PROVE  /\ v # u /\ v \notin SettledIn(f)
             /\ a.dmap[v] \in Nat /\ a.heap[v] = a.dmap[v] + h[v]
             /\ a.via[v] = u
             /\ f.heap[u] <= a.heap[v]
             /\ f.dmap[v] = Absent \/ f.dmap[v] > a.dmap[v]
             /\ f.dmap[v] # Absent => v \in InQueue(f)
             /\ \A m \in lengths[v] : a.dmap[v] <= f.dmap[u] + m
             /\ \E i \in OutEdges(g, u) :
                  g[i].target = v /\ a.dmap[v] = f.dmap[u] + g[i].length
  <2>1. PICK l \in lengths[v] :
            /\ \A m \in lengths[v] : l <= m
            /\ f.dmap[v] = Absent \/ f.dmap[v] > f.dmap[u] + l
            /\ a.dmap[v] = f.dmap[u] + l
            /\ a.heap[v] = (f.dmap[u] + l) + h[v]
            /\ a.via[v] = u
    BY <1>3 DEF Moved
  <2>2. l \in Nat /\ h[v] \in Nat /\ h[u] \in Nat /\ \A m \in lengths[v] : m \in Nat
    BY <1>1
  <2>3. PICK i \in OutEdges(g, u) : g[i].target = v /\ g[i].length = l
    BY DEF EdgeLengths
  <2>4. i \in EdgeIndex /\ g[i].source = u
    BY <2>3 DEF OutEdges
  <2>5. h[u] <= l + h[v]
    BY <2>3, <2>4 DEF Consistent
  <2>6. a.dmap[v] \in Nat /\ f.heap[u] <= a.heap[v]
    BY <1>1, <2>1, <2>2, <2>5
  <2>7. f.dmap[v] # Absent => f.dmap[v] \in Nat /\ f.dmap[v] + h[v] > f.heap[u]
    BY <1>1, <2>1, <2>2, <2>5
  <2>8. v # u
    BY <1>1, <2>7, <2>1, <2>2 DEF Absent
  <2>9. v \notin SettledIn(f)
    <3>1. v \in SettledIn(f) => f.dmap[v] + h[v] <= f.heap[u]
      BY DEF FrontOK, SettledFirst
    <3> QED
      BY <1>1, <2>2, <2>7, <3>1 DEF SettledIn
  <2>10. f.dmap[v] # Absent => v \in InQueue(f)
    BY <2>9 DEF SettledIn, InQueue
  <2>11. \A m \in lengths[v] : a.dmap[v] <= f.dmap[u] + m
    BY <1>1, <2>1, <2>2
  <2> QED
    BY <2>1, <2>3, <2>6, <2>8, <2>9, <2>10, <2>11
<1>4. ASSUME NEW v \in Node
      PROVE  Moved(h, f, u, lengths[v], v, a) \/ Kept(f, u, lengths[v], v, a)
  BY DEF Turn
<1>5. a.heap[u] = Absent /\ a.dmap[u] = f.dmap[u] /\ a.via[u] = f.via[u]
  BY DEF Turn, Kept
<1>6. SettledIn(a) = SettledIn(f) \cup {u}
  <2>1. ASSUME NEW v \in Node, v # u
        PROVE  v \in SettledIn(a) <=> v \in SettledIn(f)
    <3>1. CASE Moved(h, f, u, lengths[v], v, a)
      <4>1. a.heap[v] # Absent
        BY <1>3, <3>1 DEF Absent
      <4> QED
        BY <1>3, <3>1, <4>1 DEF SettledIn
    <3>2. CASE Kept(f, u, lengths[v], v, a)
      BY <2>1, <3>2 DEF Kept, SettledIn
    <3> QED
      BY <1>4, <3>1, <3>2
  <2>2. u \in SettledIn(a)
    BY <1>1, <1>5 DEF SettledIn, Absent
  <2> QED
    BY <1>1, <2>1, <2>2 DEF SettledIn
<1>7. ASSUME NEW v \in SettledIn(a)
      PROVE  a.dmap[v] = f.dmap[v] /\ a.via[v] = f.via[v] /\ v \in Node
  <2>1. v \in Node /\ ~ Moved(h, f, u, lengths[v], v, a)
    BY <1>1, <1>3, <1>6 DEF SettledIn
  <2> QED
    BY <1>4, <2>1 DEF Kept
<1>8. ASSUME NEW v \in Node, f.dmap[v] # Absent
      PROVE  a.dmap[v] # Absent /\ a.dmap[v] <= f.dmap[v]
  <2>1. f.dmap[v] \in Nat
    BY <1>1, <1>8
  <2>2. CASE Moved(h, f, u, lengths[v], v, a)
    BY <1>3, <1>8, <2>1, <2>2 DEF Absent
  <2>3. CASE Kept(f, u, lengths[v], v, a)
    BY <1>8, <2>1, <2>3 DEF Kept
  <2> QED
    BY <1>4, <2>2, <2>3
<1>9. ASSUME NEW v \in Node, NEW l \in lengths[v]
      PROVE  a.dmap[v] # Absent /\ a.dmap[v] <= f.dmap[u] + l
  <2>1. CASE Moved(h, f, u, lengths[v], v, a)
    BY <1>3, <2>1 DEF Absent
  <2>2. CASE Kept(f, u, lengths[v], v, a)
    BY <2>2 DEF Kept
  <2> QED
    BY <1>4, <2>1, <2>2
<1>10. Lowered(f, a) \subseteq InQueue(f)
  <2> SUFFICES ASSUME NEW v \in Node, f.dmap[v] # Absent, a.dmap[v] < f.dmap[v]
               PROVE  v \in InQueue(f)
    BY DEF Lowered
  <2>1. ~ Kept(f, u, lengths[v], v, a)
    BY <1>1 DEF Kept
  <2> QED
    BY <1>3, <1>4, <2>1
<1>11. a.dmap[s] = 0
  <2>1. f.dmap[s] = 0
    BY DEF FrontOK
  <2>2. a.dmap[s] \in Nat /\ a.dmap[s] <= 0
    BY <1>1, <1>8, <2>1 DEF Absent
  <2> QED
    BY <2>2
<1>12. SettledFirst(h, a)
  <2> SUFFICES ASSUME NEW v \in SettledIn(a), NEW w \in InQueue(a)
               PROVE  a.dmap[v] + h[v] <= a.heap[w]
    BY DEF SettledFirst
  <2>1. w \in Node /\ a.heap[w] # Absent /\ w # u
    BY <1>5 DEF InQueue
  <2>2. v \in Node /\ a.dmap[v] \in Nat /\ h[v] \in Nat /\ a.heap[w] \in Nat
    BY <1>1, <2>1 DEF SettledIn, Front
  <2>3. a.dmap[v] + h[v] <= f.heap[u]
    BY <1>1, <1>6, <1>7 DEF FrontOK, SettledFirst
  <2>4. f.heap[u] <= a.heap[w]
    <3>1. CASE Moved(h, f, u, lengths[w], w, a)
      BY <1>3, <2>1, <3>1
    <3>2. CASE Kept(f, u, lengths[w], w, a)
      <4>1. a.heap[w] = f.heap[w] /\ w \in InQueue(f)
        BY <2>1, <3>2 DEF Kept, InQueue
      <4> QED
        BY <4>1
    <3> QED
      BY <1>4, <2>1, <3>1, <3>2
  <2> QED
    BY <1>1, <2>2, <2>3, <2>4
<1>13. Rooted(g, s, a)
  <2> SUFFICES ASSUME NEW v \in Node \ {s}, a.dmap[v] # Absent
               PROVE  /\ a.via[v] \in SettledIn(a)
                      /\ EdgesOfCost(g, a.via[v], v, a.dmap[v] - a.dmap[a.via[v]]) # {}
    BY DEF Rooted
  <2>1. CASE Moved(h, f, u, lengths[v], v, a)
    <3>1. a.via[v] = u /\ u \in SettledIn(a) /\ a.dmap[u] = f.dmap[u]
      BY <1>3, <1>5, <1>6, <2>1
    <3>2. PICK i \in OutEdges(g, u) :
            g[i].target = v /\ a.dmap[v] = f.dmap[u] + g[i].length
      BY <1>3, <2>1
    <3>3. g[i].length \in Nat
      BY EdgeTypes DEF OutEdges
    <3>4. a.dmap[v] - a.dmap[u] = g[i].length
      BY <1>1, <3>1, <3>2, <3>3
    <3>5. i \in EdgesOfCost(g, u, v, a.dmap[v] - a.dmap[u])
      BY <3>2, <3>4 DEF EdgesOfCost
    <3> QED
      BY <3>1, <3>5
  <2>2. CASE Kept(f, u, lengths[v], v, a)
    <3>1. a.dmap[v] = f.dmap[v] /\ a.via[v] = f.via[v]
      BY <2>2 DEF Kept
    <3>2. /\ f.via[v] \in SettledIn(f)
          /\ EdgesOfCost(g, f.via[v], v, f.dmap[v] - f.dmap[f.via[v]]) # {}
      BY <3>1 DEF FrontOK, Rooted
    <3>3. f.via[v] \in SettledIn(a) /\ a.dmap[f.via[v]] = f.dmap[f.via[v]]
      BY <1>6, <1>7, <3>2
    <3> QED
      BY <3>1, <3>2, <3>3
  <2> QED
    BY <1>4, <2>1, <2>2
<1>14. KnowsRoutes(g, s, a)
  <2> SUFFICES ASSUME NEW v \in Node, a.dmap[v] # Absent
               PROVE  HasRoute(g, s, v, a.dmap[v])
    BY DEF KnowsRoutes
  <2>1. CASE Moved(h, f, u, lengths[v], v, a)
    <3>1. PICK i \in OutEdges(g, u) :
            g[i].target = v /\ a.dmap[v] = f.dmap[u] + g[i].length
      BY <1>3, <2>1
    <3>2. HasRoute(g, s, u, f.dmap[u])
      BY <1>1 DEF FrontOK, KnowsRoutes, Absent
    <3> QED
      BY <3>1, <3>2, ExtendedRoute
  <2>2. CASE Kept(f, u, lengths[v], v, a)
    BY <2>2 DEF Kept, FrontOK, KnowsRoutes
  <2> QED
    BY <1>4, <2>1, <2>2
<1>15. FrontOK(g, h, s, a)
  BY <1>2, <1>11, <1>12, <1>13, <1>14 DEF FrontOK
<1> QED
  BY <1>6, <1>7, <1>8, <1>9, <1>10, <1>15

-----------------------------------------------------------------------------
(***************************************************************************)
(* The front from the target grows in the reversed graph, whose routes are *)
(* those of the graph read backwards.                                      *)
(***************************************************************************)
Reversed(g) ==
  [e \in EdgeIndex |-> [source |-> g[e].target, target |-> g[e].source,
                        length |-> g[e].length]]

LEMMA ReversedGraph ==
  ASSUME NEW g \in Graph
  PROVE  /\ Reversed(g) \in Graph
         /\ \A e \in EdgeIndex : /\ Reversed(g)[e].source = g[e].target
                                 /\ Reversed(g)[e].target = g[e].source
                                 /\ Reversed(g)[e].length = g[e].length
         /\ \A u, v : EdgeLengths(Reversed(g), u, v) = EdgeLengths(g, v, u)
         /\ \A u, v, c : EdgesOfCost(Reversed(g), u, v, c) = EdgesOfCost(g, v, u, c)
<1>1. \A e \in EdgeIndex : /\ Reversed(g)[e].source = g[e].target
                           /\ Reversed(g)[e].target = g[e].source
                           /\ Reversed(g)[e].length = g[e].length
  BY DEF Reversed
<1>2. Reversed(g) \in Graph
  <2>1. \A e \in EdgeIndex : g[e] \in Edge
    BY DEF Graph
  <2>2. \A e \in EdgeIndex : /\ g[e].source \in Node /\ g[e].target \in Node
                             /\ g[e].length \in Lengths
    BY <2>1 DEF Edge
  <2> QED
    BY <2>2 DEF Reversed, Graph, Edge
<1>3. ASSUME NEW u, NEW v
      PROVE  {i \in OutEdges(Reversed(g), u) : Reversed(g)[i].target = v}
               = {i \in OutEdges(g, v) : g[i].target = u}
  BY <1>1 DEF OutEdges
<1>4. ASSUME NEW u, NEW v
      PROVE  EdgeLengths(Reversed(g), u, v) = EdgeLengths(g, v, u)
  <2>1. {i \in OutEdges(g, v) : g[i].target = u} \subseteq EdgeIndex
    BY DEF OutEdges
  <2> QED
    BY <1>1, <1>3, <2>1 DEF EdgeLengths
<1>5. ASSUME NEW u, NEW v, NEW c
      PROVE  EdgesOfCost(Reversed(g), u, v, c) = EdgesOfCost(g, v, u, c)
  BY <1>1 DEF EdgesOfCost, OutEdges
<1> QED
  BY <1>1, <1>2, <1>4, <1>5

LEMMA ReversedTwice ==
  ASSUME NEW g \in Graph
  PROVE  Reversed(Reversed(g)) = g
<1>1. /\ Reversed(g) \in Graph
      /\ \A e \in EdgeIndex : /\ Reversed(g)[e].source = g[e].target
                              /\ Reversed(g)[e].target = g[e].source
                              /\ Reversed(g)[e].length = g[e].length
  BY ReversedGraph
<1>2. \A e \in EdgeIndex :
        g[e] = [source |-> g[e].source, target |-> g[e].target, length |-> g[e].length]
  <2>1. \A e \in EdgeIndex : g[e] \in [source : Node, target : Node, length : Lengths]
    BY DEF Graph, Edge
  <2> QED
    BY <2>1
<1>3. g = [e \in EdgeIndex |-> g[e]]
  BY DEF Graph
<1>4. Reversed(Reversed(g)) = [e \in EdgeIndex |-> [source |-> g[e].source, target |-> g[e].target, length |-> g[e].length]]
  BY <1>1 DEF Reversed
<1> QED
  BY <1>2, <1>3, <1>4

LEMMA RouteBack ==
  ASSUME NEW g \in Graph, NEW s \in Node, NEW v, NEW d, HasRoute(g, s, v, d)
  PROVE  HasRoute(Reversed(g), v, s, d)
<1> DEFINE r == Reversed(g)
           Fails(k) == \E w, c : HasRouteOf(g, s, k, w, c) /\ ~ HasRoute(r, w, s, c)
           T == {k \in Nat : Fails(k)}
<1>0. /\ r \in Graph
      /\ \A e \in EdgeIndex : r[e].source = g[e].target /\ r[e].target = g[e].source
                              /\ r[e].length = g[e].length
  BY ReversedGraph
<1> HIDE DEF r
<1>1. ASSUME T # {} PROVE FALSE
  <2>1. PICK k \in T : \A m \in T : k <= m
    <3>1. T \in SUBSET Nat
      OBVIOUS
    <3> HIDE DEF T
    <3> QED
      BY <1>1, <3>1, LeastElement
  <2>2. k \in Nat /\ Fails(k)
    OBVIOUS
  <2>3. PICK w, c : HasRouteOf(g, s, k, w, c) /\ ~ HasRoute(r, w, s, c)
    BY <2>2
  <2>4. k # 0
    <3>1. k = 0 => w = s /\ c = 0
      BY <2>2, <2>3, RouteOfType
    <3> QED
      BY <2>3, <3>1, EmptyRoute
  <2>5. PICK u \in Node, m \in Nat : \E i \in OutEdges(g, u) :
          /\ HasRouteOf(g, s, k - 1, u, m)
          /\ g[i].target = w
          /\ c = m + g[i].length
    BY <2>2, <2>3, <2>4, LastEdge
  <2>6. PICK i \in OutEdges(g, u) : /\ HasRouteOf(g, s, k - 1, u, m)
                                    /\ g[i].target = w
                                    /\ c = m + g[i].length
    BY <2>5
  <2>7. k - 1 \in Nat /\ ~ (k <= k - 1)
    BY <2>2, <2>4
  <2>8. k - 1 \notin T
    BY <2>1, <2>7
  <2>9. HasRoute(r, u, s, m)
    BY <2>6, <2>7, <2>8
  <2>10. i \in OutEdges(r, w) /\ r[i].target = u /\ r[i].length = g[i].length
         /\ g[i].length \in Nat /\ w \in Node
    BY <1>0, <2>6, EdgeTypes DEF OutEdges
  <2>11. HasRoute(r, w, s, r[i].length + m)
    BY <1>0, <2>9, <2>10, PrependedRoute
  <2> QED
    BY <2>3, <2>6, <2>10, <2>11
<1>2. PICK k \in Nat : HasRouteOf(g, s, k, v, d)
  BY DEF HasRoute, HasRouteOf
<1> QED
  BY <1>1, <1>2 DEF r

LEMMA DistanceBack ==
  ASSUME NEW g \in Graph, NEW v \in Node, NEW t \in Node
  PROVE  DistanceFrom(g, v)[t] = DistanceFrom(Reversed(g), t)[v]
<1> DEFINE r == Reversed(g)
           D == DistanceFrom(g, v)[t]
           E == DistanceFrom(r, t)[v]
<1>1. r \in Graph /\ Reversed(r) = g
  BY ReversedGraph, ReversedTwice
<1>2. \A l : HasRoute(g, v, t, l) <=> HasRoute(r, t, v, l)
  BY <1>1, RouteBack
<1> HIDE DEF r
<1>3. /\ D \in Nat \cup {Unreachable}
      /\ D # Unreachable => HasRoute(g, v, t, D)
      /\ \A l : HasRoute(g, v, t, l) => l \in Nat /\ D # Unreachable /\ D <= l
  BY DistanceIsLeast
<1>4. /\ E \in Nat \cup {Unreachable}
      /\ E # Unreachable => HasRoute(r, t, v, E)
      /\ \A l : HasRoute(r, t, v, l) => l \in Nat /\ E # Unreachable /\ E <= l
  BY <1>1, DistanceIsLeast
<1> HIDE DEF D, E
<1>5. D # Unreachable <=> E # Unreachable
  BY <1>2, <1>3, <1>4
<1>6. D # Unreachable => D <= E /\ E <= D
  BY <1>2, <1>3, <1>4, <1>5
<1>7. D = E
  BY <1>3, <1>4, <1>5, <1>6
<1> QED
  BY <1>7 DEF D, E, r

-----------------------------------------------------------------------------
(***************************************************************************)
(* A node settled has relaxed its edges, as far as they do not lead beyond *)
(* the bound b.                                                            *)
(***************************************************************************)
RelaxedWithin(g, f, b) ==
  \A u \in SettledIn(f) : \A i \in OutEdges(g, u) :
    f.dmap[u] + g[i].length <= b =>
      /\ f.dmap[g[i].target] # Absent
      /\ f.dmap[g[i].target] <= f.dmap[u] + g[i].length

Relaxed(g, f) == \A b \in Nat : RelaxedWithin(g, f, b)

LEMMA TurnRelaxes ==
  ASSUME NEW g \in Graph, NEW h \in [Node -> Nat], Consistent(g, h),
         NEW s \in Node, NEW f, FrontOK(g, h, s, f), NEW u \in InQueue(f),
         \A v \in InQueue(f) : f.heap[u] <= f.heap[v],
         NEW lengths \in [Node -> SUBSET Nat],
         \A v \in Node : lengths[v] \subseteq EdgeLengths(g, u, v),
         NEW a, Turn(h, f, u, lengths, a), NEW b \in Nat,
         \A v \in Node : \A l \in EdgeLengths(g, u, v) :
           f.dmap[u] + l <= b => \E m \in lengths[v] : m <= l,
         RelaxedWithin(g, f, b)
  PROVE  RelaxedWithin(g, a, b)
<1>1. /\ SettledIn(a) = SettledIn(f) \cup {u}
      /\ \A v \in SettledIn(a) : a.dmap[v] = f.dmap[v]
      /\ \A v \in Node : f.dmap[v] # Absent => a.dmap[v] # Absent /\ a.dmap[v] <= f.dmap[v]
      /\ \A v \in Node : \A l \in lengths[v] :
           a.dmap[v] # Absent /\ a.dmap[v] <= f.dmap[u] + l
      /\ FrontOK(g, h, s, a)
  BY TurnOK
<1>2. /\ f.dmap \in [Node -> Nat \cup {Absent}]
      /\ a.dmap \in [Node -> Nat \cup {Absent}]
      /\ u \in Node /\ f.dmap[u] \in Nat
  BY <1>1 DEF FrontOK, FrontTyped, Front, InQueue
<1> SUFFICES ASSUME NEW w \in SettledIn(a), NEW i \in OutEdges(g, w),
                    a.dmap[w] + g[i].length <= b
             PROVE  /\ a.dmap[g[i].target] # Absent
                    /\ a.dmap[g[i].target] <= a.dmap[w] + g[i].length
  BY DEF RelaxedWithin
<1> DEFINE t == g[i].target
           n == g[i].length
<1>3. t \in Node /\ n \in Nat /\ w \in Node /\ a.dmap[w] = f.dmap[w] /\ a.dmap[w] \in Nat
  BY <1>1, <1>2, EdgeTypes DEF OutEdges, SettledIn
<1>4. CASE w = u
  <2>1. n \in EdgeLengths(g, u, t)
    BY <1>4 DEF EdgeLengths
  <2>2. PICK m \in lengths[t] : m <= n
    BY <1>3, <1>4, <2>1
  <2>3. a.dmap[t] # Absent /\ a.dmap[t] <= f.dmap[u] + m
    BY <1>1, <1>3, <2>2
  <2>4. m \in Nat /\ a.dmap[t] \in Nat
    BY <1>2, <1>3, <2>2, <2>3
  <2> QED
    BY <1>2, <1>3, <1>4, <2>2, <2>3, <2>4
<1>5. CASE w # u
  <2>1. w \in SettledIn(f)
    BY <1>1, <1>5
  <2>2. f.dmap[t] # Absent /\ f.dmap[t] <= f.dmap[w] + n
    BY <1>3, <2>1 DEF RelaxedWithin
  <2>3. a.dmap[t] # Absent /\ a.dmap[t] <= f.dmap[t]
    BY <1>1, <1>3, <2>2
  <2>4. f.dmap[t] \in Nat /\ a.dmap[t] \in Nat
    BY <1>2, <1>3, <2>2, <2>3
  <2> QED
    BY <1>3, <2>2, <2>3, <2>4
<1> QED
  BY <1>4, <1>5

(***************************************************************************)
(* Where the edges of every node that may lie on a way of length c to t    *)
(* are relaxed, t is known at no more than c.                              *)
(***************************************************************************)
RelaxedTowards(g, h, d, t, c) ==
  \A u \in Node : \A i \in OutEdges(g, u) :
    /\ d[u] # Absent
    /\ d[u] + h[u] <= c + h[t]
    /\ d[u] + g[i].length <= c + h[t]
    => /\ d[g[i].target] # Absent
       /\ d[g[i].target] <= d[u] + g[i].length

LEMMA HeuristicAlong ==
  ASSUME NEW g \in Graph, NEW h \in [Node -> Nat], Consistent(g, h),
         NEW s, NEW k \in Nat, NEW visit, NEW cost, IsRoute(g, s, k, visit, cost),
         NEW j \in 0 .. k
  PROVE  cost[j] + h[visit[j]] <= cost[k] + h[visit[k]]
<1>0. cost \in [0 .. k -> Nat] /\ visit \in [0 .. k -> Node]
  BY DEF IsRoute
<1> DEFINE key(m) == cost[m] + h[visit[m]]
           T == {d \in 0 .. k : key(k - d) > key(k)}
<1>1. \A m \in 0 .. k : key(m) \in Nat
  BY <1>0
<1> SUFFICES ASSUME key(j) > key(k) PROVE FALSE
  BY <1>1
<1>2. k - j \in T
  <2>1. k - j \in 0 .. k /\ k - (k - j) = j
    OBVIOUS
  <2> QED
    BY <2>1
<1>3. PICK d \in T : \A e \in T : d <= e
  <2>1. T \in SUBSET Nat
    OBVIOUS
  <2> HIDE DEF T
  <2> QED
    BY <1>2, <2>1, LeastElement
<1>4. d \in 0 .. k /\ key(k - d) > key(k)
  OBVIOUS
<1>5. d # 0
  <2>1. k - 0 = k /\ ~ (key(k) > key(k))
    BY <1>1
  <2> HIDE DEF key
  <2> QED
    BY <1>4, <2>1
<1>6. d - 1 \in 0 .. k /\ ~ (d <= d - 1)
  BY <1>4, <1>5
<1>7. d - 1 \notin T
  BY <1>3, <1>6
<1>8. ~ (key(k - (d - 1)) > key(k))
  BY <1>6, <1>7
<1> DEFINE m == (k - d) + 1
<1>9. m \in 1 .. k /\ m - 1 = k - d /\ k - (d - 1) = m /\ k - d \in 0 .. k
  BY <1>4, <1>5
<1>10. PICK i \in OutEdges(g, visit[m - 1]) :
         g[i].target = visit[m] /\ cost[m] = cost[m - 1] + g[i].length
  <2> HIDE DEF m, T
  <2> QED
    BY <1>9 DEF IsRoute
<1>11. h[visit[m - 1]] <= g[i].length + h[visit[m]] /\ g[i].length \in Nat
  <2>1. i \in EdgeIndex /\ g[i].source = visit[m - 1]
    BY DEF OutEdges
  <2> QED
    BY <1>10, <2>1, EdgeTypes DEF Consistent
<1> HIDE DEF T
<1>12. key(m - 1) <= key(m)
  <2> HIDE DEF m
  <2>1. cost[m - 1] \in Nat /\ h[visit[m - 1]] \in Nat /\ h[visit[m]] \in Nat
    BY <1>0, <1>9
  <2> QED
    BY <1>10, <1>11, <2>1
<1>13. key(m) \in Nat /\ key(m - 1) \in Nat /\ key(k) \in Nat
  BY <1>1, <1>9
<1>14. key(m - 1) > key(k) /\ ~ (key(m) > key(k))
  BY <1>4, <1>8, <1>9
<1> HIDE DEF key, m
<1> QED
  BY <1>12, <1>13, <1>14

LEMMA Covered ==
  ASSUME NEW g \in Graph, NEW h \in [Node -> Nat], Consistent(g, h),
         NEW s \in Node, NEW d \in [Node -> Nat \cup {Absent}], d[s] = 0,
         NEW t \in Node, NEW c, HasRoute(g, s, t, c),
         RelaxedTowards(g, h, d, t, c)
  PROVE  c \in Nat /\ d[t] # Absent /\ d[t] <= c
<1>1. PICK k \in Nat : \E visit \in [0 .. k -> Node], cost \in [0 .. k -> Nat] :
        IsRoute(g, s, k, visit, cost) /\ visit[k] = t /\ cost[k] = c
  BY DEF HasRoute
<1>2. PICK visit \in [0 .. k -> Node], cost \in [0 .. k -> Nat] :
        IsRoute(g, s, k, visit, cost) /\ visit[k] = t /\ cost[k] = c
  BY <1>1
<1> DEFINE P(j) == d[visit[j]] # Absent /\ d[visit[j]] <= cost[j]
           T == {j \in 0 .. k : ~ P(j)}
<1>3. c \in Nat
  BY <1>2
<1>4. ASSUME T # {} PROVE FALSE
  <2>1. PICK j \in T : \A m \in T : j <= m
    <3>1. T \in SUBSET Nat
      OBVIOUS
    <3> HIDE DEF T
    <3> QED
      BY <1>4, <3>1, LeastElement
  <2>2. j \in 0 .. k /\ ~ P(j)
    OBVIOUS
  <2>3. j # 0
    <3>1. visit[0] = s /\ cost[0] = 0
      BY <1>2 DEF IsRoute
    <3> QED
      BY <2>2, <3>1 DEF Absent
  <2>4. j \in 1 .. k /\ j - 1 \in 0 .. k /\ ~ (j <= j - 1)
    BY <2>2, <2>3
  <2>5. j - 1 \notin T
    BY <2>1, <2>4
  <2>6. P(j - 1)
    BY <2>4, <2>5
  <2>7. PICK i \in OutEdges(g, visit[j - 1]) :
          g[i].target = visit[j] /\ cost[j] = cost[j - 1] + g[i].length
    <3> HIDE DEF T
    <3> QED
      BY <1>2, <2>4 DEF IsRoute
  <2> DEFINE w == visit[j - 1]
             n == g[i].length
  <2>8. w \in Node /\ visit[j] \in Node /\ n \in Nat /\ cost[j] \in Nat
        /\ cost[j - 1] \in Nat /\ h[w] \in Nat /\ h[visit[j]] \in Nat
        /\ d[w] \in Nat /\ d[w] <= cost[j - 1] /\ h[t] \in Nat
    <3>1. n \in Nat
      BY EdgeTypes DEF OutEdges
    <3> HIDE DEF T
    <3> QED
      BY <2>4, <2>6, <3>1
  <2>9. /\ cost[j - 1] + h[w] <= c + h[t] /\ cost[j] + h[visit[j]] <= c + h[t]
        /\ cost[j] = cost[j - 1] + n
    BY <1>2, <2>2, <2>4, <2>7, HeuristicAlong
  <2> HIDE DEF T, P
  <2>10. d[w] + h[w] <= c + h[t] /\ d[w] + n <= c + h[t] /\ d[w] + n <= cost[j]
    <3>1. c + h[t] \in Nat
      BY <1>3, <2>8
    <3>2. /\ d[w] \in Nat /\ h[w] \in Nat /\ n \in Nat /\ cost[j - 1] \in Nat
          /\ h[visit[j]] \in Nat /\ d[w] <= cost[j - 1]
          /\ cost[j - 1] + h[w] <= c + h[t] /\ (cost[j - 1] + n) + h[visit[j]] <= c + h[t]
      BY <2>8, <2>9
    <3> DEFINE x == d[w]
               y == cost[j - 1]
               hx == h[w]
               hz == h[visit[j]]
               most == c + h[t]
    <3>3. /\ x \in Nat /\ y \in Nat /\ hx \in Nat /\ hz \in Nat /\ n \in Nat /\ most \in Nat
          /\ x <= y /\ y + hx <= most /\ (y + n) + hz <= most /\ cost[j] = y + n
      BY <2>9, <3>1, <3>2
    <3> HIDE DEF n, x, y, hx, hz, most
    <3>4. x + hx <= most /\ x + n <= most /\ x + n <= y + n
      BY <3>3
    <3> QED
      BY <3>3, <3>4 DEF x, hx, most
  <2>11. d[visit[j]] # Absent /\ d[visit[j]] <= d[w] + n
    <3>1. i \in OutEdges(g, w) /\ g[i].target = visit[j] /\ n = g[i].length
      BY <2>7
    <3>2. d[w] # Absent
      BY <2>8 DEF Absent
    <3> HIDE DEF w
    <3> QED
      BY <2>8, <2>10, <3>1, <3>2 DEF RelaxedTowards
  <2>12. d[visit[j]] \in Nat
    BY <2>8, <2>11
  <2> QED
    <3> HIDE DEF w, n
    <3>1. d[visit[j]] <= cost[j]
      <4>1. d[w] + n \in Nat /\ cost[j] \in Nat
        BY <2>8
      <4> QED
        BY <2>10, <2>11, <2>12, <4>1
    <3> QED
      BY <2>2, <2>11, <3>1 DEF P
<1>5. P(k)
  BY <1>4
<1> QED
  BY <1>2, <1>3, <1>5

(***************************************************************************)
(* A search that took its nodes up to a distance b knows the distances up  *)
(* to b; what else it knows is not below the distance.                     *)
(***************************************************************************)
Zero == [v \in Node |-> 0]

LEMMA NoHeuristic ==
  ASSUME NEW g \in Graph
  PROVE  Zero \in [Node -> Nat] /\ Consistent(g, Zero)
         /\ \A v \in Node : Zero[v] = 0
<1>1. \A v \in Node : Zero[v] = 0
  BY DEF Zero
<1>2. \A e \in EdgeIndex : g[e].source \in Node /\ g[e].target \in Node /\ g[e].length \in Nat
  BY EdgeTypes
<1> QED
  BY <1>1, <1>2 DEF Consistent, Zero

LEMMA ExactWithin ==
  ASSUME NEW g \in Graph, NEW s \in Node, NEW f, FrontOK(g, Zero, s, f),
         NEW b \in Nat, RelaxedWithin(g, f, b),
         \A u \in InQueue(f) : f.heap[u] > b,
         NEW v \in Node
  PROVE  LET D == DistanceFrom(g, s)[v] IN
         /\ D # Unreachable /\ D <= b => v \in SettledIn(f) /\ f.dmap[v] = D
         /\ f.dmap[v] # Absent => f.dmap[v] \in Nat /\ D # Unreachable /\ D <= f.dmap[v]
         /\ D \in Nat \cup {Unreachable}
<1> DEFINE D == DistanceFrom(g, s)[v]
<1>0. Zero \in [Node -> Nat] /\ Consistent(g, Zero) /\ \A u \in Node : Zero[u] = 0
  BY NoHeuristic
<1>1. /\ D \in Nat \cup {Unreachable}
      /\ D # Unreachable => HasRoute(g, s, v, D)
      /\ \A l : HasRoute(g, s, v, l) => l \in Nat /\ D # Unreachable /\ D <= l
  BY DistanceIsLeast
<1> HIDE DEF D
<1>2. f.dmap \in [Node -> Nat \cup {Absent}] /\ f.dmap[s] = 0
  BY DEF FrontOK, FrontTyped, Front
<1>3. f.dmap[v] # Absent => f.dmap[v] \in Nat /\ D # Unreachable /\ D <= f.dmap[v]
  BY <1>1 DEF FrontOK, KnowsRoutes
<1>4. ASSUME NEW u \in Node, f.dmap[u] # Absent, f.dmap[u] <= b
      PROVE  u \in SettledIn(f)
  <2>1. f.dmap[u] \in Nat
    BY <1>2, <1>4
  <2>2. u \in InQueue(f) => f.heap[u] = f.dmap[u] + 0
    BY <1>0 DEF FrontOK, FrontTyped, InQueue
  <2>3. u \notin InQueue(f)
    BY <1>4, <2>1, <2>2
  <2> QED
    BY <1>4, <2>3 DEF InQueue, SettledIn
<1>5. ASSUME D # Unreachable, D <= b
      PROVE  v \in SettledIn(f) /\ f.dmap[v] = D
  <2>1. RelaxedTowards(g, Zero, f.dmap, v, D)
    <3> SUFFICES ASSUME NEW u \in Node, NEW i \in OutEdges(g, u),
                        f.dmap[u] # Absent, f.dmap[u] + Zero[u] <= D + Zero[v],
                        f.dmap[u] + g[i].length <= D + Zero[v]
                 PROVE  /\ f.dmap[g[i].target] # Absent
                        /\ f.dmap[g[i].target] <= f.dmap[u] + g[i].length
      BY DEF RelaxedTowards
    <3>1. f.dmap[u] \in Nat /\ g[i].length \in Nat /\ D \in Nat
          /\ Zero[u] = 0 /\ Zero[v] = 0
      BY <1>0, <1>1, <1>2, <1>5, EdgeTypes DEF OutEdges
    <3>2. f.dmap[u] <= b /\ f.dmap[u] + g[i].length <= b
      BY <1>5, <3>1
    <3>3. u \in SettledIn(f)
      BY <1>4, <3>2
    <3> QED
      BY <3>2, <3>3 DEF RelaxedWithin
  <2>2. f.dmap[v] # Absent /\ f.dmap[v] <= D
    BY <1>0, <1>1, <1>2, <1>5, <2>1, Covered
  <2>3. f.dmap[v] \in Nat /\ D \in Nat /\ D <= f.dmap[v]
    BY <1>1, <1>3, <1>5, <2>2
  <2>4. f.dmap[v] = D
    BY <2>2, <2>3
  <2> QED
    BY <1>4, <1>5, <2>2, <2>4
<1> QED
  BY <1>1, <1>3, <1>5 DEF D

(***************************************************************************)
(* A search for one node t knows the distance of t once t is on top of the *)
(* heap, or the heap is empty.                                             *)
(***************************************************************************)
LEMMA ExactAtTop ==
  ASSUME NEW g \in Graph, NEW h \in [Node -> Nat], Consistent(g, h),
         NEW s \in Node, NEW f, FrontOK(g, h, s, f), Relaxed(g, f),
         NEW t \in Node, h[t] = 0,
         \A u \in InQueue(f) : t \in InQueue(f) /\ f.heap[t] <= f.heap[u]
  PROVE  f.dmap[t] = DistanceFrom(g, s)[t]
<1> DEFINE D == DistanceFrom(g, s)[t]
<1>1. /\ D \in Nat \cup {Unreachable}
      /\ D # Unreachable => HasRoute(g, s, t, D)
      /\ \A l : HasRoute(g, s, t, l) => l \in Nat /\ D # Unreachable /\ D <= l
  BY DistanceIsLeast
<1> HIDE DEF D
<1>2. f.dmap \in [Node -> Nat \cup {Absent}] /\ f.dmap[s] = 0
  BY DEF FrontOK, FrontTyped, Front
<1>3. f.dmap[t] # Absent => f.dmap[t] \in Nat /\ D # Unreachable /\ D <= f.dmap[t]
  BY <1>1 DEF FrontOK, KnowsRoutes
<1>4. ASSUME D # Unreachable, f.dmap[t] # Absent => D < f.dmap[t]
      PROVE  FALSE
  <2>1. RelaxedTowards(g, h, f.dmap, t, D)
    <3> SUFFICES ASSUME NEW u \in Node, NEW i \in OutEdges(g, u),
                        f.dmap[u] # Absent, f.dmap[u] + h[u] <= D + h[t]
                 PROVE  /\ f.dmap[g[i].target] # Absent
                        /\ f.dmap[g[i].target] <= f.dmap[u] + g[i].length
      BY DEF RelaxedTowards
    <3>1. f.dmap[u] \in Nat /\ g[i].length \in Nat /\ D \in Nat /\ h[u] \in Nat
      BY <1>1, <1>2, <1>4, EdgeTypes DEF OutEdges
    <3>2. u \notin InQueue(f)
      <4> SUFFICES ASSUME u \in InQueue(f) PROVE FALSE
        OBVIOUS
      <4>1. f.heap[u] = f.dmap[u] + h[u] /\ f.heap[t] = f.dmap[t] + h[t]
            /\ f.heap[t] <= f.heap[u] /\ f.dmap[t] # Absent
        BY DEF FrontOK, FrontTyped
      <4>2. f.dmap[t] \in Nat /\ D < f.dmap[t]
        BY <1>2, <1>4, <4>1
      <4>3. f.heap[t] = f.dmap[t]
        BY <4>1, <4>2
      <4> QED
        BY <3>1, <4>1, <4>2, <4>3
    <3>3. u \in SettledIn(f)
      BY <3>2 DEF SettledIn, InQueue
    <3>4. RelaxedWithin(g, f, f.dmap[u] + g[i].length)
      BY <3>1 DEF Relaxed
    <3> QED
      BY <3>1, <3>3, <3>4 DEF RelaxedWithin
  <2>2. f.dmap[t] # Absent /\ f.dmap[t] <= D
    BY <1>1, <1>2, <1>4, <2>1, Covered
  <2>3. f.dmap[t] \in Nat /\ D \in Nat
    BY <1>1, <1>2, <1>4, <2>2
  <2> QED
    BY <1>4, <2>2, <2>3
<1>5. CASE f.dmap[t] = Absent
  BY <1>4, <1>5 DEF Absent, Unreachable, D
<1>6. CASE f.dmap[t] # Absent
  <2>1. f.dmap[t] \in Nat /\ D \in Nat /\ D <= f.dmap[t] /\ D # Unreachable
    BY <1>1, <1>3, <1>6
  <2>2. ~ (D < f.dmap[t])
    BY <1>4, <2>1
  <2>3. D = f.dmap[t]
    BY <2>1, <2>2
  <2> QED
    BY <2>3 DEF D
<1> QED
  BY <1>5, <1>6

(***************************************************************************)
(* Connected paths, built edge by edge at either end.                      *)
(***************************************************************************)
Leads(g, s, p) ==
  /\ p \in Seq(EdgeIndex)
  /\ p # <<>> => g[p[1]].source = s
  /\ \A k \in 1 .. Len(p) - 1 : g[p[k]].target = g[p[k + 1]].source

EndFrom(g, s, p) == IF p = <<>> THEN s ELSE g[p[Len(p)]].target

LEMMA LeadsBefore ==
  ASSUME NEW g \in Graph, NEW s, NEW p, Leads(g, s, p), NEW e \in EdgeIndex,
         g[e].target = s
  PROVE  /\ Leads(g, g[e].source, << e >> \o p)
         /\ EndFrom(g, g[e].source, << e >> \o p) = EndFrom(g, s, p)
         /\ << e >> \o p # <<>>
<1> DEFINE q == << e >> \o p
<1>1. p \in Seq(EdgeIndex)
  BY DEF Leads
<1>2. /\ q \in Seq(EdgeIndex) /\ Len(p) \in Nat /\ Len(q) = 1 + Len(p) /\ q[1] = e
      /\ \A k \in 1 .. Len(p) : q[k + 1] = p[k]
      /\ q # <<>>
  BY <1>1
<1> HIDE DEF q
<1>3. ASSUME NEW k \in 1 .. Len(q) - 1
      PROVE  g[q[k]].target = g[q[k + 1]].source
  <2>1. CASE k = 1
    <3>1. q[k] = e /\ q[k + 1] = p[1] /\ p # <<>>
      BY <1>1, <1>2, <2>1
    <3> QED
      BY <3>1 DEF Leads
  <2>2. CASE k # 1
    <3>1. k - 1 \in 1 .. Len(p) - 1 /\ k - 1 \in 1 .. Len(p) /\ k \in 1 .. Len(p)
          /\ (k - 1) + 1 = k
      BY <1>2, <2>2
    <3>2. q[(k - 1) + 1] = p[k - 1] /\ q[k + 1] = p[k]
      BY <1>2, <3>1
    <3>3. q[k] = p[k - 1]
      BY <3>1, <3>2
    <3>4. g[p[k - 1]].target = g[p[(k - 1) + 1]].source
      BY <3>1 DEF Leads
    <3> QED
      BY <3>1, <3>2, <3>3, <3>4
  <2> QED
    BY <2>1, <2>2
<1>4. Leads(g, g[e].source, q)
  BY <1>2, <1>3 DEF Leads
<1>5. EndFrom(g, g[e].source, q) = EndFrom(g, s, p)
  <2>1. CASE p = <<>>
    BY <1>2, <2>1 DEF EndFrom
  <2>2. CASE p # <<>>
    <3>1. Len(p) \in 1 .. Len(p) /\ Len(q) = Len(p) + 1
      BY <1>1, <1>2, <2>2
    <3>2. q[Len(q)] = p[Len(p)]
      BY <1>2, <3>1
    <3> QED
      BY <1>2, <2>2, <3>2 DEF EndFrom
  <2> QED
    BY <2>1, <2>2
<1> QED
  BY <1>2, <1>4, <1>5 DEF q

LEMMA LeadsOnward ==
  ASSUME NEW g \in Graph, NEW s, NEW p, Leads(g, s, p), NEW e \in EdgeIndex,
         g[e].source = EndFrom(g, s, p)
  PROVE  /\ Leads(g, s, Append(p, e))
         /\ EndFrom(g, s, Append(p, e)) = g[e].target
         /\ Append(p, e) # <<>>
<1> DEFINE q == Append(p, e)
<1>1. p \in Seq(EdgeIndex)
  BY DEF Leads
<1>2. /\ q \in Seq(EdgeIndex) /\ Len(p) \in Nat /\ Len(q) = Len(p) + 1
      /\ q[Len(p) + 1] = e /\ q # <<>>
      /\ \A k \in 1 .. Len(p) : q[k] = p[k]
  BY <1>1
<1> HIDE DEF q
<1>3. g[q[1]].source = s
  <2>1. CASE p = <<>>
    BY <1>2, <2>1 DEF EndFrom
  <2>2. CASE p # <<>>
    <3>1. 1 \in 1 .. Len(p)
      BY <1>1, <2>2
    <3> QED
      BY <1>2, <2>2, <3>1 DEF Leads
  <2> QED
    BY <2>1, <2>2
<1>4. ASSUME NEW k \in 1 .. Len(q) - 1
      PROVE  g[q[k]].target = g[q[k + 1]].source
  <2>1. k \in 1 .. Len(p) /\ p # <<>>
    BY <1>1, <1>2
  <2>2. CASE k = Len(p)
    <3>1. q[k] = p[Len(p)] /\ q[k + 1] = e
      BY <1>2, <2>1, <2>2
    <3> QED
      BY <2>1, <3>1 DEF EndFrom
  <2>3. CASE k # Len(p)
    <3>1. k \in 1 .. Len(p) - 1 /\ k + 1 \in 1 .. Len(p)
      BY <1>2, <2>1, <2>3
    <3>2. q[k] = p[k] /\ q[k + 1] = p[k + 1]
      BY <1>2, <2>1, <3>1
    <3> QED
      BY <3>1, <3>2 DEF Leads
  <2> QED
    BY <2>2, <2>3
<1>5. Leads(g, s, q)
  BY <1>2, <1>3, <1>4 DEF Leads
<1>6. EndFrom(g, s, q) = g[e].target
  BY <1>2 DEF EndFrom
<1> QED
  BY <1>2, <1>5, <1>6 DEF q

(***************************************************************************)
(* get_edge_index without a cost finds a shortest edge, if there is any.   *)
(***************************************************************************)
LEMMA GreatestElement ==
  ASSUME NEW n \in Nat, NEW S \in SUBSET (0 .. n), S # {}
  PROVE  \E m \in S : \A i \in S : i <= m
<1> DEFINE T == {n - i : i \in S}
<1>1. T \in SUBSET Nat /\ T # {}
  <2>1. \A i \in S : i \in 0 .. n /\ n - i \in Nat
    OBVIOUS
  <2> QED
    BY <2>1
<1>2. PICK l \in T : \A k \in T : l <= k
  <2> HIDE DEF T
  <2> QED
    BY <1>1, LeastElement
<1>3. PICK m \in S : l = n - m
  BY <1>2
<1>4. ASSUME NEW i \in S PROVE i <= m
  <2>1. n - i \in T
    OBVIOUS
  <2>2. l <= n - i
    BY <1>2, <2>1
  <2>3. i \in 0 .. n /\ m \in 0 .. n
    OBVIOUS
  <2> HIDE DEF T
  <2> QED
    BY <1>3, <2>2, <2>3
<1> QED
  BY <1>4

LEMMA ShortestEdgeFinds ==
  ASSUME graph \in Graph, NEW u, NEW v, LengthsTo(u, v) # {}
  PROVE  /\ ShortestEdge(u, v) \in OutEdges(graph, u)
         /\ graph[ShortestEdge(u, v)].target = v
         /\ graph[ShortestEdge(u, v)].length = Least(LengthsTo(u, v))
         /\ Least(LengthsTo(u, v)) \in LengthsTo(u, v)
         /\ \A l \in LengthsTo(u, v) : l \in Nat /\ Least(LengthsTo(u, v)) <= l
<1> DEFINE L == LengthsTo(u, v)
           l0 == Least(L)
           Best == {i \in OutEdges(graph, u) : graph[i].target = v /\ graph[i].length = l0}
<1>1. L \in SUBSET Nat /\ L # {}
  BY EdgeTypes DEF LengthsTo, OutEdges
<1>2. l0 \in L /\ \A m \in L : l0 <= m
  <2> HIDE DEF L
  <2> QED
    BY <1>1, LeastLength
<1>3. \A i \in OutEdges(graph, u) : graph[i].target = v => graph[i].length \in L
  BY DEF LengthsTo
<1>4. PICK b \in OutEdges(graph, u) : graph[b].target = v /\ graph[b].length = l0
  BY <1>2 DEF LengthsTo
<1> HIDE DEF L, l0
<1>5. PICK e \in Best : \A i \in Best : i <= e
  <2>1. NumEdges - 1 \in Nat
    <3>1. b \in EdgeIndex
      BY <1>4 DEF OutEdges
    <3> QED
      BY <3>1, GraphAssumption DEF EdgeIndex
  <2>2. Best \in SUBSET (0 .. NumEdges - 1) /\ Best # {}
    BY <1>4 DEF OutEdges, EdgeIndex
  <2> HIDE DEF Best
  <2> QED
    BY <2>1, <2>2, GreatestElement
<1> DEFINE Fits(x) == /\ graph[x].target = v
                      /\ \A i \in OutEdges(graph, u) :
                           graph[i].target = v => \/ graph[x].length < graph[i].length
                                                  \/ graph[x].length = graph[i].length /\ i <= x
<1>6. e \in OutEdges(graph, u) /\ Fits(e)
  <2>1. e \in OutEdges(graph, u) /\ graph[e].target = v /\ graph[e].length = l0
    BY <1>5
  <2>2. ASSUME NEW i \in OutEdges(graph, u), graph[i].target = v
        PROVE  \/ graph[e].length < graph[i].length
               \/ graph[e].length = graph[i].length /\ i <= e
    <3>1. graph[i].length \in Nat /\ l0 \in Nat /\ l0 <= graph[i].length
      BY <1>1, <1>2, <1>3, <2>2
    <3>2. graph[i].length = l0 => i <= e
      BY <1>5, <2>2
    <3> QED
      BY <2>1, <3>1, <3>2
  <2> QED
    BY <2>1, <2>2
<1> DEFINE x == ShortestEdge(u, v)
<1>7. x \in OutEdges(graph, u) /\ Fits(x)
  BY <1>6 DEF ShortestEdge
<1> HIDE DEF x
<1>8. graph[x].length \in L /\ graph[x].length \in Nat /\ l0 \in Nat /\ l0 <= graph[x].length
  BY <1>1, <1>2, <1>3, <1>7
<1>9. graph[x].length = l0
  <2>1. graph[x].length < l0 \/ graph[x].length = l0
    BY <1>4, <1>7
  <2> QED
    BY <1>8, <2>1
<1> QED
  BY <1>1, <1>2, <1>7, <1>9 DEF x, l0, L

-----------------------------------------------------------------------------
(***************************************************************************)
(* The types: those of TypeOK, the maps of a front that go together, and   *)
(* which search goes through which phase.                                  *)
(***************************************************************************)
H == [v \in Node |-> Heuristic(v)]

SearchTyped ==
  /\ TypeOK
  /\ method \in PathMethods \cup WithinMethods
  /\ FrontTyped(H, front) /\ FrontTyped(Zero, back)
  /\ pc = "track" => method \in PathMethods
  /\ pc = "follow" => method = "bidirectional"
  /\ pc = "to" => method = "within"
  /\ method = "bidirectional" /\ pc # "done" =>
       prev_node \in Node \/ (pc = "search" /\ InTurn)

\* The ways a front may go on.
Moves(g, h, f, a) ==
  \/ a = f
  \/ InQueue(f) # {} /\ a = Taken(f, Top(f))
  \/ /\ InQueue(f) # {}
     /\ \E L \in [Node -> SUBSET Nat] :
          /\ \A v \in Node : L[v] \subseteq EdgeLengths(g, Top(f), v)
          /\ Turn(h, f, Top(f), L, a)

LEMMA MovesTyped ==
  ASSUME NEW g, NEW h \in [Node -> Nat], NEW f, FrontTyped(h, f),
         NEW a, Moves(g, h, f, a)
  PROVE  FrontTyped(h, a)
<1>1. CASE a = f
  BY <1>1
<1>2. CASE InQueue(f) # {} /\ a = Taken(f, Top(f))
  <2>1. Top(f) \in InQueue(f)
    BY <1>2, TopIsLeast DEF FrontTyped
  <2> QED
    BY <1>2, <2>1, TakenTyped
<1>3. CASE /\ InQueue(f) # {}
           /\ \E L \in [Node -> SUBSET Nat] :
                /\ \A v \in Node : L[v] \subseteq EdgeLengths(g, Top(f), v)
                /\ Turn(h, f, Top(f), L, a)
  <2>1. Top(f) \in InQueue(f)
    BY <1>3, TopIsLeast DEF FrontTyped
  <2>2. PICK L \in [Node -> SUBSET Nat] : Turn(h, f, Top(f), L, a)
    BY <1>3
  <2> QED
    BY <2>1, <2>2, TurnTyped
<1> QED
  BY <1>1, <1>2, <1>3 DEF Moves

LEMMA MovesOK ==
  ASSUME NEW g \in Graph, NEW h \in [Node -> Nat], Consistent(g, h),
         NEW s \in Node, NEW f, FrontOK(g, h, s, f),
         NEW a, Moves(g, h, f, a)
  PROVE  FrontOK(g, h, s, a) /\ Lowered(f, a) \subseteq InQueue(f)
<1>0. f \in Front /\ f.dmap \in [Node -> Nat \cup {Absent}]
  BY DEF FrontOK, FrontTyped, Front
<1>1. CASE a = f
  BY <1>0, <1>1 DEF Lowered
<1>2. CASE InQueue(f) # {} /\ a = Taken(f, Top(f))
  <2>1. Top(f) \in InQueue(f) /\ \A v \in InQueue(f) : f.heap[Top(f)] <= f.heap[v]
    BY <1>0, <1>2, TopIsLeast
  <2>2. FrontOK(g, h, s, a)
    BY <1>2, <2>1, TakenOK
  <2>3. a.dmap = f.dmap
    BY <1>2, <2>1, TakenTyped DEF FrontOK
  <2>4. Lowered(f, a) = {}
    BY <1>0, <2>3 DEF Lowered
  <2> QED
    BY <2>2, <2>4
<1>3. CASE /\ InQueue(f) # {}
           /\ \E L \in [Node -> SUBSET Nat] :
                /\ \A v \in Node : L[v] \subseteq EdgeLengths(g, Top(f), v)
                /\ Turn(h, f, Top(f), L, a)
  <2>1. Top(f) \in InQueue(f) /\ \A v \in InQueue(f) : f.heap[Top(f)] <= f.heap[v]
    BY <1>0, <1>3, TopIsLeast
  <2>2. PICK L \in [Node -> SUBSET Nat] :
          /\ \A v \in Node : L[v] \subseteq EdgeLengths(g, Top(f), v)
          /\ Turn(h, f, Top(f), L, a)
    BY <1>3
  <2> QED
    BY <2>1, <2>2, TurnOK
<1> QED
  BY <1>1, <1>2, <1>3 DEF Moves

LEMMA Typed ==
  ASSUME SearchTyped
  PROVE  /\ graph \in Graph /\ Reversed(graph) \in Graph
         /\ H \in [Node -> Nat] /\ \A v \in Node : H[v] = Heuristic(v)
         /\ H[target] = 0
         /\ method # "astar" => H = Zero
         /\ source \in Node /\ target \in Node /\ delta \in Nat
         /\ InQueue(front) # {} => Top(front) \in InQueue(front)
         /\ InQueue(back) # {} => Top(back) \in InQueue(back)
         /\ \A v \in InQueue(front) : front.heap[Top(front)] <= front.heap[v]
         /\ \A v \in InQueue(back) : back.heap[Top(back)] <= back.heap[v]
<1>1. graph \in Graph /\ source \in Node /\ target \in Node /\ delta \in Nat
      /\ place \in [Node -> Nat]
  BY SearchAssumption DEF SearchTyped, TypeOK
<1>2. Reversed(graph) \in Graph
  BY <1>1, ReversedGraph
<1>3. \A v \in Node : Heuristic(v) \in Nat
  BY <1>1 DEF Heuristic
<1>4. H \in [Node -> Nat] /\ \A v \in Node : H[v] = Heuristic(v)
  BY <1>3 DEF H
<1>5. H[target] = 0
  BY <1>1, <1>4 DEF Heuristic
<1>6. method # "astar" => H = Zero
  BY DEF H, Heuristic, Zero
<1>7. front \in Front /\ back \in Front
  BY DEF SearchTyped, TypeOK
<1>8. /\ InQueue(front) # {} => Top(front) \in InQueue(front)
      /\ InQueue(back) # {} => Top(back) \in InQueue(back)
      /\ \A v \in InQueue(front) : front.heap[Top(front)] <= front.heap[v]
      /\ \A v \in InQueue(back) : back.heap[Top(back)] <= back.heap[v]
  BY <1>7, TopIsLeast
<1> QED
  BY <1>1, <1>2, <1>4, <1>5, <1>6, <1>8

LEMMA FrontExpands ==
  ASSUME SearchTyped, InQueue(front) # {}, NEW L \in [Node -> SUBSET Nat]
  PROVE  Turn(H, front, Top(front), L, Expanded(front, Top(front), L))
<1>1. /\ H \in [Node -> Nat] /\ \A v \in Node : Heuristic(v) = H[v]
      /\ Top(front) \in InQueue(front)
  BY Typed
<1>2. FrontTyped(H, front)
  BY DEF SearchTyped
<1> QED
  BY <1>1, <1>2, ExpandedTurns

LEMMA BackExpands ==
  ASSUME SearchTyped, method # "astar", InQueue(back) # {},
         NEW L \in [Node -> SUBSET Nat]
  PROVE  Turn(Zero, back, Top(back), L, Expanded(back, Top(back), L))
<1>1. /\ H \in [Node -> Nat] /\ \A v \in Node : Heuristic(v) = H[v]
      /\ H = Zero
      /\ Top(back) \in InQueue(back)
  BY Typed
<1>2. FrontTyped(Zero, back)
  BY DEF SearchTyped
<1>3. Zero \in [Node -> Nat] /\ \A v \in Node : Heuristic(v) = Zero[v]
  BY <1>1
<1> QED
  BY <1>1, <1>2, <1>3, ExpandedTurns

\* The lengths a search relaxes: all of the edges of u, or those within delta.
AllLengths(g, u) == [v \in Node |-> EdgeLengths(g, u, v)]

LEMMA AllLengthsTyped ==
  ASSUME NEW g \in Graph, NEW u
  PROVE  /\ AllLengths(g, u) \in [Node -> SUBSET Nat]
         /\ \A v \in Node : AllLengths(g, u)[v] = EdgeLengths(g, u, v)
<1>1. \A v \in Node : EdgeLengths(g, u, v) \subseteq Nat
  BY EdgeTypes DEF EdgeLengths, OutEdges
<1> QED
  BY <1>1 DEF AllLengths

WithinLengths(g, u, d, b) ==
  [v \in Node |-> {l \in EdgeLengths(g, u, v) : d + l <= b}]

LEMMA WithinLengthsTyped ==
  ASSUME NEW g \in Graph, NEW u, NEW d, NEW b
  PROVE  /\ WithinLengths(g, u, d, b) \in [Node -> SUBSET Nat]
         /\ \A v \in Node :
              WithinLengths(g, u, d, b)[v] = {l \in EdgeLengths(g, u, v) : d + l <= b}
<1>1. \A v \in Node : EdgeLengths(g, u, v) \subseteq Nat
  BY EdgeTypes DEF EdgeLengths, OutEdges
<1> QED
  BY <1>1 DEF WithinLengths

LeastWithin(g, u, d, b) ==
  [v \in Node |-> {l \in EdgeLengths(g, u, v) :
                     l = Least(EdgeLengths(g, u, v)) /\ d + l <= b}]

LEMMA LeastWithinTyped ==
  ASSUME NEW g \in Graph, NEW u, NEW d, NEW b
  PROVE  /\ LeastWithin(g, u, d, b) \in [Node -> SUBSET Nat]
         /\ \A v \in Node :
              LeastWithin(g, u, d, b)[v] =
                {l \in EdgeLengths(g, u, v) :
                   l = Least(EdgeLengths(g, u, v)) /\ d + l <= b}
<1>1. \A v \in Node : EdgeLengths(g, u, v) \subseteq Nat
  BY EdgeTypes DEF EdgeLengths, OutEdges
<1> QED
  BY <1>1 DEF LeastWithin

(***************************************************************************)
(* The turns of the searches, in these terms.                              *)
(***************************************************************************)
LEMMA ForwardTurn ==
  ASSUME SearchTyped, InQueue(front) # {},
         front' = Expanded(front, Top(front), [v \in Node |-> LengthsTo(Top(front), v)])
  PROVE  Turn(H, front, Top(front), AllLengths(graph, Top(front)), front')
<1>1. [v \in Node |-> LengthsTo(Top(front), v)] = AllLengths(graph, Top(front))
  BY DEF AllLengths, EdgeLengths, LengthsTo
<1>2. AllLengths(graph, Top(front)) \in [Node -> SUBSET Nat]
  BY Typed, AllLengthsTyped
<1> QED
  BY <1>1, <1>2, FrontExpands

LEMMA BackwardTurn ==
  ASSUME SearchTyped, method # "astar", InQueue(back) # {},
         back' = Expanded(back, Top(back), [v \in Node |-> LengthsTo(v, Top(back))])
  PROVE  Turn(Zero, back, Top(back), AllLengths(Reversed(graph), Top(back)), back')
<1>0. graph \in Graph /\ Reversed(graph) \in Graph
  BY Typed
<1>1. [v \in Node |-> LengthsTo(v, Top(back))] = AllLengths(Reversed(graph), Top(back))
  <2>1. \A v \in Node : EdgeLengths(Reversed(graph), Top(back), v) = LengthsTo(v, Top(back))
    <3>1. \A v \in Node : EdgeLengths(Reversed(graph), Top(back), v)
                            = EdgeLengths(graph, v, Top(back))
      BY <1>0, ReversedGraph
    <3>2. \A v \in Node : EdgeLengths(graph, v, Top(back)) = LengthsTo(v, Top(back))
      BY DEF EdgeLengths, LengthsTo
    <3> QED
      BY <3>1, <3>2
  <2> QED
    BY <2>1 DEF AllLengths
<1>2. AllLengths(Reversed(graph), Top(back)) \in [Node -> SUBSET Nat]
  BY <1>0, AllLengthsTyped
<1> QED
  BY <1>1, <1>2, BackExpands

LEMMA SweepFromTurn ==
  ASSUME SearchTyped, SweepFrom, ~ Beyond(front)
  PROVE  LET u == Top(front)
             L == WithinLengths(graph, u, front.dmap[u], delta) IN
         /\ InQueue(front) # {}
         /\ Turn(H, front, u, L, front')
         /\ found' = found \cup {e \in OutEdges(graph, u) :
                                   graph[e].length \in L[graph[e].target]}
<1> DEFINE u == Top(front)
           L == WithinLengths(graph, u, front.dmap[u], delta)
<1>1. graph \in Graph /\ L \in [Node -> SUBSET Nat]
  BY Typed, WithinLengthsTyped
<1>2. [v \in Node |-> Reached(front.dmap[u], LengthsTo(u, v))] = L
  BY DEF WithinLengths, Reached, LengthsTo, EdgeLengths
<1>3. InQueue(front) # {}
  BY DEF Beyond
<1>4. /\ front' = Expanded(front, u, L)
      /\ found' = found \cup {e \in OutEdges(graph, u) :
                                graph[e].length \in L[graph[e].target]}
  <2> HIDE DEF u
  <2>1. u = Top(front)
    BY DEF u
  <2> DEFINE K == [v \in Node |-> Reached(front.dmap[u], LengthsTo(u, v))]
  <2>2. /\ front' = Expanded(front, u, K)
        /\ found' = found \cup {e \in OutEdges(graph, u) :
                                  graph[e].length \in K[graph[e].target]}
    BY <2>1 DEF SweepFrom
  <2> QED
    BY <1>2, <2>2
<1> QED
  BY <1>1, <1>3, <1>4, FrontExpands

LEMMA SweepToTurn ==
  ASSUME SearchTyped, SweepTo, ~ Beyond(back)
  PROVE  LET v == Top(back)
             L == LeastWithin(Reversed(graph), v, back.dmap[v], delta) IN
         /\ InQueue(back) # {}
         /\ Turn(Zero, back, v, L, back')
         /\ found' = found \cup {ShortestEdge(u, v) : u \in {w \in Node : L[w] # {}}}
<1> DEFINE v == Top(back)
           L == LeastWithin(Reversed(graph), v, back.dmap[v], delta)
           shortest(u) == IF LengthsTo(u, v) = {} THEN {} ELSE {Least(LengthsTo(u, v))}
           K == [u \in Node |-> Reached(back.dmap[v], shortest(u))]
<1>0. graph \in Graph /\ Reversed(graph) \in Graph
  BY Typed
<1>1. L \in [Node -> SUBSET Nat]
  BY <1>0, LeastWithinTyped
<1>2. K = L
  <2> SUFFICES ASSUME NEW u \in Node
               PROVE  Reached(back.dmap[v], shortest(u)) = L[u]
    BY <1>1
  <2> DEFINE S == LengthsTo(u, v)
  <2>1. EdgeLengths(Reversed(graph), v, u) = S
    <3>1. EdgeLengths(Reversed(graph), v, u) = EdgeLengths(graph, u, v)
      BY <1>0, ReversedGraph
    <3> QED
      BY <3>1 DEF EdgeLengths, LengthsTo
  <2>2. L[u] = {l \in S : l = Least(S) /\ back.dmap[v] + l <= delta}
    BY <1>0, <2>1, LeastWithinTyped
  <2>3. S \in SUBSET Nat
    BY <1>0, EdgeTypes DEF LengthsTo, OutEdges
  <2> HIDE DEF S, L
  <2>4. S # {} => Least(S) \in S
    BY <2>3, LeastLength
  <2>5. shortest(u) = IF S = {} THEN {} ELSE {Least(S)}
    BY DEF S
  <2> HIDE DEF shortest
  <2> QED
    BY <2>2, <2>4, <2>5 DEF Reached
<1>3. InQueue(back) # {}
  BY DEF Beyond
<1>4. /\ back' = Expanded(back, v, K)
      /\ found' = found \cup {ShortestEdge(u, v) : u \in {w \in Node : K[w] # {}}}
  BY DEF SweepTo
<1>5. method # "astar"
  BY DEF SearchTyped, SweepTo
<1> HIDE DEF K, L
<1>6. Turn(Zero, back, v, L, back')
  BY <1>1, <1>2, <1>3, <1>4, <1>5, BackExpands
<1> QED
  BY <1>2, <1>3, <1>4, <1>6 DEF L

(***************************************************************************)
(* Every step moves each front in one of the ways, or not at all.          *)
(***************************************************************************)
LEMMA InputsKept ==
  ASSUME SearchTyped, [Next]_vars
  PROVE  /\ graph' = graph /\ place' = place /\ method' = method
         /\ source' = source /\ target' = target /\ delta' = delta
         /\ H' = H
<1>1. UNCHANGED inputs
  BY DEF Next, Search, Returned, ExpandOneWay, ExhaustedOneWay, ExpandForward,
         ExpandBackward, ExhaustedInTurn, TrackBack, TrackForward,
         ExpandToTarget, SweepFrom, SweepTo, vars, inputs
<1> QED
  BY <1>1 DEF inputs, H, Heuristic

LEMMA FrontMoves ==
  ASSUME SearchTyped, [Next]_vars
  PROVE  Moves(graph, H, front, front')
<1> DEFINE u == Top(front)
<1>0. graph \in Graph
  BY Typed
<1>1. ASSUME InQueue(front) # {},
             front' = Expanded(front, u, [v \in Node |-> LengthsTo(u, v)])
      PROVE  Moves(graph, H, front, front')
  <2>1. Turn(H, front, u, AllLengths(graph, u), front')
    BY <1>1, ForwardTurn
  <2>2. /\ AllLengths(graph, u) \in [Node -> SUBSET Nat]
        /\ \A v \in Node : AllLengths(graph, u)[v] \subseteq EdgeLengths(graph, u, v)
    BY <1>0, AllLengthsTyped
  <2> QED
    BY <1>1, <2>1, <2>2 DEF Moves
<1>2. CASE ExpandOneWay
  <2>1. CASE u = target
    BY <1>2, <2>1 DEF ExpandOneWay, Moves
  <2>2. CASE u # target
    BY <1>1, <1>2, <2>2 DEF ExpandOneWay
  <2> QED
    BY <2>1, <2>2
<1>3. CASE ExpandForward
  <2>1. CASE u = prev_node
    BY <1>3, <2>1 DEF ExpandForward, InTurn, Moves
  <2>2. CASE u # prev_node
    BY <1>1, <1>3, <2>2 DEF ExpandForward, InTurn
  <2> QED
    BY <2>1, <2>2
<1>4. CASE SweepFrom
  <2>1. CASE Beyond(front)
    BY <1>4, <2>1 DEF SweepFrom, Moves
  <2>2. CASE ~ Beyond(front)
    <3> DEFINE L == WithinLengths(graph, u, front.dmap[u], delta)
    <3>1. InQueue(front) # {} /\ Turn(H, front, u, L, front')
      BY <1>4, <2>2, SweepFromTurn
    <3>2. /\ L \in [Node -> SUBSET Nat]
          /\ \A v \in Node : L[v] = {l \in EdgeLengths(graph, u, v) :
                                       front.dmap[u] + l <= delta}
      BY <1>0, WithinLengthsTyped
    <3> HIDE DEF L
    <3>3. \A v \in Node : L[v] \subseteq EdgeLengths(graph, u, v)
      BY <3>2
    <3> QED
      BY <3>1, <3>2, <3>3 DEF Moves
  <2> QED
    BY <2>1, <2>2
<1>5. CASE front' = front
  BY <1>5 DEF Moves
<1>6. CASE ExpandToTarget \/ SweepTo \/ ExhaustedOneWay \/ ExpandBackward
           \/ ExhaustedInTurn \/ TrackBack \/ TrackForward \/ Returned \/ UNCHANGED vars
  BY <1>5, <1>6 DEF ExpandToTarget, SweepTo, ExhaustedOneWay, ExpandBackward,
       ExhaustedInTurn, TrackBack, TrackForward, Returned, vars
<1> QED
  BY <1>2, <1>3, <1>4, <1>6 DEF Next, Search

LEMMA BackMoves ==
  ASSUME SearchTyped, [Next]_vars
  PROVE  Moves(Reversed(graph), Zero, back, back')
<1> DEFINE u == Top(back)
           r == Reversed(graph)
<1>0. r \in Graph
  BY Typed
<1>1. ASSUME method # "astar", InQueue(back) # {},
             back' = Expanded(back, u, [v \in Node |-> LengthsTo(v, u)])
      PROVE  Moves(r, Zero, back, back')
  <2>1. Turn(Zero, back, u, AllLengths(r, u), back')
    BY <1>1, BackwardTurn
  <2>2. /\ AllLengths(r, u) \in [Node -> SUBSET Nat]
        /\ \A v \in Node : AllLengths(r, u)[v] \subseteq EdgeLengths(r, u, v)
    BY <1>0, AllLengthsTyped
  <2> QED
    BY <1>1, <2>1, <2>2 DEF Moves
<1>2. CASE ExpandToTarget
  <2>1. CASE Beyond(back)
    BY <1>2, <2>1 DEF ExpandToTarget, Rest, Moves
  <2>2. CASE ~ Beyond(back)
    BY <1>1, <1>2, <2>2 DEF ExpandToTarget, Beyond
  <2> QED
    BY <2>1, <2>2
<1>3. CASE ExpandBackward
  <2>1. CASE u = prev_node
    BY <1>3, <2>1 DEF ExpandBackward, InTurn, Moves
  <2>2. CASE u # prev_node
    BY <1>1, <1>3, <2>2 DEF ExpandBackward, InTurn
  <2> QED
    BY <2>1, <2>2
<1>4. CASE SweepTo
  <2>1. CASE Beyond(back)
    BY <1>4, <2>1 DEF SweepTo, Moves
  <2>2. CASE ~ Beyond(back)
    <3> DEFINE L == LeastWithin(r, u, back.dmap[u], delta)
    <3>1. InQueue(back) # {} /\ Turn(Zero, back, u, L, back')
      BY <1>4, <2>2, SweepToTurn
    <3>2. /\ L \in [Node -> SUBSET Nat]
          /\ \A v \in Node : L[v] = {l \in EdgeLengths(r, u, v) :
                                       l = Least(EdgeLengths(r, u, v))
                                         /\ back.dmap[u] + l <= delta}
      BY <1>0, LeastWithinTyped
    <3> HIDE DEF L
    <3>3. \A v \in Node : L[v] \subseteq EdgeLengths(r, u, v)
      BY <3>2
    <3> QED
      BY <3>1, <3>2, <3>3 DEF Moves
  <2> QED
    BY <2>1, <2>2
<1>5. CASE back' = back
  BY <1>5 DEF Moves
<1>6. CASE ExpandOneWay \/ SweepFrom \/ ExhaustedOneWay \/ ExpandForward
           \/ ExhaustedInTurn \/ TrackBack \/ TrackForward \/ Returned \/ UNCHANGED vars
  BY <1>5, <1>6 DEF ExpandOneWay, SweepFrom, ExhaustedOneWay, ExpandForward,
       ExhaustedInTurn, TrackBack, TrackForward, Returned, vars
<1> QED
  BY <1>2, <1>3, <1>4, <1>6 DEF Next, Search

(***************************************************************************)
(* The types hold from step to step.                                       *)
(***************************************************************************)
LEMMA GetEdgeIndexTyped ==
  ASSUME NEW g, NEW u, NEW v, NEW cost
  PROVE  GetEdgeIndex(g, u, v, cost) \in EdgeIndex \cup {Absent}
<1>1. CASE EdgesOfCost(g, u, v, cost) = {}
  BY <1>1 DEF GetEdgeIndex
<1>2. CASE EdgesOfCost(g, u, v, cost) # {}
  <2>1. GetEdgeIndex(g, u, v, cost) \in EdgesOfCost(g, u, v, cost)
    BY <1>2, GetEdgeIndexFinds
  <2> QED
    BY <2>1 DEF EdgesOfCost, OutEdges
<1> QED
  BY <1>1, <1>2

LEMMA TypedInit == Init => SearchTyped
<1> SUFFICES ASSUME Init PROVE SearchTyped
  OBVIOUS
<1>1. /\ graph \in Graph /\ graph \in Networks /\ place \in [Node -> Nat]
      /\ source \in Node /\ target \in Node
      /\ delta \in Deltas \cup {0} /\ method \in PathMethods \cup WithinMethods
  BY SearchAssumption DEF Init, Inputs
<1>2. \A v \in Node : Heuristic(v) \in Nat
  BY <1>1 DEF Heuristic
<1>3. H \in [Node -> Nat] /\ \A v \in Node : H[v] = Heuristic(v)
  BY <1>2 DEF H
<1>4. FrontTyped(H, front) /\ InQueue(front) = {source}
  <2>1. front = FrontAt(source, H[source])
    BY <1>1, <1>3 DEF Init
  <2>2. FrontTyped(H, FrontAt(source, H[source])) /\ InQueue(FrontAt(source, H[source])) = {source}
    BY <1>1, <1>3, FrontBegins DEF FrontOK
  <2> QED
    BY <2>1, <2>2
<1>5. FrontTyped(Zero, back) /\ InQueue(back) = {target}
  <2>0. Zero \in [Node -> Nat] /\ Zero[target] = 0
    BY <1>1 DEF Zero
  <2>1. back = FrontAt(target, Zero[target])
    BY <2>0 DEF Init
  <2>2. FrontTyped(Zero, FrontAt(target, Zero[target]))
        /\ InQueue(FrontAt(target, Zero[target])) = {target}
    BY <1>1, <2>0, FrontBegins DEF FrontOK
  <2> QED
    BY <2>1, <2>2
<1>6. pc \in {"search", "done"} /\ at = source /\ path = <<>> /\ found = {}
      /\ forward = TRUE /\ prev_node = Absent
  BY DEF Init
<1>7. <<>> \in Seq(EdgeIndex \cup {Absent})
  OBVIOUS
<1>8. /\ front \in Front /\ back \in Front
      /\ \A v \in InQueue(front) : front.heap[v] = front.dmap[v] + Heuristic(v)
      /\ \A v \in InQueue(back) : back.heap[v] = back.dmap[v]
  <2>1. \A v \in InQueue(back) : back.heap[v] = back.dmap[v] + 0 /\ back.dmap[v] \in Nat
    BY <1>5 DEF FrontTyped, Front, InQueue, Zero
  <2>2. \A v \in InQueue(front) : front.heap[v] = front.dmap[v] + Heuristic(v)
    BY <1>3, <1>4 DEF FrontTyped, InQueue
  <2> QED
    BY <1>4, <1>5, <2>1, <2>2 DEF FrontTyped
<1>9. TypeOK
  BY <1>1, <1>6, <1>7, <1>8 DEF TypeOK
<1>10. InTurn \/ method # "bidirectional"
  BY <1>4, <1>5 DEF InTurn
<1> QED
  BY <1>1, <1>4, <1>5, <1>6, <1>9, <1>10 DEF SearchTyped

LEMMA TypedStep == SearchTyped /\ [Next]_vars => SearchTyped'
<1> SUFFICES ASSUME SearchTyped, [Next]_vars PROVE SearchTyped'
  OBVIOUS
<1>1. /\ graph' = graph /\ place' = place /\ method' = method
      /\ source' = source /\ target' = target /\ delta' = delta
      /\ H' = H
  BY InputsKept
<1>2. /\ graph \in Graph
      /\ H \in [Node -> Nat] /\ \A v \in Node : H[v] = Heuristic(v)
      /\ Zero \in [Node -> Nat]
      /\ InQueue(front) # {} => Top(front) \in InQueue(front)
      /\ InQueue(back) # {} => Top(back) \in InQueue(back)
  BY Typed, NoHeuristic
<1>3. FrontTyped(H, front)' /\ FrontTyped(H, front')
  <2>1. FrontTyped(H, front')
    BY <1>2, FrontMoves, MovesTyped DEF SearchTyped
  <2> QED
    BY <1>1, <2>1
<1>4. FrontTyped(Zero, back)' /\ FrontTyped(Zero, back')
  <2>1. FrontTyped(Zero, back')
    BY <1>2, BackMoves, MovesTyped DEF SearchTyped
  <2>2. Zero' = Zero
    BY DEF Zero
  <2> QED
    BY <2>1, <2>2
<1>5. /\ graph \in Networks /\ place \in [Node -> Nat] /\ method \in PathMethods \cup WithinMethods
      /\ source \in Node /\ target \in Node /\ at \in Node
      /\ forward \in BOOLEAN /\ prev_node \in Node \cup {Absent}
      /\ pc \in {"search", "track", "follow", "to", "done"}
      /\ delta \in Deltas \cup {0} /\ found \subseteq EdgeIndex
      /\ path \in Seq(EdgeIndex \cup {Absent})
      /\ front \in Front /\ back \in Front
  BY DEF SearchTyped, TypeOK
<1>6. /\ (front \in Front)' /\ (back \in Front)'
      /\ (\A v \in InQueue(front) : front.heap[v] = front.dmap[v] + Heuristic(v))'
      /\ (\A v \in InQueue(back) : back.heap[v] = back.dmap[v])'
  <2>1. \A v \in InQueue(back') : back'.heap[v] = back'.dmap[v] + 0 /\ back'.dmap[v] \in Nat
    BY <1>4 DEF FrontTyped, Front, InQueue, Zero
  <2>2. \A v \in InQueue(front') : front'.heap[v] = front'.dmap[v] + H[v] /\ v \in Node
    BY <1>3 DEF FrontTyped, InQueue
  <2>3. \A v \in Node : Heuristic(v)' = Heuristic(v)
    BY <1>1 DEF Heuristic
  <2>4. front' \in Front /\ back' \in Front
    BY <1>3, <1>4 DEF FrontTyped
  <2> QED
    BY <1>2, <2>1, <2>2, <2>3, <2>4
<1> DEFINE Rest1 == /\ at' \in Node
                    /\ forward' \in BOOLEAN /\ prev_node' \in Node \cup {Absent}
                    /\ pc' \in {"search", "track", "follow", "to", "done"}
                    /\ found' \subseteq EdgeIndex
                    /\ path' \in Seq(EdgeIndex \cup {Absent})
           Rest2 == /\ pc' = "track" => method \in PathMethods
                    /\ pc' = "follow" => method = "bidirectional"
                    /\ pc' = "to" => method = "within"
                    /\ method = "bidirectional" /\ pc' # "done" =>
                         prev_node' \in Node \/ (pc' = "search" /\ InTurn')
<1>7. SUFFICES Rest1 /\ Rest2
  BY <1>1, <1>3, <1>4, <1>5, <1>6 DEF SearchTyped, TypeOK
<1>8. /\ pc = "track" => method \in PathMethods
      /\ pc = "follow" => method = "bidirectional"
      /\ pc = "to" => method = "within"
      /\ method = "bidirectional" /\ pc # "done" =>
           prev_node \in Node \/ (pc = "search" /\ InTurn)
  BY DEF SearchTyped
<1>9. \A v : InQueue(v) \subseteq Node
  BY DEF InQueue
<1>10. CASE ExpandOneWay
  BY <1>5, <1>8, <1>10 DEF ExpandOneWay, Track, PathMethods
<1>11. CASE ExhaustedOneWay
  BY <1>5, <1>8, <1>11 DEF ExhaustedOneWay, Track, PathMethods
<1>12. CASE ExpandForward
  <2>1. Top(front) \in Node
    BY <1>2, <1>9, <1>12 DEF ExpandForward, InTurn
  <2> QED
    BY <1>5, <1>8, <1>12, <2>1 DEF ExpandForward, Track, PathMethods, InTurn
<1>13. CASE ExpandBackward
  <2>1. Top(back) \in Node
    BY <1>2, <1>9, <1>13 DEF ExpandBackward, InTurn
  <2> QED
    BY <1>5, <1>8, <1>13, <2>1 DEF ExpandBackward, Track, PathMethods, InTurn
<1>14. CASE ExhaustedInTurn
  BY <1>5, <1>8, <1>14 DEF ExhaustedInTurn, Track, PathMethods
<1>15. CASE TrackBack
  <2>1. CASE front.dmap[at] # Absent /\ at # source
    <3> DEFINE e == GetEdgeIndex(graph, front.via[at], at, Between(front, front.via[at], at))
    <3>1. e \in EdgeIndex \cup {Absent}
      BY GetEdgeIndexTyped
    <3>2. path' = << e >> \o path /\ at' = front.via[at]
      BY <1>15, <2>1 DEF TrackBack
    <3>3. UNCHANGED <<pc, forward, prev_node, found>> /\ pc = "track"
      BY <1>15, <2>1 DEF TrackBack
    <3> HIDE DEF e
    <3>4. path' \in Seq(EdgeIndex \cup {Absent})
      BY <1>5, <3>1, <3>2
    <3>5. at' \in Node
      BY <1>5, <2>1, <3>2 DEF SearchTyped, FrontTyped, Front
    <3> QED
      BY <1>5, <1>8, <3>3, <3>4, <3>5
  <2>2. CASE ~ (front.dmap[at] # Absent /\ at # source)
    <3>1. TrackDone /\ UNCHANGED <<path, forward, prev_node, found>> /\ pc = "track"
      BY <1>15, <2>2 DEF TrackBack
    <3> QED
      BY <1>5, <1>8, <3>1 DEF TrackDone
  <2> QED
    BY <2>1, <2>2
<1>16. CASE TrackForward
  <2>1. CASE back.dmap[at] # Absent /\ at # target
    <3> DEFINE e == GetEdgeIndex(graph, at, back.via[at], Between(back, back.via[at], at))
    <3>1. e \in EdgeIndex \cup {Absent}
      BY GetEdgeIndexTyped
    <3>2. path' = Append(path, e) /\ at' = back.via[at]
      BY <1>16, <2>1 DEF TrackForward
    <3>3. UNCHANGED <<pc, forward, prev_node, found>> /\ pc = "follow"
      BY <1>16, <2>1 DEF TrackForward
    <3> HIDE DEF e
    <3>4. path' \in Seq(EdgeIndex \cup {Absent})
      BY <1>5, <3>1, <3>2
    <3>5. at' \in Node
      BY <1>5, <2>1, <3>2 DEF SearchTyped, FrontTyped, Front
    <3> QED
      BY <1>5, <1>8, <3>3, <3>4, <3>5
  <2>2. CASE ~ (back.dmap[at] # Absent /\ at # target)
    <3>1. pc' = "done" /\ UNCHANGED <<path, at, forward, prev_node, found>>
      BY <1>16, <2>2 DEF TrackForward
    <3> QED
      BY <1>5, <3>1
  <2> QED
    BY <2>1, <2>2
<1>17. CASE ExpandToTarget
  BY <1>5, <1>8, <1>17 DEF ExpandToTarget
<1>18. CASE SweepFrom
  BY <1>5, <1>8, <1>18 DEF SweepFrom, OutEdges
<1>19. CASE SweepTo
  <2>1. CASE Beyond(back)
    BY <1>5, <1>8, <1>19, <2>1 DEF SweepTo
  <2>2. CASE ~ Beyond(back)
    <3> DEFINE v == Top(back)
               r == Reversed(graph)
               L == LeastWithin(r, v, back.dmap[v], delta)
    <3>1. found' = found \cup {ShortestEdge(u, v) : u \in {w \in Node : L[w] # {}}}
      BY <1>19, <2>2, SweepToTurn
    <3>2. ASSUME NEW u \in Node, L[u] # {} PROVE ShortestEdge(u, v) \in EdgeIndex
      <4>0. r \in Graph
        BY Typed
      <4>1. L[u] \subseteq EdgeLengths(r, v, u)
        BY <4>0, LeastWithinTyped
      <4>2. EdgeLengths(r, v, u) = EdgeLengths(graph, u, v)
        BY <1>2, ReversedGraph
      <4>3. LengthsTo(u, v) # {}
        BY <3>2, <4>1, <4>2 DEF EdgeLengths, LengthsTo
      <4>4. ShortestEdge(u, v) \in OutEdges(graph, u)
        BY <1>2, <4>3, ShortestEdgeFinds
      <4> QED
        BY <4>4 DEF OutEdges
    <3>3. UNCHANGED <<pc, forward, prev_node, at, path>>
      BY <1>19, <2>2 DEF SweepTo
    <3>4. pc = "to"
      BY <1>19 DEF SweepTo
    <3> HIDE DEF v, L
    <3>5. found' \subseteq EdgeIndex
      BY <1>5, <3>1, <3>2
    <3> QED
      BY <1>5, <1>8, <3>3, <3>4, <3>5
  <2> QED
    BY <2>1, <2>2
<1>20. CASE Returned \/ UNCHANGED vars
  <2>1. UNCHANGED <<pc, forward, prev_node, at, path, found, method, front, back>>
    BY <1>20 DEF Returned, vars
  <2>2. InTurn' <=> InTurn
    BY <2>1 DEF InTurn
  <2> QED
    BY <1>5, <1>8, <2>1, <2>2
<1> QED
  BY <1>10, <1>11, <1>12, <1>13, <1>14, <1>15, <1>16, <1>17, <1>18, <1>19, <1>20
     DEF Next, Search

\* Every search keeps the types, and the key of a node in the heap is its
\* distance with the straight distance to the target, on every network.
THEOREM SearchTypes == Spec => []TypeOK
<1>1. SearchTyped => TypeOK
  BY DEF SearchTyped
<1> QED
  BY <1>1, TypedInit, TypedStep, PTL DEF Spec

-----------------------------------------------------------------------------
(***************************************************************************)
(* Both fronts stay right: the one from the source where the heuristic is  *)
(* sound, the one from the target, which has none, always.                 *)
(***************************************************************************)
FrontsRight ==
  /\ Sound => FrontOK(graph, H, source, front)
  /\ FrontOK(Reversed(graph), Zero, target, back)

LEMMA SoundConsistent ==
  ASSUME SearchTyped, Sound
  PROVE  Consistent(graph, H)
<1>1. /\ graph \in Graph /\ \A v \in Node : H[v] = Heuristic(v)
  BY Typed
<1>2. place \in [Node -> Nat] /\ target \in Node
  BY DEF SearchTyped, TypeOK
<1> SUFFICES ASSUME NEW e \in EdgeIndex
             PROVE  H[graph[e].source] <= graph[e].length + H[graph[e].target]
  BY DEF Consistent
<1> DEFINE s == graph[e].source
           t == graph[e].target
<1>3. s \in Node /\ t \in Node /\ graph[e].length \in Nat
  BY <1>1, EdgeTypes
<1>4. /\ method = "astar" => /\ place[s] - place[t] <= graph[e].length
                             /\ place[t] - place[s] <= graph[e].length
      /\ place[s] \in Nat /\ place[t] \in Nat /\ place[target] \in Nat
  BY <1>2, <1>3 DEF Sound, Straight
<1>5. H[s] = Heuristic(s) /\ H[t] = Heuristic(t)
  BY <1>1, <1>3
<1> HIDE DEF s, t
<1>6. Heuristic(s) <= graph[e].length + Heuristic(t)
  <2>1. CASE method # "astar"
    BY <1>3, <2>1 DEF Heuristic
  <2>2. CASE method = "astar"
    <3>1. /\ Heuristic(s) = IF place[s] < place[target] THEN place[target] - place[s]
                            ELSE place[s] - place[target]
          /\ Heuristic(t) = IF place[t] < place[target] THEN place[target] - place[t]
                            ELSE place[t] - place[target]
      BY <2>2 DEF Heuristic
    <3> QED
      BY <1>3, <1>4, <2>2, <3>1
  <2> QED
    BY <2>1, <2>2
<1> QED
  BY <1>5, <1>6 DEF s, t

LEMMA FrontsBegin == Init => FrontsRight
<1> SUFFICES ASSUME Init PROVE FrontsRight
  OBVIOUS
<1>1. SearchTyped
  BY TypedInit
<1>2. /\ H \in [Node -> Nat] /\ \A v \in Node : H[v] = Heuristic(v)
      /\ source \in Node /\ target \in Node /\ graph \in Graph
      /\ Zero \in [Node -> Nat] /\ Zero[target] = 0
  BY <1>1, Typed, NoHeuristic
<1>3. front = FrontAt(source, H[source]) /\ back = FrontAt(target, Zero[target])
  BY <1>2 DEF Init
<1>4. FrontOK(graph, H, source, FrontAt(source, H[source]))
  BY <1>2, FrontBegins
<1>5. FrontOK(Reversed(graph), Zero, target, FrontAt(target, Zero[target]))
  BY <1>2, FrontBegins
<1> QED
  BY <1>3, <1>4, <1>5 DEF FrontsRight

LEMMA FrontsStep ==
  ASSUME SearchTyped, FrontsRight, [Next]_vars
  PROVE  /\ FrontsRight'
         /\ Sound' <=> Sound
         /\ Sound => Lowered(front, front') \subseteq InQueue(front)
         /\ Lowered(back, back') \subseteq InQueue(back)
<1>1. /\ graph' = graph /\ place' = place /\ method' = method
      /\ source' = source /\ target' = target /\ H' = H /\ Zero' = Zero
  BY InputsKept DEF Zero
<1>2. /\ graph \in Graph /\ Reversed(graph) \in Graph /\ H \in [Node -> Nat]
      /\ source \in Node /\ target \in Node
      /\ Zero \in [Node -> Nat] /\ Consistent(Reversed(graph), Zero)
  BY Typed, NoHeuristic
<1>3. Sound' <=> Sound
  BY <1>1 DEF Sound, Straight
<1>4. ASSUME Sound
      PROVE  /\ FrontOK(graph, H, source, front')
             /\ Lowered(front, front') \subseteq InQueue(front)
  <2>1. FrontOK(graph, H, source, front) /\ Consistent(graph, H)
        /\ Moves(graph, H, front, front')
    BY <1>4, SoundConsistent, FrontMoves DEF FrontsRight
  <2> QED
    BY <1>2, <2>1, MovesOK
<1>5. /\ FrontOK(Reversed(graph), Zero, target, back')
      /\ Lowered(back, back') \subseteq InQueue(back)
  <2>1. FrontOK(Reversed(graph), Zero, target, back) /\ Moves(Reversed(graph), Zero, back, back')
    BY BackMoves DEF FrontsRight
  <2> QED
    BY <1>2, <2>1, MovesOK
<1>6. FrontsRight'
  BY <1>1, <1>3, <1>4, <1>5 DEF FrontsRight
<1> QED
  BY <1>3, <1>4, <1>5, <1>6

LEMMA FrontsInvariance == Spec => [](SearchTyped /\ FrontsRight)
<1>1. Init => SearchTyped /\ FrontsRight
  BY TypedInit, FrontsBegin
<1>2. SearchTyped /\ FrontsRight /\ [Next]_vars => SearchTyped' /\ FrontsRight'
  BY TypedStep, FrontsStep
<1> QED
  BY <1>1, <1>2, PTL DEF Spec

\* No search lowers the distance of a node that left the heap: decrease_key
\* always has its handle, and shortest_path_astar never pushes a node again
\* where the straight distances are below the lengths.
THEOREM LowersOnlyQueued == Spec => LoweredWhileQueued
<1>1. SearchTyped /\ FrontsRight /\ [Next]_vars =>
        [Sound => /\ Lowered(front, front') \subseteq InQueue(front)
                  /\ Lowered(back, back') \subseteq InQueue(back)]_vars
  BY FrontsStep
<1> QED
  BY <1>1, FrontsInvariance, PTL DEF Spec, LoweredWhileQueued

-----------------------------------------------------------------------------
(***************************************************************************)
(* The path.  Tracked back from t it leads from `at' to t, and its length  *)
(* is what the distances of the two leave; of a node that is not known     *)
(* nothing is tracked.                                                     *)
(***************************************************************************)
OneWay == {"dijkstra", "astar"}

Tracked(g, f, t, v, p) ==
  \/ f.dmap[t] = Absent /\ v = t /\ p = <<>>
  \/ /\ f.dmap[t] # Absent /\ f.dmap[v] # Absent
     /\ Leads(g, v, p) /\ EndFrom(g, v, p) = t
     /\ PathLength(g, p) + f.dmap[v] = f.dmap[t]

\* Followed forth, what was tracked before begins at the source.
Followed(g, s, f, v, p) ==
  \E b \in Node : /\ Leads(g, b, p) /\ EndFrom(g, b, p) = v
                  /\ p = <<>> \/ b = s \/ f.dmap[v] # Absent

ShortestPath(g, s, t, p) ==
  LET dist == DistanceFrom(g, s)[t] IN
  IF dist = Unreachable THEN p = <<>>
  ELSE Leads(g, s, p) /\ EndFrom(g, s, p) = t /\ PathLength(g, p) = dist

Joined(g, s, t, p) ==
  \/ p = <<>>
  \/ /\ Leads(g, g[p[1]].source, p)
     /\ g[p[1]].source = s \/ EndFrom(g, s, p) = t

PathInv ==
  /\ pc = "search" => path = <<>>
  /\ pc = "search" /\ method \in OneWay /\ Sound => Relaxed(graph, front)
  /\ pc = "track" /\ method \in OneWay /\ Sound =>
       /\ front.dmap[target] = DistanceFrom(graph, source)[target]
       /\ Tracked(graph, front, target, at, path)
  /\ pc = "track" /\ method = "bidirectional" =>
       Tracked(graph, front, prev_node, at, path)
  /\ pc = "follow" => Followed(graph, source, back, at, path)
  /\ pc = "done" /\ method \in OneWay /\ Sound =>
       ShortestPath(graph, source, target, path)
  /\ pc = "done" /\ method = "bidirectional" => Joined(graph, source, target, path)

LEMMA PathInvIsShort == PathInv => ShortestFound
<1> SUFFICES ASSUME PathInv PROVE ShortestFound
  OBVIOUS
<1>1. ShortestPath(graph, source, target, path) => Shortest
  BY DEF ShortestPath, Shortest, Leads, LeadsFrom, EndFrom, EndOf
<1>2. Joined(graph, source, target, path) => EdgesJoin
  BY DEF Joined, EdgesJoin, Leads, LeadsFrom, EndFrom, EndOf
<1>3. method \in PathMethods => method \in OneWay \/ method = "bidirectional"
  BY DEF PathMethods, OneWay
<1>4. "bidirectional" \notin OneWay
  BY DEF OneWay
<1> QED
  BY <1>1, <1>2, <1>3, <1>4 DEF PathInv, ShortestFound

LEMMA NothingTracked ==
  ASSUME NEW g \in Graph, NEW f \in Front, NEW t \in Node
  PROVE  Tracked(g, f, t, t, <<>>)
<1>1. Leads(g, t, <<>>) /\ EndFrom(g, t, <<>>) = t
  BY DEF Leads, EndFrom
<1>2. PathLength(g, <<>>) = 0
  BY NoPathLength
<1>3. f.dmap[t] # Absent => f.dmap[t] \in Nat
  BY DEF Front
<1>4. f.dmap[t] # Absent => PathLength(g, <<>>) + f.dmap[t] = f.dmap[t]
  BY <1>2, <1>3
<1> QED
  BY <1>1, <1>4 DEF Tracked

LEMMA PathBegins == Init => PathInv
<1> SUFFICES ASSUME Init PROVE PathInv
  OBVIOUS
<1>1. SearchTyped
  BY TypedInit
<1>2. /\ graph \in Graph /\ source \in Node /\ target \in Node
      /\ H \in [Node -> Nat] /\ \A v \in Node : H[v] = Heuristic(v)
  BY <1>1, Typed
<1>3. path = <<>> /\ (pc = "search" \/ (pc = "done" /\ source = target))
  BY DEF Init
<1>4. Relaxed(graph, front)
  <2>1. front = FrontAt(source, H[source])
    BY <1>2 DEF Init
  <2>2. SettledIn(FrontAt(source, H[source])) = {}
    BY <1>2, FrontBegins
  <2> QED
    BY <2>1, <2>2 DEF Relaxed, RelaxedWithin
<1>5. source = target => ShortestPath(graph, source, target, path)
  <2> SUFFICES ASSUME source = target
               PROVE  ShortestPath(graph, source, source, <<>>)
    BY <1>3
  <2>1. DistanceFrom(graph, source)[source] = 0
    <3>1. HasRoute(graph, source, source, 0)
      BY <1>2, EmptyRoute
    <3>2. /\ DistanceFrom(graph, source)[source] \in Nat \cup {Unreachable}
          /\ DistanceFrom(graph, source)[source] # Unreachable
          /\ DistanceFrom(graph, source)[source] <= 0
      BY <1>2, <3>1, DistanceIsLeast
    <3> QED
      BY <3>2
  <2>2. Leads(graph, source, <<>>) /\ EndFrom(graph, source, <<>>) = source
    BY DEF Leads, EndFrom
  <2>3. PathLength(graph, <<>>) = 0
    BY <1>2, NoPathLength
  <2> QED
    BY <2>1, <2>2, <2>3 DEF ShortestPath, Unreachable
<1>6. Joined(graph, source, target, path)
  BY <1>3 DEF Joined
<1> QED
  BY <1>3, <1>4, <1>5, <1>6 DEF PathInv

LEMMA AllRelaxed ==
  ASSUME NEW g \in Graph, NEW h \in [Node -> Nat], Consistent(g, h),
         NEW s \in Node, NEW f, FrontOK(g, h, s, f), NEW u \in InQueue(f),
         \A v \in InQueue(f) : f.heap[u] <= f.heap[v],
         NEW a, Turn(h, f, u, AllLengths(g, u), a), Relaxed(g, f)
  PROVE  Relaxed(g, a)
<1> DEFINE L == AllLengths(g, u)
<1>1. L \in [Node -> SUBSET Nat] /\ \A v \in Node : L[v] = EdgeLengths(g, u, v)
  BY AllLengthsTyped
<1> HIDE DEF L
<1>2. Turn(h, f, u, L, a)
  BY DEF L
<1> SUFFICES ASSUME NEW b \in Nat PROVE RelaxedWithin(g, a, b)
  BY DEF Relaxed
<1>3. \A v \in Node : L[v] \subseteq EdgeLengths(g, u, v)
  BY <1>1
<1>4. \A v \in Node : \A l \in EdgeLengths(g, u, v) :
        f.dmap[u] + l <= b => \E m \in L[v] : m <= l
  <2> SUFFICES ASSUME NEW v \in Node, NEW l \in EdgeLengths(g, u, v)
               PROVE  \E m \in L[v] : m <= l
    OBVIOUS
  <2>1. l \in L[v] /\ l \in Nat
    BY <1>1
  <2>2. l <= l
    BY <2>1
  <2> QED
    BY <2>1, <2>2
<1>5. RelaxedWithin(g, f, b)
  BY DEF Relaxed
<1> QED
  BY <1>1, <1>2, <1>3, <1>4, <1>5, TurnRelaxes

LEMMA PathLengthType ==
  ASSUME NEW g \in Graph, NEW p \in Seq(EdgeIndex)
  PROVE  PathLength(g, p) \in Nat
<1>1. CASE p = <<>>
  BY <1>1, NoPathLength
<1>2. CASE p # <<>>
  <2>1. p[1] \in EdgeIndex
    BY <1>2
  <2> QED
    BY <2>1, PathLengthGrows
<1> QED
  BY <1>1, <1>2

(***************************************************************************)
(* One turn of back_track, and one of forward_track.                       *)
(***************************************************************************)
LEMMA TrackedOn ==
  ASSUME NEW g \in Graph, NEW h, NEW s \in Node, NEW f, FrontOK(g, h, s, f),
         NEW t \in Node, NEW v \in Node, NEW p, Tracked(g, f, t, v, p),
         f.dmap[v] # Absent, v # s
  PROVE  LET u == f.via[v] IN
         Tracked(g, f, t, u, << GetEdgeIndex(g, u, v, Between(f, u, v)) >> \o p)
<1> DEFINE u == f.via[v]
           c == Between(f, u, v)
           e == GetEdgeIndex(g, u, v, c)
<1>1. f.dmap \in [Node -> Nat \cup {Absent}]
  BY DEF FrontOK, FrontTyped, Front
<1>2. u \in SettledIn(f) /\ EdgesOfCost(g, u, v, f.dmap[v] - f.dmap[u]) # {}
  BY DEF FrontOK, Rooted
<1>3. u \in Node /\ f.dmap[u] # Absent /\ c = f.dmap[v] - f.dmap[u]
  BY <1>2 DEF SettledIn, Between
<1> HIDE DEF c, u
<1>4. e \in EdgesOfCost(g, u, v, c)
  BY <1>2, <1>3, GetEdgeIndexFinds
<1> HIDE DEF e
<1>5. e \in EdgeIndex /\ g[e].source = u /\ g[e].target = v /\ g[e].length = c
  BY <1>4 DEF EdgesOfCost, OutEdges
<1>6. /\ f.dmap[t] # Absent /\ Leads(g, v, p) /\ EndFrom(g, v, p) = t
      /\ PathLength(g, p) + f.dmap[v] = f.dmap[t]
  BY DEF Tracked
<1>7. p \in Seq(EdgeIndex)
  BY <1>6 DEF Leads
<1>8. PathLength(g, p) \in Nat /\ f.dmap[v] \in Nat /\ f.dmap[u] \in Nat
  BY <1>1, <1>3, <1>7, PathLengthType
<1>9. PathLength(g, << e >> \o p) = c + PathLength(g, p)
  BY <1>5, <1>7, PathLengthBefore
<1>10. PathLength(g, << e >> \o p) + f.dmap[u] = f.dmap[t]
  BY <1>3, <1>6, <1>8, <1>9
<1>11. Leads(g, u, << e >> \o p) /\ EndFrom(g, u, << e >> \o p) = t
  BY <1>5, <1>6, LeadsBefore
<1>12. Tracked(g, f, t, u, << e >> \o p)
  BY <1>3, <1>6, <1>10, <1>11 DEF Tracked
<1> QED
  BY <1>12 DEF e, u, c

LEMMA FollowedOn ==
  ASSUME NEW g \in Graph, NEW h, NEW t \in Node, NEW f,
         FrontOK(Reversed(g), h, t, f), NEW s,
         NEW v \in Node, NEW p, Followed(g, s, f, v, p),
         f.dmap[v] # Absent, v # t
  PROVE  LET u == f.via[v] IN
         Followed(g, s, f, u, Append(p, GetEdgeIndex(g, v, u, Between(f, u, v))))
<1> DEFINE u == f.via[v]
           c == Between(f, u, v)
           e == GetEdgeIndex(g, v, u, c)
<1>2. u \in SettledIn(f) /\ EdgesOfCost(Reversed(g), u, v, f.dmap[v] - f.dmap[u]) # {}
  BY DEF FrontOK, Rooted
<1>3. u \in Node /\ f.dmap[u] # Absent /\ c = f.dmap[v] - f.dmap[u]
  BY <1>2 DEF SettledIn, Between
<1> HIDE DEF c, u
<1>4. e \in EdgesOfCost(g, v, u, c)
  BY <1>2, <1>3, GetEdgeIndexFinds, ReversedGraph
<1> HIDE DEF e
<1>5. e \in EdgeIndex /\ g[e].source = v /\ g[e].target = u
  BY <1>4 DEF EdgesOfCost, OutEdges
<1>6. PICK b \in Node : /\ Leads(g, b, p) /\ EndFrom(g, b, p) = v
                        /\ p = <<>> \/ b = s \/ f.dmap[v] # Absent
  BY DEF Followed
<1>7. Leads(g, b, Append(p, e)) /\ EndFrom(g, b, Append(p, e)) = u
  BY <1>5, <1>6, LeadsOnward
<1>8. Followed(g, s, f, u, Append(p, e))
  BY <1>3, <1>7 DEF Followed
<1> QED
  BY <1>8 DEF e, u, c

LEMMA PathSearching ==
  ASSUME SearchTyped, FrontsRight, PathInv, ExpandOneWay \/ ExhaustedOneWay, Sound
  PROVE  /\ pc' = "search" => Relaxed(graph, front')
         /\ pc' = "track" =>
              /\ front'.dmap[target] = DistanceFrom(graph, source)[target]
              /\ Tracked(graph, front', target, at', path')
<1>1. /\ graph \in Graph /\ H \in [Node -> Nat] /\ H[target] = 0
      /\ source \in Node /\ target \in Node
      /\ InQueue(front) # {} => Top(front) \in InQueue(front)
      /\ \A v \in InQueue(front) : front.heap[Top(front)] <= front.heap[v]
  BY Typed
<1>2. /\ Consistent(graph, H) /\ FrontOK(graph, H, source, front)
      /\ Relaxed(graph, front) /\ path = <<>> /\ pc = "search"
  BY SoundConsistent DEF FrontsRight, PathInv, ExpandOneWay, ExhaustedOneWay, OneWay
<1>3. front \in Front /\ path' = path
  BY DEF SearchTyped, TypeOK, ExpandOneWay, ExhaustedOneWay
<1>4. CASE ExpandOneWay
  <2> DEFINE u == Top(front)
  <2>1. InQueue(front) # {}
    BY <1>4 DEF ExpandOneWay
  <2>2. CASE u = target
    <3>1. front' = Taken(front, u) /\ pc' = "track" /\ at' = target
      BY <1>4, <2>2 DEF ExpandOneWay, Track
    <3>2. front.dmap[target] = DistanceFrom(graph, source)[target]
      BY <1>1, <1>2, <2>1, <2>2, ExactAtTop
    <3>3. front' \in Front /\ front'.dmap = front.dmap
      BY <1>1, <2>1, <3>1, TakenTyped DEF SearchTyped, FrontTyped
    <3>4. Tracked(graph, front', target, target, <<>>)
      BY <1>1, <3>3, NothingTracked
    <3> QED
      BY <1>2, <1>3, <3>1, <3>2, <3>3, <3>4
  <2>3. CASE u # target
    <3>1. /\ front' = Expanded(front, u, [v \in Node |-> LengthsTo(u, v)])
          /\ pc' = pc
      BY <1>4, <2>3 DEF ExpandOneWay
    <3>2. Turn(H, front, u, AllLengths(graph, u), front')
      BY <2>1, <3>1, ForwardTurn
    <3>3. Relaxed(graph, front')
      BY <1>1, <1>2, <2>1, <3>2, AllRelaxed
    <3> QED
      BY <1>2, <3>1, <3>3
  <2> QED
    BY <2>2, <2>3
<1>5. CASE ExhaustedOneWay
  <2>1. InQueue(front) = {} /\ front' = front /\ pc' = "track" /\ at' = target
    BY <1>5 DEF ExhaustedOneWay, Track
  <2>2. front.dmap[target] = DistanceFrom(graph, source)[target]
    BY <1>1, <1>2, <2>1, ExactAtTop
  <2>3. Tracked(graph, front, target, target, <<>>)
    BY <1>1, <1>3, NothingTracked
  <2> QED
    BY <1>2, <1>3, <2>1, <2>2, <2>3
<1> QED
  BY <1>4, <1>5

LEMMA PathStep ==
  ASSUME SearchTyped, FrontsRight, PathInv, [Next]_vars
  PROVE  PathInv'
<1>1. /\ graph' = graph /\ place' = place /\ method' = method
      /\ source' = source /\ target' = target
      /\ Sound' <=> Sound
  BY InputsKept, FrontsStep
<1>2. graph \in Graph /\ source \in Node /\ target \in Node /\ at \in Node
  BY Typed DEF SearchTyped, TypeOK
<1>3. at' \in Node /\ front' \in Front /\ back' \in Front
      /\ front \in Front /\ back \in Front
  BY TypedStep DEF SearchTyped, TypeOK
<1>4. /\ method \in OneWay <=> method \in {"dijkstra", "astar"}
      /\ method \in OneWay => method # "bidirectional"
      /\ method \in PathMethods => method \in OneWay \/ method = "bidirectional"
      /\ method = "bidirectional" => Sound
  BY DEF OneWay, PathMethods, Sound
<1> SUFFICES
     /\ pc' = "search" => path' = <<>>
     /\ pc' = "search" /\ method \in OneWay /\ Sound => Relaxed(graph, front')
     /\ pc' = "track" /\ method \in OneWay /\ Sound =>
          /\ front'.dmap[target] = DistanceFrom(graph, source)[target]
          /\ Tracked(graph, front', target, at', path')
     /\ pc' = "track" /\ method = "bidirectional" =>
          Tracked(graph, front', prev_node', at', path')
     /\ pc' = "follow" => Followed(graph, source, back', at', path')
     /\ pc' = "done" /\ method \in OneWay /\ Sound =>
          ShortestPath(graph, source, target, path')
     /\ pc' = "done" /\ method = "bidirectional" => Joined(graph, source, target, path')
  BY <1>1 DEF PathInv
<1>5. CASE ExpandOneWay \/ ExhaustedOneWay
  <2>1. pc' \in {"search", "track"} /\ path' = path /\ path = <<>> /\ method \in OneWay
    BY <1>4, <1>5 DEF ExpandOneWay, ExhaustedOneWay, Track, PathInv
  <2> QED
    BY <1>4, <1>5, <2>1, PathSearching
<1>6. CASE ExpandForward \/ ExpandBackward \/ ExhaustedInTurn
  <2>1. method = "bidirectional" /\ path' = path /\ path = <<>>
    BY <1>6 DEF ExpandForward, ExpandBackward, ExhaustedInTurn, InTurn, PathInv
  <2>2. \/ pc' = "search"
        \/ pc' = "track" /\ at' = prev_node'
    BY <1>6 DEF ExpandForward, ExpandBackward, ExhaustedInTurn, InTurn, Track
  <2>3. Tracked(graph, front', at', at', <<>>)
    BY <1>2, <1>3, NothingTracked
  <2> QED
    BY <1>4, <2>1, <2>2, <2>3
<1>7. CASE TrackBack
  <2>1. pc = "track" /\ front' = front /\ prev_node' = prev_node /\ back' = back
        /\ method \in PathMethods
    BY <1>7 DEF TrackBack, SearchTyped
  <2>2. Sound => FrontOK(graph, H, source, front)
    BY DEF FrontsRight
  <2>3. CASE front.dmap[at] # Absent /\ at # source
    <3> DEFINE u == front.via[at]
               e == GetEdgeIndex(graph, u, at, Between(front, u, at))
    <3>1. path' = << e >> \o path /\ at' = u /\ pc' = pc
      BY <1>7, <2>3 DEF TrackBack
    <3>2. \A t \in Node : Sound /\ Tracked(graph, front, t, at, path) =>
                            Tracked(graph, front, t, u, << e >> \o path)
      BY <1>2, <2>2, <2>3, TrackedOn
    <3> HIDE DEF e, u
    <3>3. CASE method = "bidirectional"
      <4>1. prev_node \in Node /\ Tracked(graph, front, prev_node, at, path)
        BY <2>1, <3>3 DEF PathInv, SearchTyped
      <4> QED
        BY <1>4, <2>1, <3>1, <3>2, <3>3, <4>1
    <3>4. CASE method \in OneWay
      BY <1>2, <1>4, <2>1, <3>1, <3>2, <3>4 DEF PathInv
    <3> QED
      BY <1>4, <2>1, <3>3, <3>4
  <2>4. CASE ~ (front.dmap[at] # Absent /\ at # source)
    <3>1. TrackDone /\ path' = path
      BY <1>7, <2>4 DEF TrackBack
    <3>2. CASE method = "bidirectional"
      <4>1. prev_node \in Node /\ Tracked(graph, front, prev_node, at, path)
        BY <2>1, <3>2 DEF PathInv, SearchTyped
      <4>2. pc' = "follow" /\ at' = prev_node
        BY <3>1, <3>2 DEF TrackDone
      <4>3. CASE path = <<>> /\ front.dmap[prev_node] = Absent
        <5>1. Leads(graph, prev_node, path) /\ EndFrom(graph, prev_node, path) = prev_node
          BY <4>3 DEF Leads, EndFrom
        <5>2. Followed(graph, source, back, prev_node, path)
          BY <4>1, <4>3, <5>1 DEF Followed
        <5> QED
          BY <1>4, <2>1, <3>1, <3>2, <4>2, <5>2
      <4>4. CASE front.dmap[prev_node] # Absent
        <5>1. at = source /\ Leads(graph, at, path) /\ EndFrom(graph, at, path) = prev_node
          BY <2>4, <4>1, <4>4 DEF Tracked
        <5>2. Followed(graph, source, back, prev_node, path)
          BY <1>2, <5>1 DEF Followed
        <5> QED
          BY <1>4, <2>1, <3>1, <3>2, <4>2, <5>2
      <4> QED
        BY <4>1, <4>3, <4>4 DEF Tracked
    <3>3. CASE method \in OneWay
      <4>1. pc' = "done"
        BY <1>4, <3>1, <3>3 DEF TrackDone
      <4>2. ASSUME Sound PROVE ShortestPath(graph, source, target, path)
        <5> DEFINE D == DistanceFrom(graph, source)[target]
        <5>1. front.dmap[target] = D /\ Tracked(graph, front, target, at, path)
          BY <2>1, <3>3, <4>2 DEF PathInv
        <5> HIDE DEF D
        <5>2. CASE front.dmap[target] = Absent
          <6>1. path = <<>> /\ D = Unreachable
            BY <5>1, <5>2 DEF Tracked, Absent, Unreachable
          <6> QED
            BY <6>1 DEF ShortestPath, D
        <5>3. CASE front.dmap[target] # Absent
          <6>1. /\ at = source /\ Leads(graph, source, path)
                /\ EndFrom(graph, source, path) = target
                /\ PathLength(graph, path) + front.dmap[source] = D
            BY <2>4, <5>1, <5>3 DEF Tracked
          <6>2. front.dmap[source] = 0
            BY <2>2, <4>2 DEF FrontOK
          <6>3. PathLength(graph, path) \in Nat
            BY <1>2, <6>1, PathLengthType DEF Leads
          <6>4. PathLength(graph, path) = D /\ D # Unreachable
            BY <6>1, <6>2, <6>3 DEF Unreachable
          <6> QED
            BY <6>1, <6>4 DEF ShortestPath, D
        <5> QED
          BY <5>2, <5>3
      <4> QED
        BY <1>4, <3>1, <3>3, <4>1, <4>2
    <3> QED
      BY <1>4, <2>1, <3>2, <3>3
  <2> QED
    BY <2>3, <2>4
<1>8. CASE TrackForward
  <2>1. pc = "follow" /\ back' = back /\ method = "bidirectional"
        /\ Followed(graph, source, back, at, path)
    BY <1>8 DEF TrackForward, SearchTyped, PathInv
  <2>2. CASE back.dmap[at] # Absent /\ at # target
    <3> DEFINE u == back.via[at]
               e == GetEdgeIndex(graph, at, u, Between(back, u, at))
    <3>1. path' = Append(path, e) /\ at' = u /\ pc' = pc
      BY <1>8, <2>2 DEF TrackForward
    <3>2. Followed(graph, source, back, u, Append(path, e))
      BY <1>2, <2>1, <2>2, FollowedOn DEF FrontsRight
    <3> HIDE DEF e, u
    <3> QED
      BY <1>4, <2>1, <3>1, <3>2
  <2>3. CASE ~ (back.dmap[at] # Absent /\ at # target)
    <3>1. pc' = "done" /\ path' = path
      BY <1>8, <2>3 DEF TrackForward
    <3>2. PICK b \in Node : /\ Leads(graph, b, path) /\ EndFrom(graph, b, path) = at
                            /\ path = <<>> \/ b = source \/ back.dmap[at] # Absent
      BY <2>1 DEF Followed
    <3>3. path # <<>> => graph[path[1]].source = b
      BY <3>2 DEF Leads
    <3>4. path # <<>> => EndFrom(graph, source, path) = at
      BY <3>2 DEF EndFrom
    <3>5. Joined(graph, source, target, path)
      BY <2>3, <3>2, <3>3, <3>4 DEF Joined
    <3> QED
      BY <1>4, <2>1, <3>1, <3>5
  <2> QED
    BY <2>2, <2>3
<1>9. CASE ExpandToTarget \/ SweepFrom \/ SweepTo
  <2>1. path' = path /\ method \notin PathMethods
    BY <1>9 DEF ExpandToTarget, SweepFrom, SweepTo, SearchTyped, PathMethods
  <2>2. method \notin OneWay /\ method # "bidirectional"
    BY <2>1 DEF OneWay, PathMethods
  <2>3. /\ pc' = "search" => pc = "search"
        /\ pc' # "follow"
    BY <1>9 DEF ExpandToTarget, SweepFrom, SweepTo
  <2> QED
    BY <2>1, <2>2, <2>3 DEF PathInv
<1>10. CASE Returned \/ UNCHANGED vars
  <2>1. UNCHANGED <<pc, path, front, back, at, prev_node>>
    BY <1>10 DEF Returned, vars
  <2> QED
    BY <2>1 DEF PathInv
<1> QED
  BY <1>5, <1>6, <1>7, <1>8, <1>9, <1>10 DEF Next, Search

\* dijkstra and A* return a path of the least length, and none only where
\* there is no way (A* wherever straight distances are below the lengths);
\* what the bidirectional search returns is connected and begins at the
\* source or ends at the target.
THEOREM ReturnsShortest == Spec => []ShortestFound
<1>1. Init => PathInv
  BY PathBegins
<1>2. SearchTyped /\ FrontsRight /\ PathInv /\ [Next]_vars => PathInv'
  BY PathStep
<1> QED
  BY <1>1, <1>2, FrontsInvariance, PathInvIsShort, PTL DEF Spec

-----------------------------------------------------------------------------
(***************************************************************************)
(* The searches within a distance.  Behind are the edges on short enough   *)
(* ways from s; the sweep from the source has found those of the nodes it  *)
(* took, and the sweep to the target adds to what is behind only edges it  *)
(* reached, and of every edge it reached one as short.                     *)
(***************************************************************************)
Behind(g, s, b) ==
  {e \in EdgeIndex : LET D == DistanceFrom(g, s)[g[e].source] IN
                     D # Unreachable /\ D + g[e].length <= b}

SweptFrom(g, f, b) ==
  {e \in EdgeIndex : /\ g[e].source \in SettledIn(f)
                     /\ f.dmap[g[e].source] + g[e].length <= b}

\* The edge leads to a node of the front from the target, short enough.
SweptTo(g, f, b, e) ==
  /\ e \in EdgeIndex /\ g[e].target \in SettledIn(f)
  /\ f.dmap[g[e].target] + g[e].length <= b

AsShort(g, i, e) ==
  /\ g[i].source = g[e].source /\ g[i].target = g[e].target
  /\ g[i].length <= g[e].length

Sweeps(g, f, b, behind, edges) ==
  /\ behind \subseteq edges
  /\ \A e \in edges : e \in behind \/ SweptTo(g, f, b, e)
  /\ \A e \in EdgeIndex : SweptTo(g, f, b, e) => \E i \in edges : AsShort(g, i, e)

KnownWithin(g, t, f, b) ==
  \A v \in Node :
    LET D == DistanceFrom(g, v)[t] IN
    IF D # Unreachable /\ D <= b THEN f.dmap[v] = D
    ELSE f.dmap[v] = Absent \/ f.dmap[v] > b

FoundWithin(g, s, t, b, edges) ==
  LET before == {e \in EdgeIndex :
                   LET D == DistanceFrom(g, g[e].target)[t] IN
                   D # Unreachable /\ D + g[e].length <= b} IN
  /\ Behind(g, s, b) \subseteq edges /\ edges \subseteq Behind(g, s, b) \cup before
  /\ \A e \in before : \E i \in edges : AsShort(g, i, e)

WithinInv ==
  /\ pc = "search" /\ method = "single_target" => Relaxed(Reversed(graph), back)
  /\ pc = "search" /\ method = "within" =>
       /\ RelaxedWithin(graph, front, delta)
       /\ found = SweptFrom(graph, front, delta)
       /\ SettledIn(back) = {}
  /\ pc = "to" =>
       /\ RelaxedWithin(Reversed(graph), back, delta)
       /\ Sweeps(graph, back, delta, Behind(graph, source, delta), found)
  /\ pc = "done" /\ method = "single_target" => KnownWithin(graph, target, back, delta)
  /\ pc = "done" /\ method = "within" =>
       FoundWithin(graph, source, target, delta, found)

LEMMA WithinInvIsRight == SearchTyped /\ WithinInv => WithinDistance
<1> SUFFICES ASSUME SearchTyped, WithinInv PROVE WithinDistance
  OBVIOUS
<1>0. graph \in Graph /\ target \in Node /\ delta \in Nat /\ source \in Node
  BY Typed
<1>1. ASSUME KnownWithin(graph, target, back, delta)
      PROVE  \A v \in Node :
               IF InReach(v, target, 0) THEN back.dmap[v] = DistanceFrom(graph, v)[target]
               ELSE back.dmap[v] = Absent \/ back.dmap[v] > delta
  <2> SUFFICES ASSUME NEW v \in Node
               PROVE  IF InReach(v, target, 0) THEN back.dmap[v] = DistanceFrom(graph, v)[target]
                      ELSE back.dmap[v] = Absent \/ back.dmap[v] > delta
    OBVIOUS
  <2> DEFINE D == DistanceFrom(graph, v)[target]
  <2>1. D \in Nat \cup {Unreachable}
    BY <1>0, DistanceIsLeast
  <2>2. IF D # Unreachable /\ D <= delta THEN back.dmap[v] = D
        ELSE back.dmap[v] = Absent \/ back.dmap[v] > delta
    BY <1>1 DEF KnownWithin
  <2>3. InReach(v, target, 0) <=> D # Unreachable /\ D + 0 <= delta
    BY DEF InReach
  <2> HIDE DEF D
  <2>4. D # Unreachable => D + 0 = D
    BY <2>1
  <2>5. InReach(v, target, 0) <=> D # Unreachable /\ D <= delta
    BY <2>3, <2>4
  <2>6. IF InReach(v, target, 0) THEN back.dmap[v] = D
        ELSE back.dmap[v] = Absent \/ back.dmap[v] > delta
    BY <2>2, <2>5
  <2> QED
    BY <2>6 DEF D
<1>2. FoundWithin(graph, source, target, delta, found) =>
         LET behind == {e \in EdgeIndex : InReach(source, graph[e].source, graph[e].length)}
             before == {e \in EdgeIndex : InReach(graph[e].target, target, graph[e].length)} IN
         /\ behind \subseteq found /\ found \subseteq behind \cup before
         /\ \A e \in before : \E i \in found :
              /\ graph[i].source = graph[e].source /\ graph[i].target = graph[e].target
              /\ graph[i].length <= graph[e].length
  BY DEF FoundWithin, Behind, AsShort, InReach
<1> QED
  BY <1>1, <1>2 DEF WithinInv, WithinDistance

LEMMA WithinBegins == Init => WithinInv
<1> SUFFICES ASSUME Init PROVE WithinInv
  OBVIOUS
<1>1. SearchTyped
  BY TypedInit
<1>2. /\ graph \in Graph /\ source \in Node /\ target \in Node
      /\ H \in [Node -> Nat] /\ \A v \in Node : H[v] = Heuristic(v)
      /\ Zero \in [Node -> Nat] /\ Zero[target] = 0
  BY <1>1, Typed, NoHeuristic
<1>3. pc # "to" /\ (method \in WithinMethods => pc = "search") /\ found = {}
  BY DEF Init, PathMethods, WithinMethods
<1>4. SettledIn(front) = {}
  <2>1. front = FrontAt(source, H[source])
    BY <1>2 DEF Init
  <2>2. SettledIn(FrontAt(source, H[source])) = {}
    BY <1>2, FrontBegins
  <2> QED
    BY <2>1, <2>2
<1>5. SettledIn(back) = {}
  <2>1. back = FrontAt(target, Zero[target])
    BY <1>2 DEF Init
  <2>2. SettledIn(FrontAt(target, Zero[target])) = {}
    BY <1>2, FrontBegins
  <2> QED
    BY <2>1, <2>2
<1>6. /\ Relaxed(Reversed(graph), back) /\ RelaxedWithin(graph, front, delta)
      /\ SweptFrom(graph, front, delta) = {}
  BY <1>4, <1>5 DEF Relaxed, RelaxedWithin, SweptFrom
<1> QED
  BY <1>3, <1>5, <1>6 DEF WithinInv, WithinMethods

(***************************************************************************)
(* A sweep that is over found the edges behind the source.                 *)
(***************************************************************************)
LEMMA SweptIsBehind ==
  ASSUME NEW g \in Graph, NEW s \in Node, NEW f, FrontOK(g, Zero, s, f),
         NEW b \in Nat, RelaxedWithin(g, f, b),
         \A u \in InQueue(f) : f.heap[u] > b
  PROVE  SweptFrom(g, f, b) = Behind(g, s, b)
<1> SUFFICES ASSUME NEW e \in EdgeIndex
             PROVE  e \in SweptFrom(g, f, b) <=> e \in Behind(g, s, b)
  BY DEF SweptFrom, Behind
<1> DEFINE v == g[e].source
           n == g[e].length
           D == DistanceFrom(g, s)[v]
<1>1. v \in Node /\ n \in Nat
  BY EdgeTypes
<1>2. /\ D # Unreachable /\ D <= b => v \in SettledIn(f) /\ f.dmap[v] = D
      /\ f.dmap[v] # Absent => f.dmap[v] \in Nat /\ D # Unreachable /\ D <= f.dmap[v]
      /\ D \in Nat \cup {Unreachable}
  BY <1>1, ExactWithin
<1>3. /\ e \in SweptFrom(g, f, b) <=> v \in SettledIn(f) /\ f.dmap[v] + n <= b
      /\ e \in Behind(g, s, b) <=> D # Unreachable /\ D + n <= b
  BY DEF SweptFrom, Behind
<1> HIDE DEF D, n, v
<1>4. ASSUME v \in SettledIn(f), f.dmap[v] + n <= b
      PROVE  D # Unreachable /\ D + n <= b
  BY <1>1, <1>2, <1>4 DEF SettledIn
<1>5. ASSUME D # Unreachable, D + n <= b
      PROVE  v \in SettledIn(f) /\ f.dmap[v] + n <= b
  <2>1. D \in Nat /\ D <= b
    BY <1>1, <1>2, <1>5
  <2> QED
    BY <1>2, <1>5, <2>1
<1> QED
  BY <1>3, <1>4, <1>5

(***************************************************************************)
(* A front from the target that is over knows the distances to the target. *)
(***************************************************************************)
LEMMA BackExact ==
  ASSUME NEW g \in Graph, NEW t \in Node, NEW f, FrontOK(Reversed(g), Zero, t, f),
         NEW b \in Nat, RelaxedWithin(Reversed(g), f, b),
         \A u \in InQueue(f) : f.heap[u] > b,
         NEW v \in Node
  PROVE  LET D == DistanceFrom(g, v)[t] IN
         /\ D # Unreachable /\ D <= b => v \in SettledIn(f) /\ f.dmap[v] = D
         /\ f.dmap[v] # Absent => f.dmap[v] \in Nat /\ D # Unreachable /\ D <= f.dmap[v]
         /\ D \in Nat \cup {Unreachable}
<1>1. DistanceFrom(g, v)[t] = DistanceFrom(Reversed(g), t)[v]
  BY DistanceBack
<1>2. Reversed(g) \in Graph
  BY ReversedGraph
<1> DEFINE E == DistanceFrom(Reversed(g), t)[v]
<1>3. /\ E # Unreachable /\ E <= b => v \in SettledIn(f) /\ f.dmap[v] = E
      /\ f.dmap[v] # Absent => f.dmap[v] \in Nat /\ E # Unreachable /\ E <= f.dmap[v]
      /\ E \in Nat \cup {Unreachable}
  BY <1>2, ExactWithin
<1> QED
  BY <1>1, <1>3

LEMMA BackKnows ==
  ASSUME NEW g \in Graph, NEW t \in Node, NEW f, FrontOK(Reversed(g), Zero, t, f),
         NEW b \in Nat, RelaxedWithin(Reversed(g), f, b),
         \A u \in InQueue(f) : f.heap[u] > b
  PROVE  KnownWithin(g, t, f, b)
<1> SUFFICES ASSUME NEW v \in Node
             PROVE  LET D == DistanceFrom(g, v)[t] IN
                    IF D # Unreachable /\ D <= b THEN f.dmap[v] = D
                    ELSE f.dmap[v] = Absent \/ f.dmap[v] > b
  BY DEF KnownWithin
<1> DEFINE D == DistanceFrom(g, v)[t]
<1>1. /\ D # Unreachable /\ D <= b => v \in SettledIn(f) /\ f.dmap[v] = D
      /\ f.dmap[v] # Absent => f.dmap[v] \in Nat /\ D # Unreachable /\ D <= f.dmap[v]
      /\ D \in Nat \cup {Unreachable}
  BY BackExact
<1> HIDE DEF D
<1>2. IF D # Unreachable /\ D <= b THEN f.dmap[v] = D
      ELSE f.dmap[v] = Absent \/ f.dmap[v] > b
  BY <1>1
<1> QED
  BY <1>2 DEF D

LEMMA SweepsFound ==
  ASSUME NEW g \in Graph, NEW s \in Node, NEW t \in Node, NEW f,
         FrontOK(Reversed(g), Zero, t, f),
         NEW b \in Nat, RelaxedWithin(Reversed(g), f, b),
         \A u \in InQueue(f) : f.heap[u] > b,
         NEW edges, Sweeps(g, f, b, Behind(g, s, b), edges)
  PROVE  FoundWithin(g, s, t, b, edges)
<1> DEFINE before == {e \in EdgeIndex :
                        LET D == DistanceFrom(g, g[e].target)[t] IN
                        D # Unreachable /\ D + g[e].length <= b}
<1>1. ASSUME NEW e \in EdgeIndex
      PROVE  e \in before <=> SweptTo(g, f, b, e)
  <2> DEFINE v == g[e].target
             n == g[e].length
             D == DistanceFrom(g, v)[t]
  <2>1. v \in Node /\ n \in Nat
    BY EdgeTypes
  <2>2. /\ D # Unreachable /\ D <= b => v \in SettledIn(f) /\ f.dmap[v] = D
        /\ f.dmap[v] # Absent => f.dmap[v] \in Nat /\ D # Unreachable /\ D <= f.dmap[v]
        /\ D \in Nat \cup {Unreachable}
    BY <2>1, BackExact
  <2>3. /\ e \in before <=> D # Unreachable /\ D + n <= b
        /\ SweptTo(g, f, b, e) <=> v \in SettledIn(f) /\ f.dmap[v] + n <= b
    BY DEF SweptTo
  <2> HIDE DEF D, n, v, before
  <2>4. ASSUME v \in SettledIn(f), f.dmap[v] + n <= b
        PROVE  D # Unreachable /\ D + n <= b
    BY <2>1, <2>2, <2>4 DEF SettledIn
  <2>5. ASSUME D # Unreachable, D + n <= b
        PROVE  v \in SettledIn(f) /\ f.dmap[v] + n <= b
    <3>1. D \in Nat /\ D <= b
      BY <2>1, <2>2, <2>5
    <3> QED
      BY <2>2, <2>5, <3>1
  <2> QED
    BY <2>3, <2>4, <2>5
<1>2. \A e \in edges : SweptTo(g, f, b, e) => e \in EdgeIndex
  BY DEF SweptTo
<1>3. before \subseteq EdgeIndex
  OBVIOUS
<1>4. FoundWithin(g, s, t, b, edges) <=>
        /\ Behind(g, s, b) \subseteq edges /\ edges \subseteq Behind(g, s, b) \cup before
        /\ \A e \in before : \E i \in edges : AsShort(g, i, e)
  BY DEF FoundWithin
<1> HIDE DEF before
<1> QED
  BY <1>1, <1>2, <1>3, <1>4 DEF Sweeps

(***************************************************************************)
(* The steps of the two sweeps, and of the search to the target.           *)
(***************************************************************************)
LEMMA SweptOn ==
  ASSUME SearchTyped, FrontsRight, WithinInv, SweepFrom, ~ Beyond(front)
  PROVE  /\ RelaxedWithin(graph, front', delta)
         /\ found' = SweptFrom(graph, front', delta)
<1> DEFINE u == Top(front)
           L == WithinLengths(graph, u, front.dmap[u], delta)
<1>0. method = "within" /\ pc = "search"
  BY DEF SweepFrom
<1>1. /\ graph \in Graph /\ H = Zero /\ source \in Node /\ delta \in Nat
      /\ InQueue(front) # {} => u \in InQueue(front)
      /\ \A v \in InQueue(front) : front.heap[u] <= front.heap[v]
      /\ Zero \in [Node -> Nat] /\ Consistent(graph, Zero)
  BY <1>0, Typed, NoHeuristic
<1>2. FrontOK(graph, Zero, source, front)
  BY <1>0, <1>1 DEF FrontsRight, Sound
<1>3. /\ RelaxedWithin(graph, front, delta)
      /\ found = SweptFrom(graph, front, delta)
  BY <1>0 DEF WithinInv
<1>4. /\ InQueue(front) # {}
      /\ Turn(Zero, front, u, L, front')
      /\ found' = found \cup {e \in OutEdges(graph, u) :
                                graph[e].length \in L[graph[e].target]}
  BY <1>1, SweepFromTurn
<1>5. /\ L \in [Node -> SUBSET Nat]
      /\ \A v \in Node : L[v] = {l \in EdgeLengths(graph, u, v) :
                                   front.dmap[u] + l <= delta}
  BY <1>1, WithinLengthsTyped
<1> HIDE DEF L, u
<1>6. \A v \in Node : L[v] \subseteq EdgeLengths(graph, u, v)
  BY <1>5
<1>7. \A v \in Node : \A l \in EdgeLengths(graph, u, v) :
        front.dmap[u] + l <= delta => \E m \in L[v] : m <= l
  <2> SUFFICES ASSUME NEW v \in Node, NEW l \in EdgeLengths(graph, u, v),
                      front.dmap[u] + l <= delta
               PROVE  \E m \in L[v] : m <= l
    OBVIOUS
  <2>1. l \in L[v]
    BY <1>5
  <2>2. l \in Nat
    BY <1>5, <2>1
  <2> QED
    BY <2>1, <2>2
<1>8. u \in InQueue(front)
  BY <1>1, <1>4
<1>9. RelaxedWithin(graph, front', delta)
  BY <1>1, <1>2, <1>3, <1>4, <1>5, <1>6, <1>7, <1>8, TurnRelaxes
<1>10. /\ SettledIn(front') = SettledIn(front) \cup {u}
       /\ \A v \in SettledIn(front') : front'.dmap[v] = front.dmap[v]
  BY <1>1, <1>2, <1>4, <1>5, <1>6, <1>8, TurnOK
<1>11. ASSUME NEW e \in EdgeIndex
       PROVE  e \in found' <=> e \in SweptFrom(graph, front', delta)
  <2> DEFINE s == graph[e].source
             n == graph[e].length
  <2>1. e \in found <=> s \in SettledIn(front) /\ front.dmap[s] + n <= delta
    BY <1>3 DEF SweptFrom
  <2>2. e \in SweptFrom(graph, front', delta) <=>
          s \in SettledIn(front') /\ front'.dmap[s] + n <= delta
    BY DEF SweptFrom
  <2>3. e \in OutEdges(graph, u) <=> s = u
    BY DEF OutEdges
  <2>4. s = u => (n \in L[graph[e].target] <=> front.dmap[u] + n <= delta)
    <3> SUFFICES ASSUME s = u
                 PROVE  n \in L[graph[e].target] <=> front.dmap[u] + n <= delta
      OBVIOUS
    <3>1. graph[e].target \in Node
      BY <1>1, EdgeTypes
    <3>2. n \in EdgeLengths(graph, u, graph[e].target)
      BY <2>3 DEF EdgeLengths
    <3> QED
      BY <1>5, <3>1, <3>2
  <2>5. e \in found' <=> e \in found \/ (s = u /\ n \in L[graph[e].target])
    BY <1>4, <2>3
  <2>6. s \in SettledIn(front') => front'.dmap[s] = front.dmap[s]
    BY <1>10
  <2> HIDE DEF s, n
  <2> QED
    BY <1>10, <2>1, <2>2, <2>4, <2>5, <2>6
<1>12. found' \subseteq EdgeIndex /\ SweptFrom(graph, front', delta) \subseteq EdgeIndex
  BY <1>3, <1>4 DEF SweptFrom, OutEdges
<1>13. found' = SweptFrom(graph, front', delta)
  BY <1>11, <1>12
<1> QED
  BY <1>9, <1>13

LEMMA SweptToOn ==
  ASSUME SearchTyped, FrontsRight, WithinInv, SweepTo, ~ Beyond(back)
  PROVE  /\ RelaxedWithin(Reversed(graph), back', delta)
         /\ Sweeps(graph, back', delta, Behind(graph, source, delta), found')
<1> DEFINE v == Top(back)
           r == Reversed(graph)
           L == LeastWithin(r, v, back.dmap[v], delta)
           behind == Behind(graph, source, delta)
<1>0. method = "within" /\ pc = "to"
  BY DEF SweepTo, SearchTyped
<1>1. /\ graph \in Graph /\ r \in Graph /\ target \in Node /\ delta \in Nat
      /\ InQueue(back) # {} => v \in InQueue(back)
      /\ \A w \in InQueue(back) : back.heap[v] <= back.heap[w]
      /\ Zero \in [Node -> Nat] /\ Consistent(r, Zero)
  BY Typed, NoHeuristic
<1>2. FrontOK(r, Zero, target, back)
  BY DEF FrontsRight
<1>3. /\ RelaxedWithin(r, back, delta)
      /\ Sweeps(graph, back, delta, behind, found)
  BY <1>0 DEF WithinInv
<1>4. /\ InQueue(back) # {}
      /\ Turn(Zero, back, v, L, back')
      /\ found' = found \cup {ShortestEdge(u, v) : u \in {w \in Node : L[w] # {}}}
  BY SweepToTurn
<1>5. /\ L \in [Node -> SUBSET Nat]
      /\ \A u \in Node : L[u] = {l \in EdgeLengths(r, v, u) :
                                   l = Least(EdgeLengths(r, v, u))
                                     /\ back.dmap[v] + l <= delta}
  BY <1>1, LeastWithinTyped
<1>6. \A u \in Node : EdgeLengths(r, v, u) = LengthsTo(u, v)
  <2>1. \A u \in Node : EdgeLengths(r, v, u) = EdgeLengths(graph, u, v)
    BY <1>1, ReversedGraph
  <2>2. \A u \in Node : EdgeLengths(graph, u, v) = LengthsTo(u, v)
    BY DEF EdgeLengths, LengthsTo
  <2> QED
    BY <2>1, <2>2
<1> HIDE DEF L, v, r, behind
<1>7. v \in InQueue(back) /\ v \in Node /\ back.dmap[v] \in Nat
  BY <1>1, <1>2, <1>4 DEF FrontOK, FrontTyped, Front, InQueue
<1>8. \A u \in Node : L[u] \subseteq EdgeLengths(r, v, u)
  BY <1>5
<1>9. ASSUME NEW u \in Node, NEW l \in LengthsTo(u, v), back.dmap[v] + l <= delta
      PROVE  /\ Least(LengthsTo(u, v)) \in L[u]
             /\ Least(LengthsTo(u, v)) <= l
  <2>1. /\ Least(LengthsTo(u, v)) \in LengthsTo(u, v)
        /\ Least(LengthsTo(u, v)) \in Nat /\ l \in Nat
        /\ Least(LengthsTo(u, v)) <= l
    BY <1>1, ShortestEdgeFinds
  <2>2. back.dmap[v] + Least(LengthsTo(u, v)) <= delta
    BY <1>1, <1>7, <1>9, <2>1
  <2> QED
    BY <1>5, <1>6, <2>1, <2>2
<1>10. \A u \in Node : \A l \in EdgeLengths(r, v, u) :
         back.dmap[v] + l <= delta => \E m \in L[u] : m <= l
  BY <1>6, <1>9
<1>11. RelaxedWithin(r, back', delta)
  BY <1>1, <1>2, <1>3, <1>4, <1>5, <1>7, <1>8, <1>10, TurnRelaxes
<1>12. /\ SettledIn(back') = SettledIn(back) \cup {v}
       /\ \A w \in SettledIn(back') : back'.dmap[w] = back.dmap[w]
  BY <1>1, <1>2, <1>4, <1>5, <1>7, <1>8, TurnOK
<1>13. ASSUME NEW u \in Node, L[u] # {}
       PROVE  LET i == ShortestEdge(u, v) IN
              /\ i \in EdgeIndex /\ graph[i].source = u /\ graph[i].target = v
              /\ graph[i].length = Least(LengthsTo(u, v))
              /\ back.dmap[v] + graph[i].length <= delta
  <2> DEFINE i == ShortestEdge(u, v)
  <2>1. PICK l \in L[u] : TRUE
    BY <1>13
  <2>2. l \in LengthsTo(u, v) /\ l = Least(LengthsTo(u, v)) /\ back.dmap[v] + l <= delta
    BY <1>5, <1>6, <2>1
  <2>3. i \in OutEdges(graph, u) /\ graph[i].target = v
        /\ graph[i].length = Least(LengthsTo(u, v))
    BY <1>1, <2>2, ShortestEdgeFinds
  <2> QED
    BY <2>2, <2>3 DEF OutEdges
<1>14. \A e : SweptTo(graph, back, delta, e) => SweptTo(graph, back', delta, e)
  BY <1>12 DEF SweptTo
<1>15. \A e \in found' : e \in behind \/ SweptTo(graph, back', delta, e)
  <2> SUFFICES ASSUME NEW e \in found' PROVE e \in behind \/ SweptTo(graph, back', delta, e)
    OBVIOUS
  <2>1. CASE e \in found
    BY <1>3, <1>14, <2>1 DEF Sweeps
  <2>2. CASE e \notin found
    <3>1. PICK u \in Node : L[u] # {} /\ e = ShortestEdge(u, v)
      BY <1>4, <2>2
    <3>2. /\ e \in EdgeIndex /\ graph[e].target = v
          /\ back.dmap[v] + graph[e].length <= delta
      BY <1>13, <3>1
    <3> QED
      BY <1>12, <3>2 DEF SweptTo
  <2> QED
    BY <2>1, <2>2
<1>16. ASSUME NEW e \in EdgeIndex, SweptTo(graph, back', delta, e)
       PROVE  \E i \in found' : AsShort(graph, i, e)
  <2>1. CASE graph[e].target \in SettledIn(back)
    <3>1. SweptTo(graph, back, delta, e)
      BY <1>12, <1>16, <2>1 DEF SweptTo
    <3> QED
      BY <1>3, <1>4, <3>1 DEF Sweeps
  <2>2. CASE graph[e].target = v
    <3> DEFINE u == graph[e].source
               n == graph[e].length
    <3>1. u \in Node /\ n \in LengthsTo(u, v)
      BY <1>1, <2>2, EdgeTypes DEF LengthsTo, OutEdges
    <3>2. back.dmap[v] + n <= delta
      BY <1>12, <1>16, <2>2 DEF SweptTo
    <3>3. Least(LengthsTo(u, v)) \in L[u] /\ Least(LengthsTo(u, v)) <= n
      BY <1>9, <3>1, <3>2
    <3>4. ShortestEdge(u, v) \in found'
      BY <1>4, <3>1, <3>3
    <3>5. AsShort(graph, ShortestEdge(u, v), e)
      BY <1>13, <2>2, <3>1, <3>3 DEF AsShort
    <3> QED
      BY <3>4, <3>5
  <2> QED
    BY <1>12, <1>16, <2>1, <2>2 DEF SweptTo
<1>17. behind \subseteq found'
  BY <1>3, <1>4 DEF Sweeps
<1>18. Sweeps(graph, back', delta, behind, found')
  BY <1>15, <1>16, <1>17 DEF Sweeps
<1> QED
  BY <1>11, <1>18 DEF r, behind

LEMMA OverBeyond ==
  ASSUME SearchTyped
  PROVE  /\ Beyond(front) => \A u \in InQueue(front) : front.heap[u] > delta
         /\ Beyond(back) => \A u \in InQueue(back) : back.heap[u] > delta
<1>1. /\ \A v \in InQueue(front) : front.heap[Top(front)] <= front.heap[v]
      /\ \A v \in InQueue(back) : back.heap[Top(back)] <= back.heap[v]
      /\ InQueue(front) # {} => Top(front) \in InQueue(front)
      /\ InQueue(back) # {} => Top(back) \in InQueue(back)
      /\ delta \in Nat
  BY Typed
<1>2. /\ \A v \in InQueue(front) : front.heap[v] \in Nat
      /\ \A v \in InQueue(back) : back.heap[v] \in Nat
  BY DEF SearchTyped, TypeOK, Front, InQueue
<1>3. ASSUME Beyond(front), NEW u \in InQueue(front) PROVE front.heap[u] > delta
  <2>1. front.heap[Top(front)] > delta
    BY <1>3 DEF Beyond
  <2> QED
    BY <1>1, <1>2, <2>1
<1>4. ASSUME Beyond(back), NEW u \in InQueue(back) PROVE back.heap[u] > delta
  <2>1. back.heap[Top(back)] > delta
    BY <1>4 DEF Beyond
  <2> QED
    BY <1>1, <1>2, <2>1
<1> QED
  BY <1>3, <1>4

LEMMA ToTargetStep ==
  ASSUME SearchTyped, FrontsRight, WithinInv, ExpandToTarget
  PROVE  /\ pc' = "search" => Relaxed(Reversed(graph), back')
         /\ pc' = "done" => KnownWithin(graph, target, back', delta)
<1> DEFINE u == Top(back)
           r == Reversed(graph)
<1>0. method = "single_target" /\ pc = "search"
  BY DEF ExpandToTarget
<1>1. /\ graph \in Graph /\ r \in Graph /\ target \in Node /\ delta \in Nat
      /\ InQueue(back) # {} => u \in InQueue(back)
      /\ \A w \in InQueue(back) : back.heap[u] <= back.heap[w]
      /\ Zero \in [Node -> Nat] /\ Consistent(r, Zero)
  BY Typed, NoHeuristic
<1>2. FrontOK(r, Zero, target, back) /\ Relaxed(r, back) /\ FrontTyped(Zero, back)
  BY <1>0 DEF FrontsRight, WithinInv, SearchTyped
<1>3. CASE Beyond(back)
  <2>1. pc' = "done" /\ back'.dmap = back.dmap
    <3>1. pc' = "done" /\ back' = Rest
      BY <1>3 DEF ExpandToTarget
    <3>2. InQueue(back) # {} => Taken(back, u).dmap = back.dmap
      BY <1>1, <1>2, TakenTyped
    <3> QED
      BY <3>1, <3>2 DEF Rest
  <2>2. \A w \in InQueue(back) : back.heap[w] > delta
    BY <1>3, OverBeyond
  <2>3. RelaxedWithin(r, back, delta)
    BY <1>1, <1>2 DEF Relaxed
  <2>4. KnownWithin(graph, target, back, delta)
    BY <1>1, <1>2, <2>2, <2>3, BackKnows
  <2> QED
    BY <2>1, <2>4 DEF KnownWithin
<1>4. CASE ~ Beyond(back)
  <2>1. /\ back' = Expanded(back, u, [v \in Node |-> LengthsTo(v, u)])
        /\ pc' = pc /\ InQueue(back) # {}
    BY <1>4 DEF ExpandToTarget, Beyond
  <2>2. Turn(Zero, back, u, AllLengths(r, u), back')
    BY <1>0, <2>1, BackwardTurn
  <2>3. Relaxed(r, back')
    BY <1>1, <1>2, <2>1, <2>2, AllRelaxed
  <2> QED
    BY <1>0, <2>1, <2>3
<1> QED
  BY <1>3, <1>4

LEMMA WithinStep ==
  ASSUME SearchTyped, FrontsRight, WithinInv, [Next]_vars
  PROVE  WithinInv'
<1>1. /\ graph' = graph /\ method' = method /\ source' = source
      /\ target' = target /\ delta' = delta
  BY InputsKept
<1>2. /\ graph \in Graph /\ source \in Node /\ target \in Node /\ delta \in Nat
      /\ Reversed(graph) \in Graph
  BY Typed
<1> SUFFICES
     /\ pc' = "search" /\ method = "single_target" => Relaxed(Reversed(graph), back')
     /\ pc' = "search" /\ method = "within" =>
          /\ RelaxedWithin(graph, front', delta)
          /\ found' = SweptFrom(graph, front', delta)
          /\ SettledIn(back') = {}
     /\ pc' = "to" =>
          /\ RelaxedWithin(Reversed(graph), back', delta)
          /\ Sweeps(graph, back', delta, Behind(graph, source, delta), found')
     /\ pc' = "done" /\ method = "single_target" => KnownWithin(graph, target, back', delta)
     /\ pc' = "done" /\ method = "within" =>
          FoundWithin(graph, source, target, delta, found')
  BY <1>1 DEF WithinInv
<1>3. CASE ExpandToTarget
  <2>1. method = "single_target" /\ pc' \in {"search", "done"}
    BY <1>3 DEF ExpandToTarget
  <2> QED
    BY <1>3, <2>1, ToTargetStep
<1>4. CASE SweepFrom
  <2>0. method = "within" /\ back' = back /\ pc = "search"
    BY <1>4 DEF SweepFrom
  <2>1. /\ RelaxedWithin(graph, front, delta)
        /\ found = SweptFrom(graph, front, delta)
        /\ SettledIn(back) = {}
    BY <2>0 DEF WithinInv
  <2>2. CASE Beyond(front)
    <3>1. pc' = "to" /\ found' = found
      BY <1>4, <2>2 DEF SweepFrom
    <3>2. FrontOK(graph, Zero, source, front)
      BY <2>0, Typed DEF FrontsRight, Sound
    <3>3. \A u \in InQueue(front) : front.heap[u] > delta
      BY <2>2, OverBeyond
    <3>4. found = Behind(graph, source, delta)
      BY <1>2, <2>1, <3>2, <3>3, SweptIsBehind
    <3>5. RelaxedWithin(Reversed(graph), back, delta)
      BY <2>1 DEF RelaxedWithin
    <3>6. Sweeps(graph, back, delta, Behind(graph, source, delta), found)
      BY <2>1, <3>4 DEF Sweeps, SweptTo
    <3> QED
      BY <2>0, <3>1, <3>5, <3>6
  <2>3. CASE ~ Beyond(front)
    <3>1. pc' = pc
      BY <1>4, <2>3 DEF SweepFrom
    <3>2. /\ RelaxedWithin(graph, front', delta)
          /\ found' = SweptFrom(graph, front', delta)
      BY <1>4, <2>3, SweptOn
    <3> QED
      BY <2>0, <2>1, <3>1, <3>2
  <2> QED
    BY <2>2, <2>3
<1>5. CASE SweepTo
  <2>0. method = "within" /\ pc = "to"
    BY <1>5 DEF SweepTo, SearchTyped
  <2>1. CASE Beyond(back)
    <3>1. pc' = "done" /\ back' = back /\ found' = found
      BY <1>5, <2>1 DEF SweepTo
    <3>2. /\ RelaxedWithin(Reversed(graph), back, delta)
          /\ Sweeps(graph, back, delta, Behind(graph, source, delta), found)
          /\ FrontOK(Reversed(graph), Zero, target, back)
      BY <2>0 DEF WithinInv, FrontsRight
    <3>3. \A u \in InQueue(back) : back.heap[u] > delta
      BY <2>1, OverBeyond
    <3>4. FoundWithin(graph, source, target, delta, found)
      BY <1>2, <3>2, <3>3, SweepsFound
    <3> QED
      BY <2>0, <3>1, <3>4
  <2>2. CASE ~ Beyond(back)
    <3>1. pc' = pc
      BY <1>5, <2>2 DEF SweepTo
    <3> QED
      BY <1>5, <2>0, <2>2, <3>1, SweptToOn
  <2> QED
    BY <2>1, <2>2
<1>6. CASE ExpandOneWay \/ ExhaustedOneWay \/ ExpandForward \/ ExpandBackward
           \/ ExhaustedInTurn \/ TrackBack \/ TrackForward
  <2>1. method \in PathMethods
    BY <1>6 DEF ExpandOneWay, ExhaustedOneWay, ExpandForward, ExpandBackward,
       ExhaustedInTurn, InTurn, TrackBack, TrackForward, SearchTyped, PathMethods
  <2>2. pc' # "to"
    BY <1>6 DEF ExpandOneWay, ExhaustedOneWay, ExpandForward, ExpandBackward,
       ExhaustedInTurn, TrackBack, TrackForward, Track, TrackDone
  <2> QED
    BY <2>1, <2>2 DEF PathMethods
<1>7. CASE Returned \/ UNCHANGED vars
  <2>1. UNCHANGED <<pc, front, back, found>>
    BY <1>7 DEF Returned, vars
  <2> QED
    BY <2>1 DEF WithinInv
<1> QED
  BY <1>3, <1>4, <1>5, <1>6, <1>7 DEF Next, Search

\* single_target_upperbound_dijkstra gives the nodes within delta their
\* distance to the target and no other node one within delta; of the edges
\* within delta search_edges_within_dist_ft_edge reports all behind the edge
\* asked for, and of those before it one as short between the same nodes,
\* and no edge that is not within delta.
THEOREM FindsWithin == Spec => []WithinDistance
<1>1. Init => WithinInv
  BY WithinBegins
<1>2. SearchTyped /\ FrontsRight /\ WithinInv /\ [Next]_vars => WithinInv'
  BY WithinStep
<1> QED
  BY <1>1, <1>2, FrontsInvariance, WithinInvIsRight, PTL DEF Spec
=============================================================================
