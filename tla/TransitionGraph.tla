--------------------------- MODULE TransitionGraph ---------------------------
(***************************************************************************)
(* The transition graph of a trajectory (mm/transition_graph.cpp) and its  *)
(* forward pass (update_tg and update_layer of the matchers): one layer of *)
(* candidates per point, a most likely predecessor for each candidate, and *)
(* backtrack, which follows the predecessors from the best last candidate. *)
(*                                                                         *)
(* A probability p stands here as its cost -log p, a natural number, so    *)
(* the sums of the code are sums; Impossible is the cost of p = 0.  How    *)
(* far apart candidates are is left to the caller: UpdateLayer is given    *)
(* the cost of every transition between two layers.                        *)
(***************************************************************************)
EXTENDS Integers, Sequences

CONSTANTS
  MaxLayers,      \* longest trajectory considered (bound of the model)
  MaxCandidates,  \* most candidates of a point
  EmissionCosts,  \* the costs an emission probability may have
  TransitionCosts \* the costs a transition probability may have

Impossible == -1
Cost == Nat \cup {Impossible}

ASSUME TransitionAssumption ==
  /\ MaxLayers \in Nat
  /\ MaxCandidates \in Nat
  /\ EmissionCosts \subseteq Cost
  /\ TransitionCosts \subseteq Cost

Plus(a, b) ==
  IF a = Impossible \/ b = Impossible THEN Impossible ELSE a + b

\* a is the cost of a strictly larger probability than b.
Likelier(a, b) == a # Impossible /\ (b = Impossible \/ a < b)

VARIABLES
  ep,         \* ep[i][b]: emission cost of candidate b of point i
  tps,        \* tps[i][a][b]: transition costs of the layers updated so far
  cumu_prob,  \* cumu_prob[i][b]: cost accumulated by candidate b of point i
  prev,       \* prev[i][b]: its predecessor in layer i-1, 0 for nullptr
  level,      \* layers before it are updated
  connected,  \* FALSE once a layer could not be reached
  pc,         \* "update", "backtrack" or "done"
  opath       \* the candidates of the last points, as backtrack finds them

tgVars == <<ep, tps, cumu_prob, prev, level, connected, pc, opath>>

N == Len(ep)
Layer(i) == 1 .. Len(ep[i])
Emissions(most) == UNION {[1 .. k -> EmissionCosts] : k \in 1 .. most}
Matrix(i) == [Layer(i) -> [Layer(i + 1) -> TransitionCosts]]

\* The constructor for layers of the emission costs e, and reset_layer.
Construct(e) ==
  /\ ep' = e
  /\ tps' = <<>>
  /\ cumu_prob' = [i \in 1 .. Len(e) |->
                     [b \in 1 .. Len(e[i]) |-> IF i = 1 THEN e[1][b] ELSE Impossible]]
  /\ prev' = [i \in 1 .. Len(e) |-> [b \in 1 .. Len(e[i]) |-> 0]]
  /\ level' = 1
  /\ connected' = TRUE
  /\ pc' = "update"
  /\ opath' = <<>>

TGInit ==
  /\ ep = <<>> /\ tps = <<>> /\ cumu_prob = <<>> /\ prev = <<>>
  /\ level = 1 /\ connected = TRUE /\ pc = "start" /\ opath = <<>>

-----------------------------------------------------------------------------
\* Fault seed: what led to a does not count.
Greedy(tp, a, b) == Plus(tp[a][b], ep[level + 1][b])

\* The cost of reaching candidate b of the next layer from a.
Temp(tp, a, b) == Plus(Plus(cumu_prob[level][a], tp[a][b]), ep[level + 1][b])

\* a replaces the predecessors tried before it if it is at least as likely
\* (temp >= cumu_prob), hence the last of the likeliest stays.
IsChosen(tp, a, b) ==
  /\ \A other \in Layer(level) : ~ Likelier(Temp(tp, other, b), Temp(tp, a, b))
  /\ \A other \in Layer(level) :
       other > a => Likelier(Temp(tp, a, b), Temp(tp, other, b))

Chosen(tp, b) == CHOOSE a \in Layer(level) : IsChosen(tp, a, b)

\* One call of update_layer.
RunLayer(tp) ==
  /\ pc = "update"
  /\ level < N
  /\ LET reached == [b \in Layer(level + 1) |-> Temp(tp, Chosen(tp, b), b)] IN
     /\ cumu_prob' = [cumu_prob EXCEPT ![level + 1] = reached]
     /\ prev' = [prev EXCEPT ![level + 1] =
                   [b \in Layer(level + 1) |-> Chosen(tp, b)]]
     /\ connected' = (\E b \in Layer(level + 1) : reached[b] # Impossible)
  /\ level' = level + 1
  /\ tps' = [i \in 1 .. level |-> IF i = level THEN tp ELSE tps[i]]
  /\ UNCHANGED <<ep, pc, opath>>

\* FMM's update_tg stops at a layer of which no candidate is reached.
UpdateLayer(tp) == connected /\ RunLayer(tp)

LastLayer == N

\* find the first of the likeliest candidates of the last layer
IsBest(b) ==
  /\ cumu_prob[LastLayer][b] # Impossible
  /\ \A other \in Layer(LastLayer) :
       ~ Likelier(cumu_prob[LastLayer][other], cumu_prob[LastLayer][b])
  /\ \A other \in Layer(LastLayer) :
       other < b => Likelier(cumu_prob[LastLayer][b], cumu_prob[LastLayer][other])

\* backtrack, up to its loop.
Backtrack ==
  /\ pc = "update"
  /\ level = N \/ ~ connected
  /\ IF \E b \in Layer(LastLayer) : IsBest(b)
       THEN /\ opath' = << [layer |-> LastLayer,
                            at |-> CHOOSE b \in Layer(LastLayer) : IsBest(b)] >>
            /\ pc' = "backtrack"
       ELSE opath' = <<>> /\ pc' = "done"
  /\ UNCHANGED <<ep, tps, cumu_prob, prev, level, connected>>

\* One turn of its loop: the node in front is preceded, or is the first.
Previous == prev[Head(opath).layer][Head(opath).at]

TrackBack ==
  /\ pc = "backtrack"
  /\ IF Previous # 0
       THEN /\ opath' = << [layer |-> Head(opath).layer - 1, at |-> Previous] >> \o opath
            /\ UNCHANGED pc
       ELSE pc' = "done" /\ UNCHANGED opath
  /\ UNCHANGED <<ep, tps, cumu_prob, prev, level, connected>>

TGNext ==
  \/ /\ pc = "start"
     /\ \E n \in 1 .. MaxLayers : \E e \in [1 .. n -> Emissions(MaxCandidates)] :
          Construct(e)
  \/ /\ level < N
     /\ \E tp \in Matrix(level) : UpdateLayer(tp)
  \/ Backtrack
  \/ TrackBack

TGSpec == TGInit /\ [][TGNext]_tgVars

-----------------------------------------------------------------------------
TGNode == [layer : Nat, at : Nat]

Transitions(i) == [Layer(i) -> [Layer(i + 1) -> Cost]]

TGTypeOK ==
  /\ ep \in Seq(Seq(Cost)) /\ \A i \in 1 .. N : ep[i] # <<>>
  /\ level \in Nat \ {0}
  /\ pc # "start" => level <= N
  /\ DOMAIN tps = 1 .. level - 1
  /\ \A i \in 1 .. level - 1 : tps[i] \in Transitions(i)
  /\ DOMAIN cumu_prob = 1 .. N /\ DOMAIN prev = 1 .. N
  /\ \A i \in 1 .. N : cumu_prob[i] \in [Layer(i) -> Cost]
  /\ \A i \in 1 .. N : prev[i] \in [Layer(i) -> Nat]
  /\ connected \in BOOLEAN
  /\ pc \in {"start", "update", "backtrack", "done"}
  /\ opath \in Seq(TGNode)

(***************************************************************************)
(* What the forward pass establishes layer by layer: the cost of a         *)
(* candidate is the cost by way of its predecessor, and no other candidate *)
(* of the layer before would have been likelier.                           *)
(***************************************************************************)
By(i, a, b) == Plus(Plus(cumu_prob[i][a], tps[i][a][b]), ep[i + 1][b])

Settled ==
  \A i \in 1 .. level - 1 : \A b \in Layer(i + 1) :
    /\ prev[i + 1][b] \in Layer(i)
    /\ cumu_prob[i + 1][b] = By(i, prev[i + 1][b], b)
    /\ \A a \in Layer(i) : ~ Likelier(By(i, a, b), cumu_prob[i + 1][b])

\* The first layer keeps its emission costs; a layer not updated cannot be
\* reached, nor can the one that ended the forward pass.
Seeded ==
  /\ pc # "start" => cumu_prob[1] = ep[1] /\ \A b \in Layer(1) : prev[1][b] = 0
  /\ \A i \in level + 1 .. N : \A b \in Layer(i) : cumu_prob[i][b] = Impossible
  /\ ~ connected => \A b \in Layer(level) : cumu_prob[level][b] = Impossible
  /\ pc \in {"backtrack", "done"} => level = N \/ ~ connected

\* opath is the chain of predecessors that ends in a best last candidate.
Tracked ==
  /\ pc \in {"start", "update"} => opath = <<>>
  /\ pc = "backtrack" => opath # <<>>
  /\ pc = "done" /\ opath = <<>> =>
       \A b \in Layer(N) : cumu_prob[N][b] = Impossible
  /\ opath # <<>> =>
       /\ Len(opath) <= N
       /\ IsBest(opath[Len(opath)].at)
       /\ \A j \in 1 .. Len(opath) :
            /\ opath[j].layer = N - Len(opath) + j
            /\ opath[j].at \in Layer(opath[j].layer)
       /\ \A j \in 1 .. Len(opath) - 1 :
            opath[j].at = prev[opath[j + 1].layer][opath[j + 1].at]
       /\ pc = "done" => Len(opath) = N

TGIInv == TGTypeOK /\ Settled /\ Seeded /\ Tracked

(***************************************************************************)
(* backtrack returns nothing or one candidate of every point, whatever     *)
(* layers could not be reached: its callers index opath by point.          *)
(***************************************************************************)
OneCandidatePerPoint ==
  pc = "done" =>
    \/ opath = <<>>
    \/ Len(opath) = N /\ \A i \in 1 .. N : opath[i].layer = i

(***************************************************************************)
(* The path is a most likely one: no choice of a candidate for each point  *)
(* has a larger probability, and there is no path only if every choice has *)
(* probability 0, be it for a transition the forward pass stopped at.      *)
(***************************************************************************)
CostOf(choice, n) ==
  LET upTo[i \in 1 .. n] ==
        IF i = 1 THEN ep[1][choice[1]]
        ELSE Plus(Plus(upTo[i - 1], tps[i - 1][choice[i - 1]][choice[i]]),
                  ep[i][choice[i]])
  IN  upTo[n]

IsChoice(choice, n) ==
  DOMAIN choice = 1 .. n /\ \A i \in 1 .. n : choice[i] \in Layer(i)

MostLikely ==
  pc = "done" =>
    \A choice \in [1 .. level -> 1 .. MaxCandidates] :
      IsChoice(choice, level) =>
        IF opath = <<>> THEN CostOf(choice, level) = Impossible
        ELSE ~ Likelier(CostOf(choice, level),
                        CostOf([i \in 1 .. N |-> opath[i].at], N))
=============================================================================
