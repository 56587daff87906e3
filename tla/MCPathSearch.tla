---------------------------- MODULE MCPathSearch ----------------------------
(***************************************************************************)
(* Three networks of four nodes, with lengths that differ and with some 0: *)
(* a diamond with a way across, a junction with ways that lead nowhere or  *)
(* come from nowhere, and a street with a second way between two nodes.    *)
(* The nodes lie in one point, in a row, or so that an edge may be shorter *)
(* than the straight distance.                                             *)
(***************************************************************************)
EXTENDS PathSearch, TLC

Ends(s, t) == [source |-> s, target |-> t]

Diamond == << Ends(0, 1), Ends(0, 2), Ends(1, 3), Ends(2, 3), Ends(1, 2) >>
Junction == << Ends(0, 1), Ends(0, 2), Ends(3, 1), Ends(2, 2), Ends(1, 0) >>

Street == << Ends(0, 1), Ends(0, 1), Ends(1, 2), Ends(2, 3), Ends(2, 1) >>

Measured(roads, l) ==
  [e \in EdgeIndex |-> [source |-> roads[e + 1].source,
                        target |-> roads[e + 1].target, length |-> l[e]]]

SomeNetworks ==
  { Measured(Diamond, l) : l \in [EdgeIndex -> {1, 3}] \cup [EdgeIndex -> {0, 2}] }
    \cup { Measured(Junction, l) : l \in [EdgeIndex -> {0, 2}] }
    \cup { Measured(Street, l) : l \in [EdgeIndex -> {1, 3}] }

SomePlacements == { [v \in Node |-> 0], [v \in Node |-> v],
                    [v \in Node |-> IF v = 1 THEN 3 ELSE 0] }
=============================================================================
