--------------------------- MODULE MCRoadNetwork ---------------------------
(***************************************************************************)
(* Networks of up to three of five roads: straight, bent, closed to a      *)
(* loop, one that bears the id of another, and one whose coordinates are   *)
(* all negative; and a road added afterwards.                              *)
(***************************************************************************)
EXTENDS RoadNetwork

Along(id, s, t, line) == [id |-> id, source |-> s, target |-> t, geom |-> line]

Straight == Along(1, 10, 20, << <<0, 0>>, <<2, 0>> >>)
Bent == Along(-2, 20, 30, << <<2, 0>>, <<2, 1>>, <<0, 1>> >>)
Loop == Along(3, 30, 30, << <<0, 1>>, <<-1, 1>>, <<-1, 2>>, <<0, 2>>, <<0, 1>> >>)
Namesake == Along(1, 20, 10, << <<2, 0>>, <<1, 0>>, <<0, 0>> >>)
Negative == Along(4, 40, 30, << <<-2, -2>>, <<-2, -1>> >>)
Later == Along(5, 30, 50, << <<0, 1>>, <<0, 3>> >>)

SomeRoads == {Straight, Bent, Loop, Namesake, Negative}
SomeFiles ==
  { file \in UNION { [1 .. n -> SomeRoads] : n \in 1 .. 3 } :
      \A i, j \in DOMAIN file : i # j => file[i] # file[j] }
ALaterRoad == {Later}

SomePoints == { <<0, 0>>, <<1, 1>>, <<-2, -1>>, <<2, -1>>, <<-2, 2>> }
SomeTrajs == UNION { [1 .. n -> SomePoints] : n \in 1 .. 2 }
=============================================================================
