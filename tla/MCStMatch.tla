------------------------------ MODULE MCStMatch ------------------------------
(***************************************************************************)
(* A ring with a detour, and a road into a loop.  Points have a candidate  *)
(* or two, on edges that meet, lie apart or cannot reach each other, moved *)
(* forth and back on their edge.  The bounds are too small for some ways,  *)
(* and negative where the timestamps go back.                              *)
(***************************************************************************)
EXTENDS StMatch, TLC

Road(s, t, l) == [source |-> s, target |-> t, length |-> l]

Ring == (0 :> Road(0, 1, 4)) @@ (1 :> Road(1, 2, 2)) @@ (2 :> Road(2, 0, 1))
        @@ (3 :> Road(1, 0, 4))
DeadEnd == (0 :> Road(0, 1, 4)) @@ (1 :> Road(1, 2, 2)) @@ (2 :> Road(2, 2, 1))
           @@ (3 :> Road(1, 0, 2))
TwoNetworks == {Ring, DeadEnd}

At(e, o, p) == [edge |-> e, offset |-> o, ep |-> p]
Single == { << At(0, o, 0) >> : o \in {0, 4} } \cup { << At(2, 1, 0) >>, << At(3, 0, 0) >> }
Double == { << At(0, 1, 1), At(1, 2, 0) >>, << At(0, 3, 0), At(2, 0, 2) >>,
            << At(3, 1, Impossible), At(1, 1, 0) >> }
SomePoints == {<<>>} \cup Single \cup Double

SomeDistances == {0, 2}
SomeDurations == {-1, 2}
AnyCost == {Impossible} \cup 0 .. 60
=============================================================================
