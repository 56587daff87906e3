--------------------------- MODULE MCFastMapMatch ---------------------------
(***************************************************************************)
(* Two networks over three nodes with unique shortest paths: a ring with a *)
(* short cut back, and a road into a loop from which there is no way back. *)
(* Points have one or two candidates on edges that meet, that lie apart    *)
(* and that cannot reach each other, at offsets that move forward,         *)
(* backward within the tolerance and backward beyond it.                   *)
(***************************************************************************)
EXTENDS FastMapMatch, TLC

Road(s, t, l) == [source |-> s, target |-> t, length |-> l]

Ring == (0 :> Road(0, 1, 4)) @@ (1 :> Road(1, 2, 2)) @@ (2 :> Road(2, 0, 1))
        @@ (3 :> Road(1, 0, 2))
DeadEnd == (0 :> Road(0, 1, 4)) @@ (1 :> Road(1, 2, 2)) @@ (2 :> Road(2, 2, 1))
           @@ (3 :> Road(1, 0, 2))
TwoNetworks == {Ring, DeadEnd}

At(e, o, p) == [edge |-> e, offset |-> o, ep |-> p]
Single == { << At(e, o, 0) >> : e \in 0 .. 3, o \in 0 .. 2 }
Double ==
  { << At(e[1], 1, p[1]), At(e[2], o, p[2]) >> :
      e \in {<<0, 1>>, <<0, 3>>, <<1, 2>>}, o \in 0 .. 1,
      p \in {<<0, 1>>, <<1, 0>>, <<0, Impossible>>} }
SomePoints == {<<>>} \cup Single \cup Double

SomeDistances == {0, 2}
AnyCost == {Impossible} \cup 0 .. 12
=============================================================================
