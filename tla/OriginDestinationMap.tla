------------------------ MODULE OriginDestinationMap ------------------------
(***************************************************************************)
(* What the upper-bounded origin-destination table promises its callers:   *)
(* a map from an origin and a destination to at most one row, in which the *)
(* row inserted last for a pair is the one that is found.                  *)
(***************************************************************************)
CONSTANTS
  Pairs,    \* pairs of an origin and a destination
  Values,   \* what a row says about its pair
  None      \* no row for a pair

VARIABLE map

Init == map = [p \in Pairs |-> None]

Put(p, v) == map' = [map EXCEPT ![p] = v]

Next == \E p \in Pairs, v \in Values : Put(p, v)

Spec == Init /\ [][Next]_map
=============================================================================
