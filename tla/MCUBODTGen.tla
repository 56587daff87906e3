----------------------------- MODULE MCUBODTGen -----------------------------
(***************************************************************************)
(* Every network of NumEdges edges over NumNodes nodes with edges of       *)
(* length zero and one, and a bound that cuts some routes off.  The        *)
(* parallel generator has those whose first and last edge leave one node.  *)
(***************************************************************************)
EXTENDS UBODTGen

SmallLengths == {0, 1}
SmallDeltas == {1}

TwoLeaveFirst == {g \in Graph : g[NumEdges - 1].source = g[0].source}
=============================================================================
