------------------------ MODULE MCUpperboundDijkstra ------------------------
(***************************************************************************)
(* Small networks for UpperboundDijkstra: every graph of NumEdges edges    *)
(* over NumNodes nodes, parallel edges, loops and zero lengths included,   *)
(* with a negative bound and one that some routes exceed.                  *)
(***************************************************************************)
EXTENDS UpperboundDijkstra

SmallLengths == {0, 1}
SmallDeltas == {-1, 1}
=============================================================================
