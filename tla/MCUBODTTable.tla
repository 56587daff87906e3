---------------------------- MODULE MCUBODTTable ----------------------------
(***************************************************************************)
(* Files of up to four rows over two nodes, so that rows repeat a pair and *)
(* different pairs share a bucket.  The ladder of table sizes and the      *)
(* range of an int are scaled down: a file of three rows passes the range  *)
(* as one of 2^31 bytes does.                                              *)
(***************************************************************************)
EXTENDS UBODTTable

SmallCosts == {1, 2}
SmallPrimes == <<1, 2, 3>>
=============================================================================
