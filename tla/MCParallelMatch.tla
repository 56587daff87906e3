--------------------------- MODULE MCParallelMatch ---------------------------
(***************************************************************************)
(* Two or three threads, or the one without use_omp, over a file of two    *)
(* batches, the last not full.                                             *)
(***************************************************************************)
EXTENDS ParallelMatch

CONSTANTS t1, t2, t3

TwoThreads == {t1, t2}
ThreeThreads == {t1, t2, t3}
=============================================================================
