--------------------------- MODULE MCPointReader ---------------------------
(***************************************************************************)
(* Files of up to six rows whose ids ascend, as gps_reader.hpp asks for.   *)
(***************************************************************************)
EXTENDS PointReader

IdsUpTo3 == 0 .. 3

Ascending ==
  UNION { {f \in [1 .. n -> IdsUpTo3] : \A i, j \in 1 .. n : i < j => f[i] <= f[j]} :
            n \in 0 .. 6 }
=============================================================================
