-------------------------------- MODULE MCSpin --------------------------------
(***************************************************************************)
(* Instances of Spin for TLC.                                              *)
(***************************************************************************)
EXTENDS Spin

\* A weight-one operand at either end, and all ones.
SmallParams == {1, 2^(Width - 1), 2^Width - 1}
\* No shift, the least and the greatest one, and one that C leaves undefined.
ShiftsAround == {0, 1, Width - 1, Width + 1}
=============================================================================
