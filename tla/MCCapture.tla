------------------------------- MODULE MCCapture -------------------------------
(***************************************************************************)
(* Instances of Capture for TLC.                                           *)
(***************************************************************************)
EXTENDS Capture

TwoOps == [p \in Polls |-> 2]
=============================================================================
