-------------------------------- MODULE MCJob --------------------------------
(***************************************************************************)
(* Instances of Job for TLC.                                               *)
(***************************************************************************)
EXTENDS Job

\* Three samples each: the least that dump_batches accepts.
ThreeOps == [p \in Polls |-> 3]
=============================================================================
