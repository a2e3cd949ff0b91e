-------------------------------- MODULE MCDump --------------------------------
(***************************************************************************)
(* Instances of Dump for TLC.                                              *)
(***************************************************************************)
EXTENDS Dump, TLC

\* The second poll is of an interval so long that the dump does not accept it.
ThreeAndOne == (0 :> 3) @@ (1 :> 1)

NonePartOrNearlyAll == {0, 1, Turn - 1}

Outputs == {{}, {0}, {0, 1}, {1, 2}, {2, 3}}
=============================================================================
