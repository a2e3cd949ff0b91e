------------------------------ MODULE MCABClock ------------------------------
(***************************************************************************)
(* Instances of ABClock for TLC.                                           *)
(***************************************************************************)
EXTENDS ABClock

\* Every fraction of a second, alone and with one or two whole seconds.
UpToThreeSeconds == [sec : 0 .. 2, nsec : 0 .. NS - 1]

\* Up to three seconds, with no fraction, half a second, and all but a second.
SecondsAndFractions == [sec : 0 .. 3, nsec : {0, NS \div 2, NS - 1}]
=============================================================================
