------------------------------- MODULE MCCpuSet -------------------------------
(***************************************************************************)
(* Instances of CpuSet for TLC.                                            *)
(***************************************************************************)
EXTENDS CpuSet

\* Every token over the valid cpus and the first invalid one, and every field
\* of at most two such tokens.
Tokens == [lo : 0 .. CPU_SETSIZE, hi : 0 .. CPU_SETSIZE]
UpToTwoTokens == UNION {[1 .. n -> Tokens] : n \in 0 .. 2}
=============================================================================
