---------------------------- MODULE MCLongitudinal ----------------------------
(***************************************************************************)
(* Instances of Longitudinal for TLC.                                      *)
(***************************************************************************)
EXTENDS Longitudinal

On(type, cpus) == [longitudinal_type |-> type, sample_cpus |-> cpus]

\* One longitudinal, two that share a cpu, and two types on one cpu.
OneAndTwoLongitudinals ==
    { <<On("FIXED_FUNCTION_COUNTERS", {0, 1})>>,
      <<On("FIXED_FUNCTION_COUNTERS", {0}), On("FIXED_FUNCTION_COUNTERS", {0, 1})>>,
      <<On("ALL_ALLOWED", {0, 1}), On("FIXED_FUNCTION_COUNTERS", {1})>> }
=============================================================================
