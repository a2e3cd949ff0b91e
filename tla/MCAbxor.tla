------------------------------- MODULE MCAbxor --------------------------------
(***************************************************************************)
(* Instances of Abxor for TLC.                                             *)
(***************************************************************************)
EXTENDS Abxor

\* Two benchmarks with windows of different widths, and two with the same.
OneAndTwo == [t \in Threads |-> t]
OnlyTwo == [t \in Threads |-> 2]
\* The production build with both threads, the debug build with one.
SoundJobs == {[build |-> "-O2", threads |-> Threads],
              [build |-> "-Og", threads |-> {2}]}
DebugJob == {[build |-> "-Og", threads |-> Threads]}
=============================================================================
