------------------------------ MODULE MCOptions ------------------------------
(***************************************************************************)
(* Instances of Options for TLC.                                           *)
(***************************************************************************)
EXTENDS Options

In(val, unit) == [val |-> val, unit |-> unit]

\* With a Thousand of 4 and a Word of 4096, 64 seconds are 0 nanoseconds.
Durations == {In(2, "s"), In(3, "s"), In(7, "ms"), In(2, "m"), In(65, "s"), Garbage}
Intervals == {In(1, "s"), In(2, "us"), In(64, "s"), In(37, "ns"), In(0, "h"), In(1, "d")}

OneOption ==
    [opt : {"t"}, time : Durations]
    \cup [opt : {"T"}, time : {In(5, "us"), In(0, "s"), In(9, "ns"), In(1, "s")}]
    \cup [opt : {"m"}, cpus : {{0}, {}}]
    \cup [opt : {"p"}, time : Intervals, flags : {{"OP_POLL", "OP_POOL"}},
          control_cpus : {{0}}]
    \cup [opt : {"p"}, time : {In(1, "s"), In(2, "us")}, flags : {{"OP_POLL"}},
          control_cpus : {{}}]
    \cup [opt : {"b"}, cpus : {{1, 2}}, hw : {0, 2, 4, 7, 9}]
    \cup [opt : {"b"}, cpus : {{2, 3}}, hw : {1}]
    \cup [opt : {"l"}, type : {"ALL_ALLOWED"}]
    \cup [opt : {"R", "h"}]

\* -p, -t, -m and another one, in every order.
UpToThree == UNION {[1 .. n -> OneOption] : n \in 0 .. 3}
UpToFour == UpToThree \cup {line \in [1 .. 4 -> OneOption] :
                {"t", "m", "p"} \subseteq {line[n].opt : n \in 1 .. 4}}
=============================================================================
