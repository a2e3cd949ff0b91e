-------------------------------- MODULE CpuSet --------------------------------
(***************************************************************************)
(* What becomes of the <cpus> field of an option.  str2cpuset parses it.   *)
(* Of a benchmark, the loop of parse_options (options.c:366-415) pins one  *)
(* thread to each cpu, by get_next_cpu; of any other option, cpuset2str    *)
(* shows the cpus in job.out.  A field is the sequence of its              *)
(* comma-separated tokens; the token m-n is the pair of m and n, a single  *)
(* number m the pair of m and m.                                           *)
(***************************************************************************)
EXTENDS Integers, Sequences, FiniteSetsExt

CONSTANTS
    CPU_SETSIZE,  \* of <sched.h>
    MaxCpu,       \* the max_cpu that callers give to get_next_cpu
    Fields        \* the <cpus> fields that users write

Token == [lo : Nat, hi : Nat]

ASSUME CpuSetAssumption ==
    /\ CPU_SETSIZE \in Nat \ {0}
    /\ MaxCpu \in Nat \ {0, 1}
    /\ Fields \subseteq Seq(Token)

VARIABLES
    phase,        \* "parsing", "pinning" or "showing", "done", or "exited"
    field,        \* the tokens that strtok_r has yet to return
    all_cpus,     \* the cpu_set_t filled by str2cpuset
    current_cpu,
    pinned,       \* the cpu of each benchmark_config made so far, in order
    lo_cpu, hi_cpu, count,   \* of cpuset2str
    shown,        \* the cpus it has shown so far, in order
    given         \* history: the field as the user wrote it

pinVars == <<current_cpu, pinned>>
showVars == <<lo_cpu, hi_cpu, count, shown>>
vars == <<phase, field, all_cpus, pinVars, showVars, given>>

Init ==
    /\ phase = "parsing"
    /\ given \in Fields
    /\ field = given
    /\ all_cpus = {}
    /\ current_cpu = 0
    /\ pinned = <<>>
    /\ lo_cpu = 0 /\ hi_cpu = 0 /\ count = 0
    /\ shown = <<>>

-----------------------------------------------------------------------------
(* str2cpuset                                                              *)

\* The token makes the program exit: out of range, reversed, or a repetition.
Rejected(t) ==
    \/ t.lo >= CPU_SETSIZE \/ t.hi >= CPU_SETSIZE
    \/ t.hi < t.lo
    \/ (t.lo .. t.hi) \cap all_cpus # {}

Reject ==
    /\ phase = "parsing" /\ field # <<>>
    /\ Rejected(Head(field))
    /\ phase' = "exited"
    /\ UNCHANGED <<field, all_cpus, pinVars, showVars, given>>

AcceptUpTo(last(_)) ==
    /\ phase = "parsing" /\ field # <<>>
    /\ ~Rejected(Head(field))
    /\ all_cpus' = all_cpus \cup (Head(field).lo .. last(Head(field)))
    /\ field' = Tail(field)
    /\ UNCHANGED <<phase, pinVars, showVars, given>>

AcceptHalfOpen == AcceptUpTo(LAMBDA t : t.hi - 1)
Accept == AcceptUpTo(LAMBDA t : t.hi)

\* The field is the <execution_cpus> of a benchmark, or another.
EndOfField ==
    /\ phase = "parsing" /\ field = <<>>
    /\ phase' \in {"pinning", "showing"}
    /\ count' = Cardinality(all_cpus)
    /\ UNCHANGED <<field, all_cpus, pinVars, lo_cpu, hi_cpu, shown, given>>

-----------------------------------------------------------------------------
(* get_next_cpu and its caller                                             *)

\* The do-while tests start_cpu first, whatever it is, and then every cpu
\* below both bounds; it returns 0 when it finds none.
Found(start, max, cpus) ==
    {c \in cpus : c = start \/ (start < c /\ c < CPU_SETSIZE /\ c < max)}

get_next_cpu(start, max, cpus) ==
    IF Found(start, max, cpus) = {} THEN 0 ELSE Min(Found(start, max, cpus))

PinAdvancing(step) ==
    /\ phase = "pinning" /\ Len(pinned) < Cardinality(all_cpus)
    /\ LET cpu == get_next_cpu(current_cpu, MaxCpu, all_cpus)
       IN  /\ pinned' = Append(pinned, cpu)
           /\ current_cpu' = cpu + step
    /\ UNCHANGED <<phase, field, all_cpus, showVars, given>>

PinInPlace == PinAdvancing(0)
Pin == PinAdvancing(1)

AllPinned ==
    /\ phase = "pinning" /\ Len(pinned) = Cardinality(all_cpus)
    /\ phase' = "done"
    /\ UNCHANGED <<field, all_cpus, pinVars, showVars, given>>

-----------------------------------------------------------------------------
(* cpuset2str                                                              *)

Skip ==
    /\ phase = "showing" /\ count > 0 /\ lo_cpu \notin all_cpus
    /\ lo_cpu' = lo_cpu + 1
    /\ UNCHANGED <<phase, field, all_cpus, pinVars, hi_cpu, count, shown, given>>

EndOfRun == Max({c \in all_cpus : lo_cpu .. c \subseteq all_cpus})

\* The last of a run of cpus is looked for, and passed over, but not shown.
ShowPassing(gap) ==
    /\ phase = "showing" /\ count > 0 /\ lo_cpu \in all_cpus
    /\ shown' = Append(shown, lo_cpu)
    /\ hi_cpu' = IF lo_cpu < CPU_SETSIZE - 2 THEN EndOfRun ELSE hi_cpu
    /\ IF hi_cpu' - lo_cpu > 2
       THEN count' = count - (hi_cpu' - lo_cpu + 1) /\ lo_cpu' = hi_cpu' + gap
       ELSE count' = count - 1 /\ lo_cpu' = lo_cpu + 1
    /\ UNCHANGED <<phase, field, all_cpus, pinVars, given>>

ShowPassingTooFar == ShowPassing(3)
Show == ShowPassing(2)

AllShown ==
    /\ phase = "showing" /\ count = 0
    /\ phase' = "done"
    /\ UNCHANGED <<field, all_cpus, pinVars, showVars, given>>

Ended == phase \in {"done", "exited"} /\ UNCHANGED vars

Next ==
    \/ Reject \/ Accept \/ EndOfField \/ Pin \/ AllPinned
    \/ Skip \/ Show \/ AllShown \/ Ended

Spec == Init /\ [][Next]_vars

-----------------------------------------------------------------------------
Cpus == {pinned[i] : i \in DOMAIN pinned}

\* The search stops at MaxCpu, but it always looks at the cpu it begins with, and
\* so goes beyond MaxCpu as long as it meets no gap.
Reachable == {c \in all_cpus : c < MaxCpu \/ MaxCpu - 1 .. c \subseteq all_cpus}

\* options.c:59: each cpu should be unique.  Two threads of a benchmark never
\* share a cpu, and none runs where it was not asked to, as long as the search
\* can reach all cpus that were asked for.
OneThreadPerCpu ==
    all_cpus = Reachable =>
        /\ Cpus \subseteq all_cpus
        /\ \A i, j \in DOMAIN pinned : i < j => pinned[i] < pinned[j]

\* The cpus that the tokens name, alone or in ranges, get a thread each, unless
\* the whole field is refused; but a cpu that the search cannot reach is lost, and
\* cpu 0 gets its thread, although options.c:57 promises the numbering of
\* sched_setaffinity(2).
Asked == UNION {t.lo .. t.hi : t \in {given[i] : i \in DOMAIN given}}
EveryCpuPinned ==
    phase = "pinning" /\ Len(pinned) = Cardinality(all_cpus) =>
        /\ all_cpus = Asked
        /\ Reachable \subseteq Cpus
        /\ Cpus = IF Asked = Reachable THEN Asked ELSE Reachable \cup {0}

\* cpuset_utils.c:123: job.out says which cpus were asked for.  It does so unless
\* four or more are consecutive: of these it shows the first alone, and the range
\* notation that the comment announces never appears.  The loop loses count of no
\* cpu that is left, or it would not end at the last.
RunOf(c) == {d \in Asked : (c .. d) \cup (d .. c) \subseteq Asked}
ShownCpus ==
    phase = "showing" =>
        /\ count = Cardinality({c \in Asked : c >= lo_cpu})
        /\ {shown[i] : i \in DOMAIN shown} =
                {c \in Asked : /\ c < lo_cpu
                               /\ c = Min(RunOf(c)) \/ Cardinality(RunOf(c)) < 4}
        /\ \A i, j \in DOMAIN shown : i < j => shown[i] < shown[j]
=============================================================================
