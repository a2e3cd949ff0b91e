-------------------------------- MODULE Options --------------------------------
(***************************************************************************)
(* From the command line to the job, and what becomes of the job:           *)
(* parse_options, the times of timespec_utils.c, setup_polling_batches, and *)
(* every place from there to the end where the process may end or go on for *)
(* ever.  Of the run these places are all there is here: Job models what    *)
(* the threads do meanwhile, ABClock main's loop, CpuSet the <cpus> fields. *)
(*                                                                         *)
(* An argument is a record of its fields, as the functions that parse them  *)
(* tell them apart; a field they cannot parse is Garbage.                   *)
(***************************************************************************)
EXTENDS Integers, Sequences, FiniteSets

CONSTANTS
    CommandLines,   \* sequences of options
    Thousand, Sixty, TwentyFour,   \* of the units of time: 1000, 60 and 24
    Word,           \* of uint64_t and size_t: 2^64
    OutputBits,     \* of a parameter: 64
    Flags,          \* the names of the bits of op_flag_t
    Cpus,           \* the cpus of the machine
    Garbage

ASSUME OptionsAssumption ==
    /\ Thousand \in Nat \ {0, 1} /\ Sixty \in Nat \ {0} /\ TwentyFour \in Nat \ {0}
    /\ Word \in Nat \ {0} /\ Word > 10 * Thousand * Thousand * Thousand
    /\ OutputBits \in Nat /\ OutputBits > 3 /\ OutputBits % 2 = 0

VARIABLES
    phase,          \* where main is, or how the process has ended
    args,           \* the options that getopt_long has yet to return
    duration, ab_duration, ab_randomized,
    main_cpu,
    polls,          \* of each poll, its interval, flags, control_cpu and total_ops
    benchmarks,     \* of each benchmark, its first parameter
    execution_cpus, \* the cpus of the benchmarks
    longitudinals,  \* of each longitudinal, its type
    i,              \* the index of the loops over polls
    jobout,         \* what job.out shows of them
    msr_safe,       \* the driver: what of it fails, if not all "works"
    given           \* history: the command line

jobVars == <<duration, ab_duration, ab_randomized, main_cpu, polls, benchmarks,
             execution_cpus, longitudinals>>
vars == <<phase, args, jobVars, i, jobout, msr_safe, given>>

\* A file cannot be opened, the allowlist not be written, or batches not be run.
Drivers == {"no_allowlist", "write_fails", "no_batch", "ioctl_fails", "works"}

Endings == {"exited", "killed", "aborted", "segv", "done"}

-----------------------------------------------------------------------------
(* Times.                                                                  *)

NsPerSecond == Thousand * Thousand * Thousand
PerSecond == [ns |-> NsPerSecond, us |-> Thousand * Thousand, ms |-> Thousand,
              s |-> 1]
Seconds == [m |-> Sixty, h |-> Sixty * Sixty, d |-> Sixty * Sixty * TwentyFour]

\* Without a suffix, the unit is s.  What overflows is cut off.
str2timespec(t) ==
    IF t.unit \in DOMAIN PerSecond
    THEN LET n == PerSecond[t.unit]
         IN  [tv_sec |-> t.val \div n, tv_nsec |-> (t.val % n) * (NsPerSecond \div n)]
    ELSE [tv_sec |-> (t.val * Seconds[t.unit]) % Word, tv_nsec |-> 0]

Nanoseconds(t) == (t.tv_sec * NsPerSecond + t.tv_nsec) % Word

DivisionRoundingUp(numerator, denominator) ==
    (Nanoseconds(numerator) + Nanoseconds(denominator) - 1)
        \div Nanoseconds(denominator)
timespec_division(numerator, denominator) ==
    Nanoseconds(numerator) \div Nanoseconds(denominator)

NsPer == [ns |-> 1, us |-> Thousand, ms |-> Thousand * Thousand, s |-> NsPerSecond,
          m |-> NsPerSecond * Sixty, h |-> NsPerSecond * Seconds.h,
          d |-> NsPerSecond * Seconds.d]

\* In the largest unit that fits, with three digits after the point.
LargestUnit(ns) ==
    CHOOSE u \in DOMAIN NsPer :
        /\ NsPer[u] <= ns \/ u = "ns"
        /\ \A w \in DOMAIN NsPer : NsPer[w] <= ns => NsPer[w] <= NsPer[u]

Shown(t, digit) ==
    LET ns == Nanoseconds(t)
        unit == LargestUnit(ns)
        size == NsPer[unit]
    IN  [whole |-> ns \div size, unit |-> unit,
         part |-> IF unit = "ns" THEN 0 ELSE (ns % size) \div digit[unit]]

ShownBySeconds(t) == Shown(t, [u \in DOMAIN NsPer |-> NsPerSecond \div Thousand])
timespec2str(t) == Shown(t, [u \in DOMAIN NsPer |-> NsPer[u] \div Thousand])

-----------------------------------------------------------------------------
(* Other fields.                                                           *)

\* The first hw of the bits first, first + 2, ... up to last.
EveryOther(first, last) == {j \in first .. last : (j - first) % 2 = 0}
OneBitMore(first, last, hw) == {j \in EveryOther(first, last) : j - first <= 2 * hw}
FirstBits(first, last, hw) == {j \in EveryOther(first, last) : j - first < 2 * hw}

create_hw_param(hw) ==
    LET odd == FirstBits(1, OutputBits - 2, hw)
        even == FirstBits(2, OutputBits - 1, hw - Cardinality(odd))
        left == hw - Cardinality(odd) - Cardinality(even)
    IN  odd \cup even \cup (IF left > 0 THEN {0} ELSE {})
            \cup (IF left > 1 THEN {OutputBits - 1} ELSE {})

\* Names that are none of op_flag_t are ignored.
str2flags(names) == names \cap Flags

Parsed(option) == Garbage \notin {option[f] : f \in DOMAIN option}

Exits(option) ==
    \/ option.opt \in {"v", "h", "?"}
    \/ ~Parsed(option)
    \/ option.opt = "p" /\ str2timespec(option.time) = [tv_sec |-> 0, tv_nsec |-> 0]

IsTime(t) == t \in [val : Nat, unit : DOMAIN NsPer]
IsOption(option) ==
    Parsed(option) =>
        /\ option.opt \in {"t", "T", "p"} => IsTime(option.time)
        /\ option.opt \in {"m", "b"} => IsFiniteSet(option.cpus)
        \* CpuSet shows what get_next_cpu makes of the others.
        /\ option.opt = "b" => option.cpus \subseteq 0 .. 254 /\ option.hw \in Nat

ASSUME CommandLinesAssumption ==
    \A line \in CommandLines :
        /\ line \in Seq({line[k] : k \in DOMAIN line})
        /\ \A k \in DOMAIN line : IsOption(line[k])

-----------------------------------------------------------------------------
Default == [duration |-> [val |-> 10, unit |-> "s"],
            ab_duration |-> [val |-> 1, unit |-> "s"]]

Init ==
    /\ phase = "options"
    /\ given \in CommandLines
    /\ args = given
    /\ duration = str2timespec(Default.duration)
    /\ ab_duration = str2timespec(Default.ab_duration)
    /\ ab_randomized = FALSE
    /\ main_cpu = {}
    /\ polls = <<>> /\ benchmarks = <<>> /\ longitudinals = <<>>
    /\ execution_cpus = {}
    /\ i = 1
    /\ jobout = <<>>
    /\ msr_safe \in Drivers

Parse(opt) ==
    /\ phase = "options" /\ args # <<>>
    /\ ~Exits(Head(args)) /\ Head(args).opt = opt
    /\ args' = Tail(args)
    /\ UNCHANGED <<phase, i, jobout, msr_safe, given>>

Refuse ==
    /\ phase = "options" /\ args # <<>>
    /\ Exits(Head(args))
    /\ phase' = "exited"
    /\ UNCHANGED <<args, jobVars, i, jobout, msr_safe, given>>

Time ==
    /\ Parse("t")
    /\ duration' = str2timespec(Head(args).time)
    /\ UNCHANGED <<ab_duration, ab_randomized, main_cpu, polls, benchmarks,
                   execution_cpus, longitudinals>>

ABTime ==
    /\ Parse("T")
    /\ ab_duration' = str2timespec(Head(args).time)
    /\ UNCHANGED <<duration, ab_randomized, main_cpu, polls, benchmarks,
                   execution_cpus, longitudinals>>

Randomize ==
    /\ Parse("R")
    /\ ab_randomized' = TRUE
    /\ UNCHANGED <<duration, ab_duration, main_cpu, polls, benchmarks,
                   execution_cpus, longitudinals>>

\* str2cpuset starts from no cpus: the last -m wins.
MainCpu ==
    /\ Parse("m")
    /\ main_cpu' = Head(args).cpus
    /\ UNCHANGED <<duration, ab_duration, ab_randomized, polls, benchmarks,
                   execution_cpus, longitudinals>>

PollOption ==
    /\ Parse("p")
    /\ polls' = Append(polls, [interval |-> str2timespec(Head(args).time),
                               flags |-> str2flags(Head(args).flags),
                               control_cpu |-> Head(args).control_cpus,
                               total_ops |-> 0])
    /\ UNCHANGED <<duration, ab_duration, ab_randomized, main_cpu, benchmarks,
                   execution_cpus, longitudinals>>

\* A thread, and a benchmark_config, for each cpu.
BenchmarkOption ==
    /\ Parse("b")
    /\ benchmarks' = benchmarks \o
            [c \in 1 .. Cardinality(Head(args).cpus) |-> create_hw_param(Head(args).hw)]
    /\ execution_cpus' = execution_cpus \cup Head(args).cpus
    /\ UNCHANGED <<duration, ab_duration, ab_randomized, main_cpu, polls,
                   longitudinals>>

LongitudinalOption ==
    /\ Parse("l")
    /\ longitudinals' = Append(longitudinals, Head(args).type)
    /\ UNCHANGED <<duration, ab_duration, ab_randomized, main_cpu, polls,
                   benchmarks, execution_cpus>>

\* print_options
PrintOptions ==
    /\ phase = "options" /\ args = <<>>
    /\ phase' = "allowlist"
    /\ jobout' = [duration |-> timespec2str(duration),
                  ab_duration |-> timespec2str(ab_duration),
                  ab_randomized |-> ab_randomized,
                  longitudinals |-> longitudinals,
                  polls |-> [p \in DOMAIN polls |->
                                [flags |-> polls[p].flags,
                                 interval |-> timespec2str(polls[p].interval)]]]
    /\ UNCHANGED <<args, jobVars, i, msr_safe, given>>

-----------------------------------------------------------------------------
(* main, after parse_options                                               *)

\* populate_allowlist: assert( -1 != fd ), and exit( -1 ) if not all was written.
PopulateAllowlist ==
    /\ phase = "allowlist"
    /\ phase' = IF msr_safe = "no_allowlist" THEN "aborted"
                ELSE IF msr_safe = "write_fails" THEN "exited" ELSE "batches"
    /\ UNCHANGED <<args, jobVars, i, jobout, msr_safe, given>>

\* setup_polling_batches
SetupPoll ==
    /\ phase = "batches" /\ i <= Len(polls)
    /\ Nanoseconds(polls[i].interval) # 0
    /\ polls' = [polls EXCEPT ![i].total_ops =
                    timespec_division(duration, polls[i].interval)]
    /\ i' = i + 1
    /\ UNCHANGED <<phase, args, duration, ab_duration, ab_randomized, main_cpu,
                   benchmarks, execution_cpus, longitudinals, jobout, msr_safe, given>>

\* SIGFPE
DivideByZero ==
    /\ phase = "batches" /\ i <= Len(polls)
    /\ Nanoseconds(polls[i].interval) = 0
    /\ phase' = "killed"
    /\ UNCHANGED <<args, jobVars, i, jobout, msr_safe, given>>

\* sched_setaffinity refuses a set without a cpu of the machine.
CanPin(cpus) == cpus \cap Cpus # {}

\* assert( 0 == sched_setaffinity( ... ) )
PinMain ==
    /\ phase = "batches" /\ i > Len(polls)
    /\ phase' = IF CanPin(main_cpu) THEN "run" ELSE "aborted"
    /\ i' = 1
    /\ UNCHANGED <<args, jobVars, jobout, msr_safe, given>>

-----------------------------------------------------------------------------
(* The run, from the first pthread_create to the last pthread_join.  Of     *)
(* what may end it, what comes first depends on the threads.                *)

ThreadsPinned ==
    /\ \A p \in DOMAIN polls : CanPin(polls[p].control_cpu)
    /\ \A cpu \in execution_cpus : CanPin({cpu})

\* A thread that cannot be pinned, before it tries its lock: main will join it.
PinThread ==
    /\ phase = "run" /\ ~ThreadsPinned
    /\ phase' = "aborted"
    /\ UNCHANGED <<args, jobVars, i, jobout, msr_safe, given>>

\* assert( -1 != fd ), of a poll or of main, at the latest in SETUP.
OpenBatch ==
    /\ phase = "run" /\ msr_safe = "no_batch"
    /\ phase' = "aborted"
    /\ UNCHANGED <<args, jobVars, i, jobout, msr_safe, given>>

\* The driver refuses the batch of a poll, which calls exit( -1 ).
IoctlFails ==
    /\ phase = "run" /\ msr_safe = "ioctl_fails"
    /\ \E p \in DOMAIN polls : CanPin(polls[p].control_cpu) /\ polls[p].total_ops > 0
    /\ phase' = "exited"
    /\ UNCHANGED <<args, jobVars, i, jobout, msr_safe, given>>

\* ABClock: a fraction of a second like these never makes elapsed.tv_sec a second,
\* and all others do.  What is 2^63 seconds or more is negative as a time_t: a
\* duration ends the loop at once; with an ab_duration it may end, by overflow.
NeverASecond(t) ==
    t.tv_sec = 0 /\ (t.tv_nsec = 0 \/ (NsPerSecond - 1) % t.tv_nsec = 0)
ABLoopEnds ==
    \/ duration.tv_sec = 0 \/ duration.tv_sec >= Word \div 2
    \/ ~NeverASecond(ab_duration)

\* The A|B loop has ended, main has rung the bell and joined all threads.
JoinThreads ==
    /\ phase = "run"
    /\ ThreadsPinned /\ msr_safe # "no_batch" /\ ABLoopEnds
    /\ phase' = "dump"
    /\ UNCHANGED <<args, jobVars, i, jobout, msr_safe, given>>

\* Another round.
ABLoop == phase = "run" /\ UNCHANGED vars

-----------------------------------------------------------------------------
(* After the run                                                           *)

\* dump_batches: assert( total_ops > 2 ), poll by poll.
DumpFrom(least) ==
    /\ phase = "dump" /\ i <= Len(polls)
    /\ IF polls[i].total_ops >= least
       THEN phase' = phase /\ i' = i + 1
       ELSE phase' = "aborted" /\ i' = i
    /\ UNCHANGED <<args, jobVars, jobout, msr_safe, given>>

DumpTwo == DumpFrom(2)
DumpPoll == DumpFrom(3)

\* cleanup() starts with job.polls[0].
Cleanup ==
    /\ phase = "dump" /\ i > Len(polls)
    /\ phase' = IF polls = <<>> THEN "segv" ELSE "done"
    /\ UNCHANGED <<args, jobVars, i, jobout, msr_safe, given>>

Ended == phase \in Endings /\ UNCHANGED vars

Next ==
    \/ Refuse \/ Time \/ ABTime \/ Randomize \/ MainCpu
    \/ PollOption \/ BenchmarkOption \/ LongitudinalOption \/ PrintOptions
    \/ PopulateAllowlist \/ SetupPoll \/ DivideByZero \/ PinMain
    \/ PinThread \/ OpenBatch \/ IoctlFails \/ ABLoop \/ JoinThreads
    \/ DumpPoll \/ Cleanup \/ Ended

Spec == Init /\ [][Next]_vars

-----------------------------------------------------------------------------
(* What the user asked for.                                                *)

Places(opt) == {k \in DOMAIN given : given[k].opt = opt}

\* given[k] is the Number(k)-th of its kind.
Number(k) == Cardinality({j \in 1 .. k : given[j].opt = given[k].opt})
Given(opt, n) == given[CHOOSE k \in Places(opt) : Number(k) = n]
Count(opt) == Cardinality(Places(opt))

LastGiven(opt) == given[CHOOSE k \in Places(opt) : \A j \in Places(opt) : j <= k]
LastTime(opt, default) == IF Places(opt) = {} THEN default ELSE LastGiven(opt).time

NsOf(t) == t.val * NsPer[t.unit]
AskedDuration == NsOf(LastTime("t", Default.duration))
AskedABDuration == NsOf(LastTime("T", Default.ab_duration))
AskedInterval(p) == NsOf(Given("p", p).time)
AskedMain == IF Places("m") = {} THEN {} ELSE LastGiven("m").cpus

\* What size_t can hold: 584 years.
Fits(ns) == ns < Word

\* job.h:33: one sample per interval, for as long as the job lasts.  A poll has
\* exactly as many ops as intervals fit into the duration, the last one given, in
\* whatever units and in whatever order the options come.
SamplesFitDuration ==
    phase \in {"run", "dump", "done"} /\ Fits(AskedDuration) =>
        \A p \in DOMAIN polls : Fits(AskedInterval(p)) =>
            LET n == polls[p].total_ops
            IN  /\ n * AskedInterval(p) <= AskedDuration
                /\ AskedDuration < (n + 1) * AskedInterval(p)

\* What decides how the job ends, of what was asked for.
Refused == \E k \in DOMAIN given : Exits(given[k])
Total(p) == (AskedDuration % Word) \div (AskedInterval(p) % Word)
ZeroInterval == \E p \in 1 .. Count("p") : AskedInterval(p) % Word = 0
FewSamples == \E p \in 1 .. Count("p") : Total(p) <= 2
AskedPinned ==
    /\ \A p \in 1 .. Count("p") : CanPin(Given("p", p).control_cpus)
    /\ \A k \in Places("b") : given[k].cpus \subseteq Cpus
Unending ==
    /\ AskedABDuration < NsPerSecond
    /\ AskedABDuration = 0 \/ (NsPerSecond - 1) % AskedABDuration = 0
    /\ AskedDuration >= NsPerSecond /\ AskedDuration < NsPerSecond * (Word \div 2)

\* options.c:22-34: no option is said to be required, and none is checked against
\* the others or against the machine.  How a job has ended tells what was asked for.
\* It is done only with a poll, three samples of each poll, a cpu of the machine for
\* main and every thread, and an A|B loop that ends: that of a job of a second or
\* more does not with an --abTime of 0 or of a fraction that divides 999'999'999 ns.
\* It is killed by an interval of 0 ns modulo 2^64, before anything runs; aborted
\* without a cpu for main, or one for a thread, which spares it an unending loop;
\* aborted for its samples, or by a crash without any poll, only when it has run; and
\* if msr-safe does its part, it exits only by what the parser refuses.
Loads == ~Refused /\ msr_safe \notin {"no_allowlist", "write_fails"}
Starts == Loads /\ ~ZeroInterval
Runs == Starts /\ CanPin(AskedMain)
RunsToEnd == Runs /\ AskedPinned /\ msr_safe # "no_batch" /\ ~Unending

OutcomeOfOptions ==
    /\ phase = "exited" =>
        \/ Refused \/ msr_safe = "write_fails"
        \/ /\ Runs /\ msr_safe = "ioctl_fails"
           /\ \E p \in 1 .. Count("p") :
                CanPin(Given("p", p).control_cpus) /\ Total(p) > 0
    /\ phase = "aborted" =>
        \/ ~Refused /\ msr_safe = "no_allowlist"
        \/ Starts /\ ~CanPin(AskedMain)
        \/ Runs /\ (~AskedPinned \/ msr_safe = "no_batch")
        \/ RunsToEnd /\ FewSamples
    /\ phase = "killed" => Loads /\ ZeroInterval
    /\ phase = "segv" => RunsToEnd /\ Places("p") = {}
    /\ phase = "done" => RunsToEnd /\ Places("p") # {} /\ ~FewSamples

\* The time on paper is the time asked for, to a thousandth of its unit.
Tells(shown, asked) ==
    Fits(asked) =>
        LET size == NsPer[shown.unit]
            least == shown.whole * size + shown.part * (size \div Thousand)
        IN  /\ least <= asked
            /\ Thousand * (asked - least) < size \/ least = asked
            /\ shown.part < Thousand

\* options.c:94: job.out tells what will be run: the durations and, of the polls in
\* their order, the intervals and the flags, but for those names that none has.
JobOutTells ==
    jobout # <<>> =>
        /\ Tells(jobout.duration, AskedDuration)
        /\ Tells(jobout.ab_duration, AskedABDuration)
        /\ jobout.ab_randomized <=> Places("R") # {}
        /\ jobout.longitudinals = [l \in 1 .. Count("l") |-> Given("l", l).type]
        /\ Len(jobout.polls) = Count("p")
        /\ \A p \in DOMAIN jobout.polls :
            /\ Tells(jobout.polls[p].interval, AskedInterval(p))
            /\ jobout.polls[p].flags = Given("p", p).flags \cap Flags

\* options.c:43-46: hwN fills in the odd-numbered bits, excepting bit 63, then the
\* even-numbered, excepting bit 0, and finally bits 0 and 63, N in all, or 64; the
\* thread of each cpu gets this value.
Rank(j) ==
    IF j = 0 THEN OutputBits - 2
    ELSE IF j = OutputBits - 1 THEN j
    ELSE IF j % 2 = 1 THEN (j - 1) \div 2
    ELSE OutputBits \div 2 - 1 + (j - 2) \div 2
ThreadsOf(options) == UNION {{k} \X given[k].cpus : k \in options}
Before(k) == Cardinality(ThreadsOf({j \in Places("b") : j < k}))
HammingWeights ==
    phase \notin {"options", "exited"} =>
        /\ Len(benchmarks) = Cardinality(ThreadsOf(Places("b")))
        /\ \A k \in Places("b") : \A c \in 1 .. Cardinality(given[k].cpus) :
            benchmarks[Before(k) + c] = {j \in 0 .. OutputBits - 1 : Rank(j) < given[k].hw}
=============================================================================
