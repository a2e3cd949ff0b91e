# A verification development of `var`

`var` runs benchmark threads on chosen cpus, alternates them between two
workloads, A and B, samples model-specific registers (MSRs) from polling
threads through the `msr-safe` driver while they run, counts with the
fixed-function counters from start to end, and writes everything out for
analysis. The C source is in `src/`; this directory holds TLA+ modules that model
it, the TLC configurations that check them on small instances, and theorems that
TLAPS checks for every instance. `PROJECT.json` lists the components, the runs,
the mutants that show what each property is sensitive to, the source lines of
every definition, the findings, the hazards and the theorems.

Contents: [the system](#the-system) · [the modules](#the-modules) ·
[the runs](#the-runs) · [fairness](#fairness) · [the proofs](#the-proofs) ·
[findings](#findings) · [assumptions](#assumptions) ·
[what is not modelled](#what-is-not-modelled) · [plan](#plan)

## The system

One process. `main()` parses the options into `struct job` (`job.h:80-112`), loads
the driver's allowlist, builds all batches, creates one thread per poll and one per
benchmark cpu, lets them go, alternates the workload until the time is up, rings
`halt`, joins every thread, dumps, and frees everything. It keeps nothing between
runs: there is no recovery to model, and a crash is an end.

| Component | State it keeps | Operations | Talks to |
| --- | --- | --- | --- |
| main (`main.c:117-247`) | `halt`, `ab_selector`, `valid`, elapsed time, loop indices | create, release and join threads; A\|B loop; slots; dump; free | all threads through `struct job`; the driver through batches |
| poll threads (`main.c:66-100`) | op index, `rc`, tags, captured outputs | wait at the gate, sample, tag, set `valid`, check, capture, nap | main (`halt`, `valid`, `ab_selector`, mutex), one benchmark (`key_ptr`, `single_output_ptr`), the driver |
| benchmark threads (`main.c:102-115`, `spin.c`) | accumulators, operands, window index, `single_output`, the global `local` | wait at the gate, loop until `halt`, report loops | main (`halt`, `ab_selector`, mutex), each other (`local`, `R`), one poll |
| A\|B clock (`main.c:186-211`) | `elapsed` | add `ab_duration`, compare with `duration` | main's loop |
| longitudinal batches (`msr_utils.c:165-312, 378-436, 919-942`) | recipes, op counts, batches, static fd | count ops, lay out batches, run a slot | the counters of the sampled cpus |
| polling batches (`msr_utils.c:338-376`) | `total_ops`, `poll_batches`, `poll_ops` | allocate one op per interval | poll threads |
| rollover pass (`msr_utils.c:634-666`) | `cumulative_adjustment` | make energy readings monotonic | results of all polls, before the dump |
| dump and vote (`msr_utils.c:685-916`) | files | rollover pass, files per field, vote per bit | results of all polls and benchmarks |
| cpu sets (`cpuset_utils.c`) | `cpu_set_t` | parse a field, iterate | options, batches, pinning |
| options, flags, integers, times (`options.c`, `int_utils.c`, `timespec_utils.c`, `msr_utils.c:944-993`) | `struct job` | translate the command line, exit on bad input | everything, before any thread exists |
| allowlist (`msr_utils.c:444-460`) | none | write one constant string | the driver |

What is hard about each, and what makes it correct:

- **main and its threads.** Three `volatile bool`s are shared by all threads without
  a lock, and mutexes are used as one-way gates: main locks them before it
  creates the threads, unlocks them to release them, and no thread ever unlocks.
  Correct means: no thread works outside the time in which the counters run;
  nothing is read out or freed while a thread may write to it; fields that main
  initialises after `pthread_create` are not yet in use; slots run once each and in order;
  a sample that spans two workloads is not taken for a valid one; the
  job ends.
- **The A\|B clock.** Carry and remainder of seconds and nanoseconds. Correct means:
  the loop ends, and after the time it was given.
- **Benchmarks.** Each reads the workload at several places of a pass. Correct
  means: what is counted for a workload was done for it, up to the flips; the operands
  are the ones the user wanted; windows of the table stay in the table, change only with
  the workload, and a result is of one window even when it is copied at any moment.
- **Longitudinal batches.** Five slots, cpu after cpu, on counters that others have
  used, by batches that may be refused and ops that may fail. Correct means: what is read is what was
  retired between start and stop, on every cpu whose own ops succeeded, and no cpu starts or stops long before
  the others.
- **Rollover pass.** Registers that turn over within and between samples, unused ops at the end, several
  polls in one pass. Correct means: differences of readings are energy.
- **Capture and vote.** `polls[0]` copies a result of a running benchmark after every sample, and the
  analysis attributes the energy of the sample to it. Correct means: key and output belong together;
  the sample's energy was used for the output that was copied; the votes of the bits add up to the energy used.
- **Dump.** Rows are differences of successive readings. Correct means: they add up to what the
  hardware did from the first sample to the last.
- **Options and times.** Units, suffixes, wrap-around, options in any order and more than once. Correct
  means: the job that runs, and that `job.out` tells of, is the one asked for, and how it ends is explained by its options, the machine and the driver.
- **Cpu sets.** Ranges and single cpus with bounds, repetitions and an iterator that must be given
  the right start. Correct means: one thread on each cpu asked for and on no other, and a text that names them.

## The modules

| Module | What it is |
| --- | --- |
| `Measurement` | abstract specification: workers act only while the measurement is open, results are read when all have finished, memory is released last, the process may die at any time |
| `Job` | main, poll threads and benchmark threads, one action per access to a shared location; implements `Measurement` |
| `JobProofs` | theorems about `Job` and `Capture` |
| `Capture` | `Job` composed with the loop of an ABXOR and with the copies that `polls[0]` makes of its output and key; implements `Job` |
| `ABClock`, `ABClockProofs` | the elapsed-time arithmetic, and theorems about it |
| `Spin`, `SpinProofs` | `run_spin` and `run_abshift` beside main, and theorems about them |
| `Abxor`, `AbxorProofs` | the threads of `run_abxor` beside main, and theorems about them |
| `CpuSet`, `CpuSetProofs` | `str2cpuset`, `get_next_cpu` and the pinning of benchmark threads, `cpuset2str`; theorems about the pinning and the showing |
| `Longitudinal`, `LongitudinalProofs` | recipes, batches, the allowlist, and their effect on the counters of working cpus, with faults of the driver; theorems about them |
| `Rollover` | `manage_energy_rollover` after polls on meters that turn over |
| `Dump` | `Rollover` composed with the vote on the key and with the rows of two of the files; implements `Rollover` |
| `DumpProofs` | theorems about `Rollover` and `Dump` |
| `Options`, `OptionsProofs` | from the command line to the job and `job.out`, the times, the number of samples, and what may end the job, before, in and after its run; theorems about them |
| `MC...` | the instances that TLC checks |

`Capture` extends `Job` and `Dump` extends `Rollover`: every step of the one is a step of the other, or
leaves its variables alone. Both are theorems, so that all that is proved about `Job` and `Rollover` holds of them too. The other
modules do not share variables; where two meet, one abstracts the other and says so: `Job` takes the number
of rounds (`ABClock` tells how many), the work of a benchmark loop (`Spin`, `Abxor`, `Capture`)
and `total_ops` (`Options`) as given; `Options` takes of the run what may end it, in any order that the threads allow (`Job` has their
steps), and for which `--abTime` the A\|B loop never ends (`ABClock` shows it); `Capture` encodes in one step (`Abxor` shows that
`single_output` never holds anything but a whole encoding); `Longitudinal` takes the cpus of a set in ascending
order (`CpuSet` shows it); `Dump` takes any output and any tag for a sample (`Capture` and `Job` say which);
`Spin` and `Abxor` reduce main to its two stores that they read.

### Job

Every thread has a program counter: `mpc` for main, `ppc[p]` for a poll, `bpc[b]` for a
benchmark. main's loops over polls and benchmarks share the index `mi`. The actions of
main, in the order of `main.c`, are `CreatePoll`, `ResetPoll0` (lines 136-141, after the
thread exists), `CreateBench`, `RunSlot` for SETUP and START, `ReleasePoll`, `ReleaseBench`, the
rounds `Select`, `Invalidate`, `Sleep`, then `RingTheBell`, `JoinBench`, `JoinPoll`,
`RunSlot` for STOP and READ, `Dump`, `DestroyMutexes`, `RunSlot` for TEARDOWN, `FreeBatches`, `Cleanup`.
`Select` and `Invalidate` are two actions because the code has two stores; a
randomized round that draws the running workload stores nothing.

A sample of a poll is `Check` (the loop condition), `IssueIoctl`, `IoctlReturns`, the two
reads of the tag in either order (`ReadSelector`, `ReadValid`; C does not order the
operands of `|`), `StoreTag` (the tag and `valid = true`), `CheckRc` (which
ends the process when the ioctl had failed, after the tag was stored) and `Wake`.
The capture of the benchmark's output and key, which touches nothing that `Job` reads, is added by
`Capture`. A mutex is `none`, `free`, or held by `main` or by the `thread`.

`begun`, `flipped`, `invalidated` and `late` are history: what happened since the
ioctl of the current sample was issued. They are set by the actions and read by
properties only. `Faults` says which failures are possible: a batch ioctl that returns -1
and a thread that cannot be pinned.

### Capture

`Abxor0Thread` is what `Job` leaves open in `Work` of the first benchmark, at the locations where
`run_abxor` meets others: `TakeKey` (the key is stored before the loop), `Start`, `Test` (halt), `Compare`,
`Notice` (the workload is read again), `Encode`, `Repeats` times a pass (1000 in the code). `window` numbers
the windows of `R` that it has taken, so that an output is named by the window that it encodes. `CheckRc` of
`polls[0]` is followed by `FirstCopy` and `SecondCopy`, in the order of the source, and a nap ends only then.
History variables say which windows were being encoded while the ioctl of the sample ran (`encoded`),
whether the benchmark was up to date when it was issued (`settled`), whether main has changed the workload since
(`disturbed`), and for how many encodings the benchmark has lagged (`overdue`).

### ABClock

One action, `Round`, is a turn of the do-while loop. `NS`, 10^9 in the code, is a
constant: the modulus `999'999'999` is `NS - 1`, and small values of `NS` show every
remainder. The second assignment to `elapsed` reads the `tv_nsec` that the first one read.

### Spin and Abxor

`Spin` splits a pass where it reads a volatile: `Test` (halt), `ShiftOperand` (the first
read of `ab_selector`), `Count` (the second one, in the loop's increment). The shift is
done on `Width` bits; an amount of `Width` or more is undefined in C, and is taken modulo
`Width`, as the shift instructions of x86 do.

`Abxor` treats a `uint64_t` made of entries of the random table `R` as the set of their
indices, `^` being symmetric difference. The comparison of `Notice` and its second
read of `ab_selector` are separate actions. The global `local` is written by all threads
without synchronisation, which C leaves undefined; the variable `job` picks one of the
outcomes that the Makefile's two sets of flags produce, and the threads that run: with `-O2`
(lines 38-39) gcc keeps `local` in a register through the encoding and only stores it, with
the `-Og` of the debugging flags (lines 35-36) every `^=` loads and stores it. Index arithmetic is that of `size_t`, modulo `SizeValues`.

### CpuSet

A field is a sequence of tokens `[lo, hi]`. `Reject` has the tests of `str2cpuset` in one
disjunction, since each of them exits; `Accept` sets a range. `get_next_cpu` is an operator: it
tests its start first, whatever it is, then every cpu below both bounds, and
answers 0 when there is none. `Pin` is a turn of the loop of `parse_options`. `Skip` and `Show` are
the turns of the loop of `cpuset2str`, which counts down the cpus that it has yet to show.

### Longitudinal

The recipes are tables from slot to sequence of ops, as in the code. `CountOps` is the counting loop,
which follows pointers to the first NULL it meets in the memory where the compiler laid out the arrays,
forwards or backwards: an element of `Layouts` gives each array its place, `Behind` is what lies from an array on, and
`ToFirstNull` the number of pointers up to the first NULL among them. `Ascending` is the order in which `get_next_cpu` yields
the cpus of a set. `MakeBatches` is the double loop over ops and cpus, `ExecuteOp` one op by the
driver on its cpu, `NextLongitudinal` and `NextSlot` the loops of
`run_longitudinal_batches` and its callers. `Work(cpu)`, external, retires an
instruction at any moment and is counted if the counters of that cpu run. Init leaves the
counters of every cpu in any state. Faults, also external: `OpFails`, an op that the cpu rejects, whose `err` is set
while the batch goes on; `BatchRefused`, a batch of which nothing is executed, which happens
when the allowlist forbids an op, and may happen otherwise. main looks at neither. "Without faults" means that no op fails at all, those by which ALL_ALLOWED reads
the other MSRs included.

### Rollover and Dump

`Sample` is external: a meter that only grows, read through a register that shows
what is above `base` and turns over at `Turn`. After any number of samples per poll the
pass visits every op of every energy poll, used or not, in three disjoint actions: a turn
within the op, a turn since the previous op, and no turn.

`Dump` continues when the pass is done. The vote visits the used ops of `polls[0]`: `SkipInvalid` for a tag
that is not valid, `Vote` for any output, an element of `Encodings`. A vote is a `double` in the code and is
counted here in parts so small that every division is exact: `Parts` of them make a vote, a number that every weight from 1 to
`CountedBits` divides; a bit that was given a quotient by
zero is in `spoilt`. A line of the file is a snapshot. Then each poll's files are written, row after row from the second op on:
the sums of a column that is a difference of counters, and of one that is a difference of temperatures, stand for
all columns.

### Options

A command line is a sequence of options, an option a record of the fields that its parser tells apart; one that cannot be
parsed is `Garbage`. What the user asked for is said by the `Places` of the options of a kind on the command line, and by the
`Number` that an option has among them, never by replaying the parser. There is an action per option of `parse_options` that changes the job, and `Refuse` for all that exit.
`str2timespec`, `timespec2str`, `timespec_division`, `create_hw_param` and `str2flags` are operators, with the
units of time and the size of `uint64_t` as constants, because 10^9 and 2^64 are out of TLC's reach and
nothing depends on them. After `PrintOptions` come all places where the process may end, or go on for ever. `msr_safe` says what of the driver
fails: the file of the allowlist, the write to it, the file of the batches, or the batch of a poll. Before the run stand `PopulateAllowlist`,
`SetupPoll` or `DivideByZero`, and `PinMain`. From the first `pthread_create` to the last `pthread_join` the phase is `run`: a poll or benchmark thread that
cannot be pinned aborts the job (`PinThread`: the `control_cpu` field of a poll may be empty, a cpu may not be one of the machine's `Cpus`), and so does a file of
batches that cannot be opened (`OpenBatch`); a batch that the driver refuses to a poll ends it with an exit (`IoctlFails`); `ABLoop` is another
round of main's loop, and `JoinThreads` is possible only if that loop can end (`ABLoopEnds`) and there is no thread that fails before main has joined it. Which of them comes
first is the threads' affair, and any may. After it stand `DumpPoll` and `Cleanup`. `OutcomeOfOptions` has a clause for each ending, which says what must have been asked for.

## The runs

Runs that must pass:

| Run | Instance | What it shows |
| --- | --- | --- |
| `JobOnePoll` | 1 poll, 2 benchmarks of which the first is ABXOR, 3 ops, up to 2 randomized rounds, both faults, fair | `MeasurementWindow`, `DataOwnership`, `AtMostOneLateSample`, `InvalidationSeen`, `Poll0WrittenBehindGate`, `SlotProtocol`, `StraddlesOnlyInWindow`, that `Job` implements `Measurement`, and `Termination` |
| `CaptureOutputs` | 1 poll of 2 ops, 1 ABXOR that encodes twice a pass, 2 rounds that alternate, both faults, fair benchmark | `KeyWithOutput`: no output without its key; `EnergyIsOfOutput`: an undisturbed sample copies the one output that was encoded while it was taken; `OverdueByOnePass` and `FlipNoticed`: a change of workload is noticed after one pass at most, and at last |
| `ABClockLoop` | a second of 13 ns, every `ab_duration` below 3 s, durations up to 3 s with no fraction, half a second or all but a second, fair | which `ab_duration`s never make a second (`NeverASecond`), that all others end (`Halts`), how long the job has then run (`RunsWholeSeconds`), and that no time is counted that was not slept (`NoTimeInvented`) |
| `SpinLoops` | 4 bits, operands 1, 8, 15, shifts 0, 1, 3, 5, up to 3 flips and 4 passes | `ReportedLoops`: the report is off by at most one per flip; `OnlyTopBitsLost`: what becomes of the operands |
| `AbxorThreads` | windows of 1 and 2 entries, a table of 6, a `size_t` of 16 values, 3 flips; the `-O2` build with two threads and the `-Og` build with one | `OutputIsWhole`, `WindowInBounds`, `MovesFollowFlips` |
| `CpuSetPinning` | every field of up to 2 tokens over 7 cpus and the first invalid one, search limit 3 | `OneThreadPerCpu`; `EveryCpuPinned`: each cpu below the limit has its thread, the others may be lost to cpu 0; `ShownCpus`: what `job.out` shows of a set |
| `LongitudinalCounts` | 2 cpus, 1 counter, 3 jobs of one or two longitudinals, counters left in any state, up to 2 faults | `CountsTheWindow`: a count is right if the ops on its own cpu succeeded, and without faults all are; `InLockstep`; `RecipesCounted`: the counting loop is right although it reads past two arrays |
| `DumpVotesAndRows` | 2 polls of 3 ops and 1, a turn of 3, steps of 0, 1 and 2, outputs of 4 bits of which 2 are counted | `DeltasExact`: readings differ by energy; `EnergyShared`: votes add up to the energy used, in the lower half of the output; `RowsAddUp`: rows add up to what the hardware did |
| `OptionsToOutcome` | every command line of up to 3 of 29 options, and of 4 with `-t`, `-m` and `-p` among them; a `uint64_t` of 4096 values; 3 cpus; a driver that works, or fails in one of 4 ways | `SamplesFitDuration`; `OutcomeOfOptions`: what each ending tells of the options, and that none but a failure ends a job whose A\|B loop cannot; `JobOutTells`, `HammingWeights` |

Every property of every passing run has a mutant: a variant of one definition, such as a
dropped guard, a swapped order or an off-by-one, under which TLC finds the property
violated in the same run. The variants stand in the modules just before the definition
they vary.

Three runs must find a violation: `JobStraddle`, `JobTwoPollsInvalidation` and
`AbxorDebug`. Each checks one property that a comment or the help text of
the repository states; see [findings](#findings).

Why the bounds are enough. Three ops are the least that the dump accepts, and give a
poll a first, a middle and a last sample; two rounds give a flip while a sample is in
flight and another afterwards. One poll and two differ in kind (the properties of
`valid` hold for one and fail for two, which `JobTwoPollsInvalidation` shows with a single round);
for the invariants, that any number of threads behaves like these few is proved and not only believed.
Thirteen nanoseconds to a second leave 12 with the divisors 1, 2, 3, 4, 6 and 12, and
non-divisors on every side of them. Four bits are enough for a top bit to be lost and a
lower one kept. The table of six entries has windows that fit several times, once and not
at all at its end. A limit of 3 below 7 cpus leaves cpus on both sides of it and
at it, as 255 does below 1024, and runs of four cpus and more, which are shown as one. With two cpus a batch can be laid out in either order; two
longitudinals that share a cpu and a set with two cpus are the cases the layout and the
slots distinguish; two faults can hit one cpu twice, or both. A turn of 3 with steps up to 2 turns over within an op, between ops,
and in both of them; two polls show what is carried over, and the second, of a single op, is one that the dump does not accept.
Two encodings per pass are the least in which a pass can be interrupted; that a pass may be of any length is proved.
A `Thousand` of 4 makes units between which a remainder is lost, and with 4096 values for `uint64_t`, 64 seconds are
0 nanoseconds, so that a command line reaches the wrap-around. A second has 64 nanoseconds then: of the values for `-T`, 0 and 9 ns, a divisor of 63, never make a
second, 5 us, which are 20 ns, and 1 s do. Polls have a cpu or none, and benchmarks may name a cpu that the machine does not have. Eight bits of a parameter have odd, even and
two outermost bits, and weights below, at and above eight.

Bounds by name: `MaxRounds` (Job), `MaxSlept` (ABClock; `slept` saturates),
`MaxFlips` and `MaxLoops` (Spin, Abxor), `MaxWork` and `MaxFaults` (Longitudinal), `Steps`
(Rollover), `Repeats` (Capture), `Encodings` and `Celsius` (Dump), `CommandLines` (Options). Deadlock is checked in every run: each module has an explicit
stuttering step for its end (`Ended`, `Shutdown`, `Returned`, ...).

## Fairness

`Job!FairSpec` assumes weak fairness of main and of each poll and benchmark thread: they are
ordinary preemptively scheduled pthreads, `nanosleep` with the finite intervals
of the options returns, and the ioctl returns because OP_POLL gives up after
`MAX_POLL_ATTEMPTS` (`msr_utils.c:23`). No fairness is assumed about which thread wins a
race, about how random workloads come out, or about failures. A benchmark's `Work` is a
stuttering step; weak fairness of the thread obliges `FinishBench` once `halt`
is set and stays set. Rounds are bounded by `MaxRounds`, and that they are finite in the code
is `ABClock`'s property `Halts`, under weak fairness of `Round`. It does not hold for every `--abTime`.

`CaptureFairSpec` assumes weak fairness of the thread of the first benchmark alone: `FlipNoticed` must not depend on
anyone else. The passes of the loop are steps there and not stutters, so that this fairness obliges it to go on with the loop.

## The proofs

Eight modules hold them, and every safety property, action property and refinement that a passing run checks
is the conclusion of one of their theorems. `JobProofs` proves, for any number of polls, benchmarks, ops and rounds, and any set of faults:

| Theorem | Property |
| --- | --- |
| `TypeCorrect` | `TypeOK` |
| `WindowHolds` | `MeasurementWindow` |
| `OwnershipHolds` | `DataOwnership` |
| `LateSampleBound` | `AtMostOneLateSample` |
| `SinglePollInvalidation` | `InvalidationSeen`, if there is one poll |
| `Poll0Guarded` | `Poll0WrittenBehindGate` |
| `SlotsInOrder` | `SlotProtocol` |
| `SinglePollWindow` | `StraddlesOnlyInWindow`, if there is one poll |
| `JobIsMeasurement` | `ImplementsMeasurement` |

None of these is inductive. That a poll runs only between START and STOP depends on its
mutex, on how far main's loop has come, and on which threads main has joined. The inductive
invariant `IInv` of `JobProofs` is a conjunction of ten parts:

- `TypeOK`, `InBounds` (a poll that samples has an op left) and `MainBounds` (main has a round
  left until it decides to stop);
- `Gates`: a thread past its gate holds its mutex, and a mutex that main does not hold was
  opened by `ReleasePoll` or `ReleaseBench`; this is what makes the property about START inductive;
- `SlotsRun`: which slots have run, and whether the descriptor is open, at each label of main;
- `Joined`: the threads below the index of the join loop, and all of them after it, are done;
  this is what makes the properties about STOP and about the results inductive;
- `GivenBack`: memory is freed at the last label only;
- `LastSample`: a poll that has taken a sample after the bell is past its check of `halt`, which
  cannot succeed again;
- `FlipPending`: a flip that a sample may miss is one whose `Invalidate` is the next thing main does;
- `InvalidationHolds`: with one poll, `valid` stays false from `Invalidate` until that poll has read it.

The lemmas prove each part preserved, one step per action, and `Invariance` combines them.
`JobIsMeasurement` maps `Init` to `Init` and every action to an action of `Measurement` or a
stutter, using the invariant where `Measurement` has a guard.

The second half of `JobProofs` first shows that every step of `Capture` is a step of `Job` or leaves its variables alone
(`JobStep`), hence `CaptureIsJob`, and with it that `Job`'s `IInv` holds in every state of
`Capture`. On top of it come, for any number of threads, samples and encodings per pass, `CaptureTypeOK`
(`CaptureTypeCorrect`), `KeyWithOutput` (`KeyComesWithOutput`), `EnergyIsOfOutput` (`UndisturbedSamples`) and
`OverdueByOnePass` (`NoticedAfterOnePass`). The invariant adds: `Wired`, the pointers of `polls[0]` are set before it is released, and for good;
`Keys`, the key is there before the first output, at either end; `CopiedInNap`; `Steady`, as long as
nothing disturbs a sample that was issued to a benchmark up to date, there is one window, one output and one encoding;
`Overdue`, within a pass the benchmark has lagged for no longer than the pass. `Gates` of `Job` is what makes it
inductive: a poll that copies was released, so that it is wired.

`ABClockProofs` proves, for every `NS >= 2` and all durations, `TypeOK`, `NeverASecond`
(`StuckBelowASecond`) and `NoTimeInvented` (`CountedWasSlept`). The first of the two follows from
`Multiple`: while the fraction divides `NS - 1` and nothing was carried, `elapsed.nsec` is a multiple
of `ab_duration.nsec` below `NS - 1`, so that the next sum is at most `NS - 1`, which carries nothing and
leaves 0 at worst. `Reduced` keeps the remainder below the modulus.

`ABClockProofs` also proves `RunsWholeSeconds` (`WholeSeconds`): after `r` rounds of `n` whole seconds nothing is carried, `elapsed`
is `r * n` seconds, and the loop has stopped at the first of these that is not below `duration.tv_sec`.

`AbxorProofs` proves, for any number of threads, any table, any widths and any number of flips,
`TypeOK`, `WindowInBounds` (`WindowsInBounds`), `MovesFollowFlips` (`MovesBounded`) and `OutputIsWhole`
(`OutputsWhole`). Its invariant adds two parts. `Lag` counts a flip that a thread has seen,
or will see at its next comparison, against the windows it has taken (`Pending`): without it, two flips
between the two reads of `ab_selector` could not be told from one. `Encoding` says what a thread has encoded so
far: its register holds the entries of its window up to `i`, and the key as well at the end;
in the build that loads `local`, the global holds the same, which one thread alone can count on.

`DumpProofs` proves of the pass `TypeOK` (`TypeCorrect`) and `DeltasExact` (`DeltasAreExact`) for any number of polls and
ops, any turn, and any movement of the meters below a turn per op. Its invariant says what the registers showed of the ops
that are not handled (`Raw`: they moved as the meter did, or a turn less), what the meters did (`Forward`), and
at the op at hand that the reading before it, less `cumulative_adjustment`, is what the register showed then (`Seam`);
`cumulative_adjustment` itself may be anything, since unused ops and earlier polls add to it.
`DumpIsRollover` carries all this over to `Dump`, of which follow `EnergyShared` (`VotesAreEnergy`) and `RowsAddUp`
(`RowsTellDifferences`) for any outputs, weights, tags and temperatures. Votes and energy are sums over finite sets
(`SumFunctionOnSet`). That such a sum grows by what one element adds (`SumWithout`, `SumRaised`) is an induction over the subsets of a set; since the
induction theorems of the library take an operator, which no backend can instantiate, it is made from the well-foundedness of the
proper-subset relation, with a set in the place of the predicate (`SubsetsByElements`, and `NaturalsBySteps` for numbers). With it,
`Vote` raises each of `weight` counted bits by `fJ * (Parts \div weight)`, which is `Parts * fJ` together,
and `DeltasExact` makes `fJ` the energy of the op. `Passed` says that no vote comes from an op that is yet to come.

`SpinProofs` proves `ReportedLoops` (`LoopsReported`) for any operands, passes and flips. Its `Balance` counts a pass that has
shifted and is yet to be counted, and for one whose operand is no longer the selected one it has a flip in hand.
`OnlyTopBitsLost` (`TopBitsLost`) is proved for every `Width`, amount and operand: `2^n` is the number of subsets of a set of `n` elements, of which
the products of powers follow (`PowerCounts`, `PowersMultiply`); shifting left and right is then a
remainder (`ShiftKeeps`), and a remainder of a remainder is itself, which is why `Operands` is inductive: the second shift takes nothing more.

`CpuSetProofs` proves `OneThreadPerCpu` (`ThreadsApart`) for any field and any sizes. `Ascends` says that the cpus
below `current_cpu` have their threads, in order; that there is another one while threads are missing
is a matter of cardinalities (`OneIsLeft`), and what the search finds depends on there being no gap beyond
its limit (`NextReachable`). `EveryCpuPinned` (`AllPinnedOrCpuZero`) needs what happens otherwise, too: when the search finds
none it answers 0 and begins again, and by then all cpus that it can reach have their thread (`Wrapped`); before that, it never
goes past a cpu that it cannot reach (`NothingElse`). `Parsed` ties the set to the tokens that are left. `ShownCpus` (`RunsShownByTheirFirst`) rests on `Shows`, by which the
loop of `cpuset2str` stands at the first cpu of a run or within a run of less than four.

`LongitudinalProofs` proves `TypeOK` (`TypeCorrect`), `RecipesCounted` (`OpsCountedRight`), `CountsTheWindow` (`WindowsCounted`) and `InLockstep`
(`CpusInLockstep`) for any cpus, counters, longitudinals and faults. The count is right in either layout because the array behind each of the two without
NULL holds a NULL alone (`OnePastTheOps`). `Laid` divides the index of an element of a batch into op and cpu, quotient and
remainder, which `Companion` uses in the other direction: the cpu of one op has every other op of the recipes, at a known place. With it `Registers`
says of a cpu none of whose ops failed so far (`Clean`) that its counters stand still at 0 from the `zero` to its START,
although others left them running, and follow `window` from there to its STOP; `Executed` replaces the position of the driver, so that
several longitudinals may share the cpu and repeat its ops. `ReadOut` keeps what was read. `Progress` is what turns the absence of faults into
executed ops, with the allowlist (`NoBatchForbidden`).

`OptionsProofs` proves `SamplesFitDuration` (`SamplesFit`), `OutcomeOfOptions` (`OutcomeDecided`), `JobOutTells` (`JobOutIsTrue`) and `HammingWeights`
(`WeightsFilledIn`) for command lines of any length and all sizes of the constants. The invariant says what of the command line is in the job: `Values` (the last option of a kind),
`Numbered` (those of a kind have the numbers from 1 to their count, by which `Given` finds them),
`PollsRead`, `LongitudinalsRead` and `BenchmarksRead` (where the thread of a cpu is in `benchmarks`); `Printed` ties `job.out` to the job, and
`Ending` has for each phase and each ending what led to it, in terms of the job: what the driver does, which sets have a cpu of the machine, whether
the loop can end (`MayEnd`), which polls have been set up or dumped. `ThreadsAsked`, `LoopAsked` and `ReadyAsked` say the same of the command line. `LoopAsked` needs that the
times that make a loop unending are kept exactly (`Exactly`): they are less than `Word` seconds, and only more than that is cut off.
About the times stand the lemmas of quotients and remainders: `InNanoseconds` (an option's nanoseconds are those asked for, modulo
`Word`, whichever of its seconds overflowed) and `PaperTells` (a shown time is within a thousandth of its unit, since each unit but the nanosecond
is a multiple of a thousand); about the weights `FirstBitsCounted` and `WeightByRank`.

The assumptions of the theorems are the `ASSUME`s of the modules: sorts of the constants, at least
one round, at least two nanoseconds per second, a table that `size_t` can index, a search limit of at least 2 (the callers give 255, 999 and the
number of cpus of msr-safe; with a limit of 1, cpu 0 would be both found and the answer for none), an even
number of output bits, parts of a vote that every weight divides, ten seconds that fit into a `Word`, and on a
command line what the parsers return (`CommandLinesAssumption`). TLC evaluates them in every run. The theorems `SinglePollInvalidation` and
`SinglePollWindow` have `PollCount = 1` in their statements, because with two polls they are false (`JobTwoPollsInvalidation`).

Only model-checked: `Termination`, `Halts` and `FlipNoticed`, which are liveness under fairness, and `ENABLED` is out of the prover's reach. The
three runs that expect a violation have nothing to prove.

## Findings

`PROJECT.json` quotes the statement that each disagrees with.

Found violated by a run of its own:

1. `JobStraddle`: with one poll, a sample that spans A and B can be tagged valid, because selector and
   validity are two stores (`main.c:199-200`, `job.h:93`). `StraddlesOnlyInWindow`
   shows the window to be those two statements.
2. `JobTwoPollsInvalidation`: with two polls, one poll's `valid = true` undoes an
   invalidation that the other has not seen (`main.c:80`).
3. `AbxorDebug`: threads mix their encodings in the debug build (`spin.c:52`).

Stated exactly by a property that holds:

4. `RunsWholeSeconds` (`ABClockLoop`): a fraction of a second in `--time` is ignored (`main.c:211`).
5. `NeverASecond` and `Halts` (`ABClockLoop`): the loop never ends for an `--abTime` of 0 or of a
   fraction that divides 999'999'999 ns (`main.c:210`).
6. `OnlyTopBitsLost` (`SpinLoops`): shifting "back and forth" loses bits (`spin.c:26`).
7. `EveryCpuPinned` (`CpuSetPinning`): a benchmark cpu of 255 or above is found only while the search begins at
   it, and is replaced by cpu 0 otherwise: `--benchmark=SPIN:1,300,301:...` pins threads to cpus 1,
   0 and 1 (`options.c:407`, `cpuset_utils.c:86-97`).
8. `ShownCpus` (`CpuSetPinning`): of four or more consecutive cpus `job.out` shows the first alone
   (`cpuset_utils.c:123-124`).
9. `RecipesCounted` (`LongitudinalCounts`): two recipes are not NULL-terminated, and the loop that counts them reads a pointer
   that is not theirs (`msr_utils.c:263-286, 391`); what lies behind them happens to make the counts right.
10. `EnergyShared` (`DumpVotesAndRows`): `__builtin_popcount` counts 32 of 64 bits, so that votes are too large, and
    those of outputs with no lower bit are divided by zero (`msr_utils.c:777`).
11. `RowsAddUp` (`DumpVotesAndRows`): temperatures are taken from bits 22:17, though their field is 22:16, and come out halved
    (`msr_utils.c:523`).
12. `OutcomeOfOptions` (`OptionsToOutcome`): a job without polls ends with a null dereference (`main.c:41`); an
    interval whose nanoseconds are 0 modulo 2^64 divides by zero (`timespec_utils.c:154`); a job without `-m` is
    aborted before it starts (`main.c:126`), one whose poll has an empty `control_cpu` when that thread starts (`main.c:72`), and one of two
   samples or fewer after it has run (`msr_utils.c:900`). With the `--abTime` of finding 5 a job of a second or more never gets there.

A limit that is not a disagreement with anything the repository says: the first valid samples after a change of workload may still
be of the old window, for up to a pass of a thousand encodings. `EnergyIsOfOutput` says for which samples
the attribution holds; the premise `settled` is not recorded by the program.

## Assumptions

- Accesses to the `volatile bool`s are single, in program order, and seen by all threads in one order:
  what the compiler emits for them on x86, where the stores of `ab_selector` and `valid`
  stay in order.
- `exit(3)` and a failed assertion end all threads at once. In fact other threads go on
  while `exit` runs its handlers; no such step writes anything that is looked at again.
- `pthread_*` calls on valid objects succeed, there is memory, and files can be created; their assertions cannot fail otherwise. In `Job` and `Capture` the device
  of the batches can be opened; `Options` has the job that cannot open it.
- Whether msr-safe fails, and how, does not change while the job runs (`Options`); single failures of a batch or an op are in `Job` and `Longitudinal`.
- The cpus of a benchmark are below 255 in `Options`, so that `get_next_cpu` finds them; `CpuSet` shows what it does with others.
- Polls use OP_POLL, as `job.h:35` says of their ops ("the POLL instruction"): an op has a first and a last reading. `str2flags` accepts other flags, with which `msrdata2` stays 0.
- `polls[0]` polls an energy register if a benchmark has a key: the vote takes its readings for energy without a look at its MSR (`msr_utils.c:747`).
- Between the ends of two successive samples an energy meter moves by less than one turn.
- The driver executes the ops of a batch in order, each on the cpu it names.
- `setup_abxor` yields values of `R` whose xors differ when the sets of indices do.

## What is not modelled

- Help, version, headers and the wording and layout of all output; of the files of a poll, the columns other than the two kinds in `Dump`, which
  the same loop writes.
- Failures of `calloc` and `fopen`: all but three are asserted, and the unasserted ones
  (`msr_utils.c:418-421`, `752`) dereference null in the next statement.
- `pthread_mutex_destroy` of mutexes that are still locked (`main.c:238`): undefined by POSIX, and without effect in the
  libraries that the Makefile links; `DestroyMutexes` stands for it.
- The random filling of `R` by `setup_abxor`, once and before any thread exists: entries are symbols.
- The names of the several hundred MSRs in the allowlist and the recipe of ALL_ALLOWED: they are grouped by what
  the ops may do with them.

## Plan

Done: `Measurement`, `Job` and `Capture`, `ABClock`, `Abxor`, `Spin`, `CpuSet`, `Longitudinal`, `Rollover`, `Dump` and `Options`, in this
order because main and its threads are what the rest hangs on, each with proofs of all its safety properties.

What is left, in the order of its worth:

1. The safety that liveness rests on, as theorems: for `Termination` that whoever waits for a mutex or in a join waits for a thread that can go on, and
   for `Halts` that a round which is not stuck raises `elapsed` within a bounded number of rounds.
2. The seams between modules that are words so far: that `Capture`'s one step per encoding is what `Abxor` does with a register, and that `Longitudinal`'s
   `Ascending` is what `get_next_cpu` of `CpuSet` returns in turn.
3. Shorter proofs where two modules prove the same lemmas of quotients (`Spin`, `Options`) or where a leaf was split for one backend only.
