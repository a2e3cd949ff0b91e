-------------------------------- MODULE Capture --------------------------------
(***************************************************************************)
(* Job composed with its benchmark 0, an ABXOR, whose single_output and    *)
(* key polls[0] copies after each sample (main.c:87-95) for the vote.       *)
(* What Job leaves open in Work is spelled out as run_abxor does it         *)
(* (spin.c:53-80), but that an encoding is one step: Abxor shows that       *)
(* single_output never holds anything but a whole one.                     *)
(***************************************************************************)
EXTENDS Job

CONSTANT Repeats   \* encodings per pass of the loop, 1000

ASSUME CaptureAssumption ==
    /\ Repeats \in Nat \ {0}
    /\ PollCount > 0 /\ BenchCount > 0 /\ Abxor0

VARIABLES
    \* benchmarks[0]
    apc,                \* where run_abxor is
    local_ab_selector,
    window,             \* which window of R it encodes: the how manyth it took
    repeat,             \* of the loop over encodings
    bkey,               \* is its key set?
    single_output,      \* the window whose encoding it holds
    \* polls[0]
    key,                \* has it got a key that is not 0?
    benchmark_output,   \* what it copied for the sample at hand, or the last one
    copied,             \* of output and key of this sample, in their order
    \* history of that sample
    encoded,            \* windows in the making while its ioctl ran
    settled,            \* was the benchmark up to date when it was issued?
    disturbed,          \* has the workload changed since?
    \* history of the benchmark
    overdue             \* encodings since the workload last changed and left
                        \* local_ab_selector behind (it stops at Repeats + 1)

Nothing == 0

abxorVars == <<apc, local_ab_selector, window, repeat, bkey, single_output>>
copyVars == <<key, benchmark_output, copied>>
captureHistory == <<encoded, settled, disturbed, overdue>>
captureVars == <<abxorVars, copyVars, captureHistory>>

Windows == Nat \ {Nothing}

CaptureTypeOK ==
    /\ apc \in {"key", "start", "test", "compare", "notice", "encode"}
    /\ local_ab_selector \in BOOLEAN
    /\ window \in Windows
    /\ repeat \in 0 .. Repeats - 1
    /\ bkey \in BOOLEAN /\ key \in BOOLEAN
    /\ single_output \in Windows \cup {Nothing}
    /\ benchmark_output \in Windows \cup {Nothing}
    /\ copied \in 0 .. 2
    /\ encoded \subseteq Windows
    /\ settled \in BOOLEAN /\ disturbed \in BOOLEAN
    /\ overdue \in 0 .. Repeats + 1

CaptureInit ==
    /\ Init
    /\ apc = "key" /\ local_ab_selector = FALSE
    /\ window = 1 /\ repeat = 0
    /\ bkey = FALSE /\ single_output = Nothing
    /\ key = FALSE /\ benchmark_output = Nothing /\ copied = 0
    /\ encoded = {} /\ settled = FALSE /\ disturbed = FALSE /\ overdue = 0

-----------------------------------------------------------------------------
CaptureMain ==
    /\ Main
    /\ disturbed' = (disturbed \/ ab_selector' # ab_selector)
    /\ overdue' = IF ab_selector' # ab_selector THEN 0 ELSE overdue
    /\ UNCHANGED <<abxorVars, copyVars, encoded, settled>>

-----------------------------------------------------------------------------
(* run_abxor                                                               *)

Goes(from, to) ==
    /\ bpc[0] = "run"
    /\ apc = from /\ apc' = to
    /\ UNCHANGED <<vars, copyVars, settled, disturbed>>

\* The window counts for the sample whose ioctl is running.
Meets(w) == encoded' = IF ppc[0] = "ioctl" THEN encoded \cup {w} ELSE encoded

TakeKey ==
    /\ Goes("key", "start")
    /\ bkey' = TRUE
    /\ UNCHANGED <<local_ab_selector, window, repeat, single_output, encoded,
                   overdue>>

Start ==
    /\ Goes("start", "test")
    /\ local_ab_selector' = ab_selector
    /\ Meets(window)
    /\ UNCHANGED <<window, repeat, bkey, single_output, overdue>>

Test ==
    /\ Goes("test", "compare")
    /\ ~halt
    /\ UNCHANGED <<local_ab_selector, window, repeat, bkey, single_output,
                   encoded, overdue>>

CompareAs(changed) ==
    /\ Goes("compare", IF changed THEN "notice" ELSE "encode")
    /\ UNCHANGED <<local_ab_selector, window, repeat, bkey, single_output,
                   encoded, overdue>>

CompareInverted == CompareAs(local_ab_selector = ab_selector)
CompareNotVolatile == CompareAs(FALSE)
Compare == CompareAs(local_ab_selector # ab_selector)

\* ab_selector is read again, and may have changed back.
Notice ==
    /\ Goes("notice", "encode")
    /\ local_ab_selector' = ab_selector
    /\ window' = window + 1
    /\ Meets(window + 1)
    /\ UNCHANGED <<repeat, bkey, single_output, overdue>>

EncodeTimes(n) ==
    /\ Goes("encode", IF repeat + 1 < n THEN "encode" ELSE "test")
    /\ repeat' = IF repeat + 1 < n THEN repeat + 1 ELSE 0
    /\ single_output' = window
    /\ overdue' = IF local_ab_selector # ab_selector /\ overdue <= Repeats
                  THEN overdue + 1 ELSE overdue
    /\ UNCHANGED <<local_ab_selector, window, bkey, encoded>>

EncodeOnceMore == EncodeTimes(Repeats + 1)
Encode == EncodeTimes(Repeats)

Abxor0Pass == TakeKey \/ Start \/ Test \/ Compare \/ Notice \/ Encode

\* The thread waits for its release before, and returns between two passes.
Abxor0Thread ==
    \/ Abxor0Pass
    \/ /\ BenchMisplaced(0) \/ PassBenchGate(0) \/ (FinishBench(0) /\ apc = "test")
       /\ UNCHANGED captureVars

-----------------------------------------------------------------------------
(* poll_thread_start of polls[0]                                           *)

InWindow == bpc[0] = "run" /\ apc \notin {"key", "start"}

\* The benchmark encodes the current workload's window, has finished doing so
\* at least once, and is not about to leave it.
UpToDate ==
    /\ InWindow /\ apc # "notice"
    /\ local_ab_selector = ab_selector
    /\ single_output = window

IssueSample ==
    /\ IssueIoctl(0)
    /\ encoded' = IF InWindow THEN {window} ELSE {}
    /\ settled' = UpToDate
    /\ disturbed' = FALSE
    /\ UNCHANGED <<abxorVars, copyVars, overdue>>

KeyFirst == <<"key", "output">>
CopyOrder == <<"output", "key">>

\* The pointers are set by main before polls[0] is released.
Copy(n) ==
    /\ copied' = n
    /\ benchmark_output' = IF CopyOrder[n] = "output" /\ poll0 = "wired"
                           THEN single_output ELSE benchmark_output
    /\ key' = IF CopyOrder[n] = "key" /\ poll0 = "wired" THEN key \/ bkey ELSE key
    /\ UNCHANGED <<abxorVars, captureHistory>>

FirstCopy ==
    /\ CheckRc(0)
    /\ IF rc[0] THEN UNCHANGED captureVars ELSE Copy(1)

SecondCopy ==
    /\ ppc[0] = "nap" /\ copied = 1
    /\ Copy(2)
    /\ UNCHANGED vars

WakeAgain ==
    /\ Wake(0) /\ copied = 2
    /\ copied' = 0
    /\ UNCHANGED <<abxorVars, key, benchmark_output, captureHistory>>

CapturePoll0 ==
    \/ IssueSample \/ FirstCopy \/ SecondCopy \/ WakeAgain
    \/ /\ \/ PollMisplaced(0) \/ PassPollGate(0) \/ Check(0) \/ IoctlReturns(0)
          \/ ReadSelector(0) \/ ReadValid(0) \/ StoreTag(0)
       /\ UNCHANGED captureVars

-----------------------------------------------------------------------------
CapturePoll(p) == IF p = 0 THEN CapturePoll0 ELSE Poll(p) /\ UNCHANGED captureVars
CaptureBench(b) == IF b = 0 THEN Abxor0Thread ELSE Bench(b) /\ UNCHANGED captureVars

CaptureEnded == ~Running /\ UNCHANGED <<vars, captureVars>>

CaptureNext ==
    \/ Running /\ CaptureMain
    \/ \E p \in Polls : Running /\ CapturePoll(p)
    \/ \E b \in Benches : Running /\ CaptureBench(b)
    \/ CaptureEnded

CaptureSpec == CaptureInit /\ [][CaptureNext]_<<vars, captureVars>>

\* Only the benchmark is fair: nothing else has to happen for it to go on.
CaptureFairSpec ==
    CaptureSpec /\ WF_<<vars, captureVars>>(Running /\ Abxor0Thread)

-----------------------------------------------------------------------------
\* job.h:38: outputs are captured without synchronisation.  Once polls[0] has
\* captured an output it also has the key that the output was encoded with, though
\* key and output are stored and copied in separate steps, and the first samples may
\* be taken before the benchmark was released.
KeyWithOutput == copied = 2 /\ benchmark_output # Nothing => key

\* msr_utils.c:779: the energy of a sample was used for encoding the captured output,
\* repeatedly.  That holds of a sample that is issued to a benchmark which has noticed
\* the current workload, if the workload does not change until the copy is made: what
\* spin.c does in between never leaves another window's output to be copied.
EnergyIsOfOutput ==
    copied > 0 /\ settled /\ ~disturbed => encoded = {benchmark_output}

\* spin.c:60-75: a change of workload is noticed after one pass of the loop at
\* most: no more than Repeats outputs of the old window follow it, however often
\* main changes its mind.
OverdueByOnePass == overdue <= Repeats

\* A workload that lasts is noticed, unless the bell rings first.
Lagging == bpc[0] = "run" /\ apc \notin {"key", "start"} /\ local_ab_selector # ab_selector
FlipNoticed ==
    Lagging ~> (local_ab_selector = ab_selector \/ halt \/ status # "running")
=============================================================================
