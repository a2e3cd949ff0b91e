--------------------------------- MODULE Job ---------------------------------
(***************************************************************************)
(* The life of one var job: main() of main.c, its poll threads             *)
(* (poll_thread_start) and its benchmark threads (benchmark_thread_start), *)
(* and the memory they share without locks: halt, ab_selector and valid of *)
(* struct job.  One action per access to a shared location, so that every  *)
(* interleaving of the volatile reads and writes is a behaviour.           *)
(***************************************************************************)
EXTENDS Integers

CONSTANTS
    PollCount,     \* job.poll_count
    BenchCount,    \* job.benchmark_count
    TotalOps,      \* TotalOps[i] is job.polls[i]->total_ops
    Abxor0,        \* is job.benchmarks[0]->benchmark_type ABXOR?
    Randomized,    \* job.ab_randomized
    Faults,        \* what may go wrong: "ioctl", a batch ioctl of a poll
                   \* returns -1; "affinity", a thread cannot be pinned
    MaxRounds      \* bound on the A|B rounds of main (ABClock models how many)

Polls == 0 .. PollCount - 1
Benches == 0 .. BenchCount - 1

ASSUME JobAssumption ==
    /\ PollCount \in Nat
    /\ BenchCount \in Nat
    /\ TotalOps \in [Polls -> Nat]
    /\ Abxor0 \in BOOLEAN
    /\ Randomized \in BOOLEAN
    /\ Faults \subseteq {"ioctl", "affinity"}
    /\ MaxRounds \in Nat \ {0}

VARIABLES
    \* the process and the main thread
    status,        \* "running" until the process ends
    mpc,           \* where main() is
    mi,            \* the index of its current loop over polls or benchmarks
    rounds,        \* A|B rounds completed
    ran,           \* longitudinal slots executed
    fd,            \* run_longitudinal_batches: is its static fd open?
    freed,         \* what has been given back to the allocator
    poll0,         \* who last wrote key, key_ptr, ... of polls[0]
    \* struct job, shared by all threads without a lock
    halt, ab_selector, valid,
    \* holders of poll_mutex and benchmark_mutex
    pmutex, bmutex,
    \* poll threads: pc, op index b, rc = -1, and the two halves of the tag
    ppc, pb, rc, regSel, regValid,
    \* benchmark threads
    bpc,
    \* history of the sample each poll has in flight
    begun,         \* ab_selector when its ioctl was issued
    flipped,       \* did ab_selector change before the ioctl returned?
    invalidated,   \* was valid cleared between its issue and its read of valid?
    late           \* samples issued after halt was set

mainVars == <<mpc, mi, rounds, ran, fd, freed, poll0>>
flagVars == <<halt, ab_selector, valid>>
pollVars == <<ppc, pb, rc, regSel, regValid>>
history == <<begun, flipped, invalidated, late>>
vars == <<status, mainVars, flagVars, pmutex, bmutex, pollVars, bpc, history>>

Slots == {"SETUP", "START", "STOP", "READ", "TEARDOWN"}

MainLabels == Slots \cup
    {"createPoll", "resetPoll", "createBench", "releasePoll", "releaseBench",
     "select", "invalidate", "sleep", "halt", "joinBench", "joinPoll",
     "dump", "destroy", "free", "cleanup"}

\* A poll is sampling from the moment it decides to issue an ioctl until
\* it has stored the tag of the op and set valid.
Sampling == {"issue", "ioctl", "tag", "tagS", "tagV", "tagged"}
PollActive == {"check", "rc", "nap"} \cup Sampling
PollLabels == {"none", "gate", "done"} \cup PollActive
BenchLabels == {"none", "gate", "run", "done"}

TypeOK ==
    /\ status \in {"running", "done", "exited", "aborted", "segv"}
    /\ mpc \in MainLabels
    /\ mi \in Nat
    /\ rounds \in 0 .. MaxRounds
    /\ ran \subseteq Slots
    /\ fd \in BOOLEAN
    /\ freed \subseteq {"batches", "configs"}
    /\ poll0 \in {"calloc", "reset", "wired"}
    /\ halt \in BOOLEAN /\ ab_selector \in BOOLEAN /\ valid \in BOOLEAN
    /\ pmutex \in [Polls -> {"none", "free", "main", "thread"}]
    /\ bmutex \in [Benches -> {"none", "free", "main", "thread"}]
    /\ ppc \in [Polls -> PollLabels]
    /\ pb \in [Polls -> Nat]
    /\ \A p \in Polls : pb[p] <= TotalOps[p]
    /\ rc \in [Polls -> BOOLEAN]
    /\ regSel \in [Polls -> BOOLEAN]
    /\ regValid \in [Polls -> BOOLEAN]
    /\ bpc \in [Benches -> BenchLabels]
    /\ begun \in [Polls -> BOOLEAN]
    /\ flipped \in [Polls -> BOOLEAN]
    /\ invalidated \in [Polls -> BOOLEAN]
    /\ late \in [Polls -> Nat]

\* parse_options, populate_allowlist and setup_msrsafe_batches have run: the
\* job is zeroed static memory with its configs and batches in place.
Init ==
    /\ status = "running"
    /\ mpc = "createPoll" /\ mi = 0
    /\ rounds = 0 /\ ran = {} /\ fd = FALSE /\ freed = {}
    /\ poll0 = "calloc"
    /\ halt = FALSE /\ ab_selector = FALSE /\ valid = FALSE
    /\ pmutex = [p \in Polls |-> "none"]
    /\ bmutex = [b \in Benches |-> "none"]
    /\ ppc = [p \in Polls |-> "none"]
    /\ pb = [p \in Polls |-> 0]
    /\ rc = [p \in Polls |-> FALSE]
    /\ regSel = [p \in Polls |-> FALSE]
    /\ regValid = [p \in Polls |-> FALSE]
    /\ bpc = [b \in Benches |-> "none"]
    /\ begun = [p \in Polls |-> FALSE]
    /\ flipped = [p \in Polls |-> FALSE]
    /\ invalidated = [p \in Polls |-> FALSE]
    /\ late = [p \in Polls |-> 0]

-----------------------------------------------------------------------------
(* The main thread.  Its loops over polls and benchmarks share the index mi; *)
(* a loop ends, and the index is reset, when the bound is reached.           *)

Goto(from, to) == mpc = from /\ mpc' = to

LoopBound(label) ==
    IF label \in {"createPoll", "releasePoll", "joinPoll"}
    THEN PollCount ELSE BenchCount

AfterLoop == [createPoll |-> "createBench", createBench |-> "SETUP",
              releasePoll |-> "releaseBench", releaseBench |-> "select",
              joinBench |-> "joinPoll", joinPoll |-> "STOP"]

InLoop(label) == mpc = label /\ mi < LoopBound(label)

EndLoop ==
    /\ mpc \in {"createPoll", "createBench", "releasePoll", "releaseBench",
                "joinBench", "joinPoll"}
    /\ mi >= LoopBound(mpc)
    /\ mpc' = AfterLoop[mpc]
    /\ mi' = 0
    /\ UNCHANGED <<status, rounds, ran, fd, freed, poll0, flagVars, pmutex,
                   bmutex, pollVars, bpc, history>>

\* The mutex is taken by main before the thread exists: a gate it waits at.
CreatePollHolding(holder) ==
    /\ InLoop("createPoll")
    /\ pmutex' = [pmutex EXCEPT ![mi] = holder]
    /\ ppc' = [ppc EXCEPT ![mi] = "gate"]
    /\ IF mi = 0 THEN mpc' = "resetPoll" /\ mi' = mi
                 ELSE mpc' = mpc /\ mi' = mi + 1
    /\ UNCHANGED <<status, rounds, ran, fd, freed, poll0, flagVars, bmutex,
                   pb, rc, regSel, regValid, bpc, history>>

CreatePollUnlocked == CreatePollHolding("free")
CreatePoll == CreatePollHolding("main")

\* polls[0]->key, key_ptr, ... are cleared after its thread was created.
ResetPoll0 ==
    /\ Goto("resetPoll", "createPoll")
    /\ poll0' = "reset"
    /\ mi' = mi + 1
    /\ UNCHANGED <<status, rounds, ran, fd, freed, flagVars, pmutex, bmutex,
                   pollVars, bpc, history>>

\* The first benchmark, if ABXOR, also hands its output to polls[0].
CreateBenchHolding(holder) ==
    /\ InLoop("createBench")
    /\ poll0' = IF mi = 0 /\ Abxor0 /\ PollCount > 0 THEN "wired" ELSE poll0
    /\ bmutex' = [bmutex EXCEPT ![mi] = holder]
    /\ bpc' = [bpc EXCEPT ![mi] = "gate"]
    /\ mi' = mi + 1
    /\ UNCHANGED <<status, mpc, rounds, ran, fd, freed, flagVars, pmutex,
                   pollVars, history>>

CreateBenchUnlocked == CreateBenchHolding("free")
CreateBench == CreateBenchHolding("main")

\* run_longitudinal_batches: opens its fd on the first slot, closes it after
\* TEARDOWN, and ignores what the ioctls return.
AfterSlotSwapped == [SETUP |-> "START", START |-> "releasePoll",
                     STOP |-> "dump", READ |-> "STOP", TEARDOWN |-> "free"]
AfterSlot == [SETUP |-> "START", START |-> "releasePoll", STOP |-> "READ",
              READ |-> "dump", TEARDOWN |-> "free"]

RunSlot ==
    /\ mpc \in Slots
    /\ ran' = ran \cup {mpc}
    /\ fd' = (mpc # "TEARDOWN")
    /\ mpc' = AfterSlot[mpc]
    /\ UNCHANGED <<status, mi, rounds, freed, poll0, flagVars, pmutex, bmutex,
                   pollVars, bpc, history>>

ReleasePoll ==
    /\ InLoop("releasePoll")
    /\ pmutex' = [pmutex EXCEPT ![mi] = "free"]
    /\ mi' = mi + 1
    /\ UNCHANGED <<status, mpc, rounds, ran, fd, freed, poll0, flagVars,
                   bmutex, pollVars, bpc, history>>

ReleaseBench ==
    /\ InLoop("releaseBench")
    /\ bmutex' = [bmutex EXCEPT ![mi] = "free"]
    /\ mi' = mi + 1
    /\ UNCHANGED <<status, mpc, rounds, ran, fd, freed, poll0, flagVars,
                   pmutex, pollVars, bpc, history>>

\* The A|B loop: two separate stores, ab_selector first and valid second.
\* A randomized round that draws the workload already running stores nothing.
SelectNext(invalidates(_)) ==
    /\ mpc = "select"
    /\ \E next \in IF Randomized THEN BOOLEAN ELSE {~ab_selector} :
        /\ ab_selector' = next
        /\ mpc' = IF invalidates(next) THEN "invalidate" ELSE "sleep"
        /\ flipped' = [p \in Polls |-> \/ flipped[p]
                                       \/ ppc[p] = "ioctl" /\ next # ab_selector]
    /\ UNCHANGED <<status, mi, rounds, ran, fd, freed, poll0, halt, valid,
                   pmutex, bmutex, pollVars, bpc, begun, invalidated, late>>

SelectOnlyB == SelectNext(LAMBDA next : next)
Select == SelectNext(LAMBDA next : next # ab_selector)

Invalidate ==
    /\ Goto("invalidate", "sleep")
    /\ valid' = FALSE
    /\ invalidated' = [p \in Polls |->
                        invalidated[p] \/ ppc[p] \in {"ioctl", "tag", "tagV"}]
    /\ UNCHANGED <<status, mi, rounds, ran, fd, freed, poll0, halt, ab_selector,
                   pmutex, bmutex, pollVars, bpc, begun, flipped, late>>

Sleep ==
    /\ mpc = "sleep"
    /\ rounds' = rounds + 1
    /\ \/ mpc' = "select" /\ rounds' < MaxRounds
       \/ mpc' = "halt"
    /\ UNCHANGED <<status, mi, ran, fd, freed, poll0, flagVars, pmutex, bmutex,
                   pollVars, bpc, history>>

Ring(bell) ==
    /\ Goto("halt", "joinBench")
    /\ halt' = bell
    /\ UNCHANGED <<status, mi, rounds, ran, fd, freed, poll0, ab_selector,
                   valid, pmutex, bmutex, pollVars, bpc, history>>

RingUnheard == Ring(halt)
RingTheBell == Ring(TRUE)

JoinBenchWhen(ready(_)) ==
    /\ InLoop("joinBench")
    /\ ready(mi)
    /\ mi' = mi + 1
    /\ UNCHANGED <<status, mpc, rounds, ran, fd, freed, poll0, flagVars, pmutex,
                   bmutex, pollVars, bpc, history>>

JoinBenchDetached == JoinBenchWhen(LAMBDA b : TRUE)
JoinBench == JoinBenchWhen(LAMBDA b : bpc[b] = "done")

JoinPollWhen(ready(_)) ==
    /\ InLoop("joinPoll")
    /\ ready(mi)
    /\ mi' = mi + 1
    /\ UNCHANGED <<status, mpc, rounds, ran, fd, freed, poll0, flagVars, pmutex,
                   bmutex, pollVars, bpc, history>>

JoinPollDetached == JoinPollWhen(LAMBDA p : TRUE)
JoinPoll == JoinPollWhen(LAMBDA p : ppc[p] = "done")

\* dump_batches asserts, after the run, that every poll had more than two ops.
Dump ==
    /\ mpc = "dump"
    /\ IF \E p \in Polls : TotalOps[p] <= 2
       THEN status' = "aborted" /\ mpc' = mpc
       ELSE status' = status /\ mpc' = "destroy"
    /\ UNCHANGED <<mi, rounds, ran, fd, freed, poll0, flagVars, pmutex, bmutex,
                   pollVars, bpc, history>>

\* pthread_mutex_destroy of the benchmark mutexes, each still held by the
\* thread that took it: the result is ignored and no one looks at them again.
DestroyMutexes ==
    /\ Goto("destroy", "TEARDOWN")
    /\ UNCHANGED <<status, mi, rounds, ran, fd, freed, poll0, flagVars, pmutex,
                   bmutex, pollVars, bpc, history>>

\* teardown_msrsafe_batches
FreeBatches ==
    /\ Goto("free", "cleanup")
    /\ freed' = freed \cup {"batches"}
    /\ UNCHANGED <<status, mi, rounds, ran, fd, poll0, flagVars, pmutex, bmutex,
                   pollVars, bpc, history>>

\* cleanup() starts by dereferencing job.polls[0]; without polls, job.polls
\* is a null pointer.
Cleanup ==
    /\ mpc = "cleanup"
    /\ IF PollCount = 0
       THEN status' = "segv" /\ freed' = freed
       ELSE status' = "done" /\ freed' = freed \cup {"configs"}
    /\ UNCHANGED <<mpc, mi, rounds, ran, fd, poll0, flagVars, pmutex, bmutex,
                   pollVars, bpc, history>>

Main ==
    \/ EndLoop \/ CreatePoll \/ ResetPoll0 \/ CreateBench \/ RunSlot
    \/ ReleasePoll \/ ReleaseBench \/ Select \/ Invalidate \/ Sleep
    \/ RingTheBell \/ JoinBench \/ JoinPoll \/ Dump \/ DestroyMutexes
    \/ FreeBatches \/ Cleanup

-----------------------------------------------------------------------------
(* A poll thread.                                                          *)

PollGoto(p, from, to) == ppc[p] = from /\ ppc' = [ppc EXCEPT ![p] = to]

\* assert( 0 == sched_setaffinity( ... ) ), before the thread tries its lock.
PollMisplaced(p) ==
    /\ "affinity" \in Faults
    /\ ppc[p] = "gate"
    /\ status' = "aborted"
    /\ UNCHANGED <<mainVars, flagVars, pmutex, bmutex, pollVars, bpc, history>>

\* The lock is never released again by the poll thread.
PassPollGate(p) ==
    /\ pmutex[p] = "free"
    /\ pmutex' = [pmutex EXCEPT ![p] = "thread"]
    /\ PollGoto(p, "gate", "check")
    /\ UNCHANGED <<status, mainVars, flagVars, bmutex, pb, rc, regSel, regValid,
                   bpc, history>>

CheckWhile(p, continue) ==
    /\ PollGoto(p, "check", IF continue THEN "issue" ELSE "done")
    /\ UNCHANGED <<status, mainVars, flagVars, pmutex, bmutex, pb, rc, regSel,
                   regValid, bpc, history>>

CheckInclusive(p) == CheckWhile(p, pb[p] <= TotalOps[p] /\ ~halt)
CheckIgnoresHalt(p) == CheckWhile(p, pb[p] < TotalOps[p])
Check(p) == CheckWhile(p, pb[p] < TotalOps[p] /\ ~halt)

IssueIoctl(p) ==
    /\ PollGoto(p, "issue", "ioctl")
    /\ begun' = [begun EXCEPT ![p] = ab_selector]
    /\ flipped' = [flipped EXCEPT ![p] = FALSE]
    /\ invalidated' = [invalidated EXCEPT ![p] = FALSE]
    /\ late' = [late EXCEPT ![p] = IF halt THEN @ + 1 ELSE @]
    /\ UNCHANGED <<status, mainVars, flagVars, pmutex, bmutex, pb, rc, regSel,
                   regValid, bpc>>

ReturnSetting(p, validAfter) ==
    /\ PollGoto(p, "ioctl", "tag")
    /\ \E failed \in IF "ioctl" \in Faults THEN BOOLEAN ELSE {FALSE} :
            rc' = [rc EXCEPT ![p] = failed]
    /\ valid' = validAfter
    /\ UNCHANGED <<status, mainVars, halt, ab_selector, pmutex, bmutex, pb,
                   regSel, regValid, bpc, history>>

ReturnMarksEarly(p) == ReturnSetting(p, TRUE)
IoctlReturns(p) == ReturnSetting(p, valid)

\* The tag is ( ab_selector << 1 ) | valid: C leaves the order of the two
\* volatile reads unspecified.
ReadSelector(p) ==
    /\ \/ PollGoto(p, "tag", "tagV")
       \/ PollGoto(p, "tagS", "tagged")
    /\ regSel' = [regSel EXCEPT ![p] = ab_selector]
    /\ UNCHANGED <<status, mainVars, flagVars, pmutex, bmutex, pb, rc, regValid,
                   bpc, history>>

ReadValid(p) ==
    /\ \/ PollGoto(p, "tag", "tagS")
       \/ PollGoto(p, "tagV", "tagged")
    /\ regValid' = [regValid EXCEPT ![p] = valid]
    /\ UNCHANGED <<status, mainVars, flagVars, pmutex, bmutex, pb, rc, regSel,
                   bpc, history>>

\* The tag goes into poll_ops[b], then the next sample is declared valid.
StoreTag(p) ==
    /\ PollGoto(p, "tagged", "rc")
    /\ valid' = TRUE
    /\ UNCHANGED <<status, mainVars, halt, ab_selector, pmutex, bmutex, pb, rc,
                   regSel, regValid, bpc, history>>

\* Only now is the result of the ioctl looked at: -1 ends the process.
CheckRc(p) ==
    /\ ppc[p] = "rc"
    /\ IF rc[p] THEN status' = "exited" /\ ppc' = ppc
                ELSE status' = status /\ ppc' = [ppc EXCEPT ![p] = "nap"]
    /\ UNCHANGED <<mainVars, flagVars, pmutex, bmutex, pb, rc, regSel, regValid,
                   bpc, history>>

Wake(p) ==
    /\ PollGoto(p, "nap", "check")
    /\ pb' = [pb EXCEPT ![p] = @ + 1]
    /\ UNCHANGED <<status, mainVars, flagVars, pmutex, bmutex, rc, regSel,
                   regValid, bpc, history>>

Poll(p) ==
    \/ PollMisplaced(p) \/ PassPollGate(p) \/ Check(p) \/ IssueIoctl(p) 
    \/ IoctlReturns(p) \/ ReadSelector(p) \/ ReadValid(p) \/ StoreTag(p) \/ CheckRc(p) \/ Wake(p)

-----------------------------------------------------------------------------
(* A benchmark thread; Abxor and Spin model the work of its loop.          *)

BenchMisplaced(b) ==
    /\ "affinity" \in Faults
    /\ bpc[b] = "gate"
    /\ status' = "aborted"
    /\ UNCHANGED <<mainVars, flagVars, pmutex, bmutex, pollVars, bpc, history>>

PassBenchGate(b) ==
    /\ bpc[b] = "gate" /\ bmutex[b] = "free"
    /\ bmutex' = [bmutex EXCEPT ![b] = "thread"]
    /\ bpc' = [bpc EXCEPT ![b] = "run"]
    /\ UNCHANGED <<status, mainVars, flagVars, pmutex, pollVars, history>>

\* One pass of the loop of run_spin, run_abshift or run_abxor.
Work(b) ==
    /\ bpc[b] = "run" /\ ~halt
    /\ UNCHANGED vars

FinishBench(b) ==
    /\ bpc[b] = "run" /\ halt
    /\ bpc' = [bpc EXCEPT ![b] = "done"]
    /\ UNCHANGED <<status, mainVars, flagVars, pmutex, bmutex, pollVars,
                   history>>

Bench(b) == BenchMisplaced(b) \/ PassBenchGate(b) \/ Work(b) \/ FinishBench(b)

-----------------------------------------------------------------------------
Running == status = "running"

Ended == ~Running /\ UNCHANGED vars

Next ==
    \/ Running /\ Main
    \/ \E p \in Polls : Running /\ Poll(p)
    \/ \E b \in Benches : Running /\ Bench(b)
    \/ Ended

Spec == Init /\ [][Next]_vars

\* Each thread is an ordinary preemptively scheduled pthread, the ioctl gives
\* up after MAX_POLL_ATTEMPTS reads and every nanosleep is finite.
FairSpec ==
    /\ Spec
    /\ WF_vars(Running /\ Main)
    /\ \A p \in Polls : WF_vars(Running /\ Poll(p))
    /\ \A b \in Benches : WF_vars(Running /\ Bench(b))

-----------------------------------------------------------------------------
(* Properties.                                                             *)

AllDone ==
    /\ \A p \in Polls : ppc[p] = "done"
    /\ \A b \in Benches : bpc[b] = "done"

\* Polls and benchmarks run only while the counters do: after the START
\* batches of main.c:172 and before the STOP batches of main.c:231.
MeasurementWindow ==
    (\/ \E p \in Polls : ppc[p] \in PollActive
     \/ \E b \in Benches : bpc[b] = "run")
    => "START" \in ran /\ "STOP" \notin ran

\* What the threads write is dumped, and their memory freed, only when every
\* one of them has returned.
DataOwnership ==
    (freed # {} \/ mpc \in {"STOP", "READ", "dump"}) => AllDone

\* halt is polled once per sample: after the bell a poll issues at most the
\* one sample it had already decided on.
AtMostOneLateSample == \A p \in Polls : late[p] <= 1

\* The unlocked fields of polls[0] are written by main, after pthread_create,
\* only while that thread waits at its gate.
Poll0WrittenBehindGate ==
    [][poll0' # poll0 => ppc[0] \in {"none", "gate"}]_vars

\* The slots run in the order of longitudinal_slot_t, each of them once, and
\* all but the first find the fd open.
SlotRank == [SETUP |-> 1, START |-> 2, STOP |-> 3, READ |-> 4, TEARDOWN |-> 5]
SlotInOrder(s) ==
    /\ ran = {r \in Slots : SlotRank[r] < SlotRank[s]}
    /\ fd <=> s # "SETUP"
SlotProtocol == [][mpc' # mpc /\ mpc \in Slots => SlotInOrder(mpc)]_vars

\* A sample tagged valid did not miss an invalidation that main completed
\* while it was being taken.
InvalidationSeen ==
    \A p \in Polls : ppc[p] = "tagged" /\ regValid[p] => ~invalidated[p]

\* job.h:93: a sample that straddles portions of A and B is tagged invalid,
\* and a valid one carries the workload it was taken under.
ValidIsPure ==
    \A p \in Polls : ppc[p] = "tagged" /\ regValid[p] =>
        ~flipped[p] /\ regSel[p] = begun[p]

\* Whether p reads valid in this step.
ReadsValid(p) ==
    \/ ppc[p] = "tag" /\ ppc'[p] = "tagS"
    \/ ppc[p] = "tagV" /\ ppc'[p] = "tagged"

\* With a single poll, the one way to tag a straddling sample valid is to read
\* valid while main is between its store to ab_selector and its store to valid.
StraddlesOnlyInWindow ==
    [][\A p \in Polls :
        ReadsValid(p) /\ flipped[p] /\ valid => mpc = "invalidate"]_vars

\* The job ends, one way or another.
Termination == <>(status # "running")

-----------------------------------------------------------------------------
(* The refinement of Measurement.                                          *)

Workers == ({"poll"} \X Polls) \cup ({"bench"} \X Benches)

PhaseBar ==
    IF status \notin {"running", "done"} THEN "dead"
    ELSE IF freed # {} THEN "released"
    ELSE IF "READ" \in ran THEN "read"
    ELSE IF "STOP" \in ran THEN "closed"
    ELSE IF "START" \in ran THEN "open"
    ELSE "arming"

Working(w) ==
    IF w[1] = "poll" THEN ppc[w[2]] \in PollActive ELSE bpc[w[2]] = "run"

Returned(w) ==
    IF w[1] = "poll" THEN ppc[w[2]] = "done" ELSE bpc[w[2]] = "done"

ActiveBar == {w \in Workers : Working(w)}
FinishedBar == {w \in Workers : Returned(w)}

M == INSTANCE Measurement WITH
        Worker <- Workers, phase <- PhaseBar,
        active <- ActiveBar, finished <- FinishedBar

\* The job is a measurement: see Measurement.
ImplementsMeasurement == M!Spec

=============================================================================
