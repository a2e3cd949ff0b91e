------------------------------ MODULE JobProofs ------------------------------
(***************************************************************************)
(* Proofs about Job, for any number of polls and benchmarks, any number of *)
(* samples and any number of A|B rounds, and about Capture, for any number *)
(* of encodings per pass.                                                  *)
(***************************************************************************)
EXTENDS Capture, TLAPS

-----------------------------------------------------------------------------
(* The inductive invariant.                                                *)

AfterJoin == {"STOP", "READ", "dump", "destroy", "TEARDOWN", "free", "cleanup"}

\* From the decision to sample up to the increment of b, b is a real index.
InBounds ==
    \A p \in Polls :
        ppc[p] \in Sampling \cup {"rc", "nap"} => pb[p] < TotalOps[p]

\* main has a round to go until it decides to stop, and resets polls[0] only
\* if there is one.
MainBounds ==
    /\ mpc \notin {"halt", "joinBench", "joinPoll"} \cup AfterJoin
            => rounds < MaxRounds
    /\ mpc = "resetPoll" => 0 \in Polls

BeforeRelease == {"createPoll", "resetPoll", "createBench", "SETUP", "START"}

PollReleased(p) == mpc \notin BeforeRelease /\ (mpc = "releasePoll" => p < mi)
BenchReleased(b) ==
    /\ mpc \notin BeforeRelease \cup {"releasePoll"}
    /\ mpc = "releaseBench" => b < mi

\* A thread is past its gate only if main opened it.
Gates ==
    /\ \A p \in Polls :
        /\ ppc[p] \in PollActive \cup {"done"} => pmutex[p] = "thread"
        /\ pmutex[p] \in {"free", "thread"} => PollReleased(p)
    /\ \A b \in Benches :
        /\ bpc[b] \in {"run", "done"} => bmutex[b] = "thread"
        /\ bmutex[b] \in {"free", "thread"} => BenchReleased(b)

\* Which slots have run, by where main is.
SlotsRun ==
    /\ "SETUP" \in ran <=>
            mpc \notin {"createPoll", "resetPoll", "createBench", "SETUP"}
    /\ "START" \in ran <=> mpc \notin BeforeRelease
    /\ "STOP" \in ran <=> mpc \in AfterJoin \ {"STOP"}
    /\ "READ" \in ran <=> mpc \in AfterJoin \ {"STOP", "READ"}
    /\ "TEARDOWN" \in ran <=> mpc \in {"free", "cleanup"}
    /\ fd <=> "SETUP" \in ran /\ "TEARDOWN" \notin ran

\* Whoever main has joined is done; the join loops start from index 0.
Joined ==
    /\ mpc \in {"select", "invalidate", "sleep", "halt"} => mi = 0
    /\ \A b \in Benches :
        \/ mpc = "joinBench" /\ b < mi
        \/ mpc \in {"joinPoll"} \cup AfterJoin
        => bpc[b] = "done"
    /\ \A p \in Polls :
        (mpc = "joinPoll" /\ p < mi) \/ mpc \in AfterJoin => ppc[p] = "done"

\* Memory is given back at the very end.
GivenBack ==
    /\ freed # {} => mpc = "cleanup"
    /\ mpc = "cleanup" => freed # {}

\* A late sample is the last one: its poll will see halt at its next check.
LastSample ==
    \A p \in Polls :
        /\ late[p] <= 1
        /\ late[p] = 1 => halt /\ ppc[p] # "issue"

\* A flip that a poll may miss is one whose invalidation is still to come.
FlipPending ==
    \A p \in Polls :
        ppc[p] \in {"ioctl", "tag", "tagV"} /\ flipped[p] /\ ~invalidated[p]
        => mpc = "invalidate"

\* With one poll nobody sets valid between its ioctl and its read of valid.
InvalidationHolds ==
    PollCount = 1 =>
        \A p \in Polls : invalidated[p] =>
            /\ ppc[p] \in {"ioctl", "tag", "tagV"} => ~valid
            /\ ppc[p] \in {"tagS", "tagged"} => ~regValid[p]

IInv ==
    /\ TypeOK
    /\ InBounds
    /\ MainBounds
    /\ Gates
    /\ SlotsRun
    /\ Joined
    /\ GivenBack
    /\ LastSample
    /\ FlipPending
    /\ InvalidationHolds

\* Every step preserves the types.
LEMMA TypeStep ==
    ASSUME TypeOK, InBounds, MainBounds, [Next]_vars
    PROVE TypeOK'
<1> USE JobAssumption DEF TypeOK, Polls, Benches, Slots, mainVars, flagVars,
      pollVars, history, vars, Goto, PollGoto, InLoop, LoopBound, MainLabels,
      PollActive, PollLabels, BenchLabels, Sampling
<1>1. CASE Main
  <2>1. CASE EndLoop
    BY <2>1 DEF EndLoop, AfterLoop
  <2>2. CASE CreatePoll
    <3> SUFFICES ASSUME CreatePoll PROVE TypeOK'
      BY <2>2
    <3>1. ppc' \in [Polls -> PollLabels]
      BY DEF CreatePoll, CreatePollHolding
    <3>2. pmutex' \in [Polls -> {"none", "free", "main", "thread"}]
      BY DEF CreatePoll, CreatePollHolding
    <3>3. mi' \in Nat
      BY DEF CreatePoll, CreatePollHolding
    <3>4. mpc' \in MainLabels
      BY DEF CreatePoll, CreatePollHolding
    <3> QED
      BY <3>1, <3>2, <3>3, <3>4 DEF CreatePoll, CreatePollHolding
  <2>3. CASE ResetPoll0
    BY <2>3 DEF ResetPoll0
  <2>4. CASE CreateBench
    BY <2>4 DEF CreateBench, CreateBenchHolding
  <2>5. CASE RunSlot
    BY <2>5 DEF RunSlot, AfterSlot
  <2>6. CASE ReleasePoll
    BY <2>6 DEF ReleasePoll
  <2>7. CASE ReleaseBench
    BY <2>7 DEF ReleaseBench
  <2>8. CASE Select
    <3> SUFFICES ASSUME Select PROVE TypeOK'
      BY <2>8
    <3>1. ab_selector' \in BOOLEAN
      BY DEF Select, SelectNext
    <3>2. flipped' \in [Polls -> BOOLEAN]
      BY DEF Select, SelectNext
    <3> QED
      BY <3>1, <3>2 DEF Select, SelectNext
  <2>9. CASE Invalidate
    BY <2>9 DEF Invalidate
  <2>10. CASE Sleep
    <3> SUFFICES ASSUME Sleep PROVE TypeOK'
      BY <2>10
    <3>1. rounds' \in 0 .. MaxRounds
      BY DEF Sleep, MainBounds, AfterJoin
    <3> QED
      BY <3>1 DEF Sleep
  <2>11. CASE RingTheBell
    BY <2>11 DEF RingTheBell, Ring
  <2>12. CASE JoinBench
    BY <2>12 DEF JoinBench, JoinBenchWhen
  <2>13. CASE JoinPoll
    BY <2>13 DEF JoinPoll, JoinPollWhen
  <2>14. CASE Dump
    BY <2>14 DEF Dump
  <2>15. CASE DestroyMutexes
    BY <2>15 DEF DestroyMutexes
  <2>16. CASE FreeBatches
    BY <2>16 DEF FreeBatches
  <2>17. CASE Cleanup
    BY <2>17 DEF Cleanup
  <2> QED
    BY <1>1, <2>1, <2>2, <2>3, <2>4, <2>5, <2>6, <2>7, <2>8, <2>9, <2>10,
       <2>11, <2>12, <2>13, <2>14, <2>15, <2>16, <2>17 DEF Main
<1>2. ASSUME NEW p \in Polls, Poll(p) PROVE TypeOK'
  <2>1. CASE PollMisplaced(p)
    BY <2>1 DEF PollMisplaced
  <2>2. CASE PassPollGate(p)
    BY <2>2 DEF PassPollGate
  <2>3. CASE Check(p)
    BY <2>3 DEF Check, CheckWhile
  <2>4. CASE IssueIoctl(p)
    <3> SUFFICES ASSUME IssueIoctl(p) PROVE TypeOK'
      BY <2>4
    <3>1. ppc' \in [Polls -> PollLabels]
      BY DEF IssueIoctl
    <3>2. begun' \in [Polls -> BOOLEAN]
      BY DEF IssueIoctl
    <3>3. flipped' \in [Polls -> BOOLEAN]
      BY DEF IssueIoctl
    <3>4. invalidated' \in [Polls -> BOOLEAN]
      BY DEF IssueIoctl
    <3>5. late' \in [Polls -> Nat]
      BY DEF IssueIoctl
    <3> QED
      BY <3>1, <3>2, <3>3, <3>4, <3>5 DEF IssueIoctl
  <2>5. CASE IoctlReturns(p)
    <3> SUFFICES ASSUME IoctlReturns(p) PROVE TypeOK'
      BY <2>5
    <3>1. ppc' \in [Polls -> PollLabels]
      BY DEF IoctlReturns, ReturnSetting
    <3>2. rc' \in [Polls -> BOOLEAN]
      BY ZenonT(60) DEF IoctlReturns, ReturnSetting
    <3> QED
      BY <3>1, <3>2 DEF IoctlReturns, ReturnSetting
  <2>6. CASE ReadSelector(p)
    <3> SUFFICES ASSUME ReadSelector(p) PROVE TypeOK'
      BY <2>6
    <3>1. ppc' \in [Polls -> PollLabels]
      BY DEF ReadSelector
    <3>2. regSel' \in [Polls -> BOOLEAN]
      BY DEF ReadSelector
    <3> QED
      BY <3>1, <3>2 DEF ReadSelector
  <2>7. CASE ReadValid(p)
    <3> SUFFICES ASSUME ReadValid(p) PROVE TypeOK'
      BY <2>7
    <3>1. ppc' \in [Polls -> PollLabels]
      BY DEF ReadValid
    <3>2. regValid' \in [Polls -> BOOLEAN]
      BY DEF ReadValid
    <3> QED
      BY <3>1, <3>2 DEF ReadValid
  <2>8. CASE StoreTag(p)
    BY <2>8 DEF StoreTag
  <2>9. CASE CheckRc(p)
    <3> SUFFICES ASSUME CheckRc(p) PROVE TypeOK'
      BY <2>9
    <3>1. ppc' \in [Polls -> PollLabels]
      BY DEF CheckRc
    <3>2. status' \in {"running", "done", "exited", "aborted", "segv"}
      BY DEF CheckRc
    <3>3. UNCHANGED <<mainVars, flagVars, pmutex, bmutex, pb, rc, regSel, regValid,
                      bpc, history>>
      BY DEF CheckRc
    <3> QED
      BY <3>1, <3>2, <3>3
  <2>10. CASE Wake(p)
    <3> SUFFICES ASSUME Wake(p) PROVE TypeOK'
      BY <2>10
    <3>1. ppc' \in [Polls -> PollLabels]
      BY DEF Wake
    <3>2. pb' \in [Polls -> Nat]
      BY DEF Wake, InBounds
    <3>3. (\A q \in Polls : pb[q] <= TotalOps[q])'
      BY DEF Wake, InBounds
    <3> QED
      BY <3>1, <3>2, <3>3, SMTT(30) DEF Wake
  <2> QED
    BY <1>2, <2>1, <2>2, <2>3, <2>4, <2>5, <2>6, <2>7, <2>8, <2>9, <2>10 DEF Poll
<1>3. ASSUME NEW b \in Benches, Bench(b) PROVE TypeOK'
  <2>1. CASE BenchMisplaced(b)
    BY <2>1 DEF BenchMisplaced
  <2>2. CASE PassBenchGate(b)
    BY <2>2 DEF PassBenchGate
  <2>3. CASE Work(b)
    BY <2>3 DEF Work
  <2>4. CASE FinishBench(b)
    <3> SUFFICES ASSUME FinishBench(b) PROVE TypeOK'
      BY <2>4
    <3>1. bpc' \in [Benches -> BenchLabels]
      BY DEF FinishBench
    <3> QED
      BY <3>1 DEF FinishBench
  <2> QED
    BY <1>3, <2>1, <2>2, <2>3, <2>4 DEF Bench
<1>4. CASE UNCHANGED vars
  BY <1>4
<1> QED
  BY <1>1, <1>2, <1>3, <1>4 DEF Next, Ended

\* Only a check that found b in bounds lets a poll sample.
LEMMA InBoundsStep ==
    ASSUME TypeOK, InBounds, [Next]_vars
    PROVE InBounds'
<1> USE JobAssumption DEF TypeOK, InBounds, Polls, Benches, Slots, mainVars,
      flagVars, pollVars, history, vars, Goto, PollGoto, InLoop, LoopBound,
      MainLabels, PollActive, PollLabels, BenchLabels, Sampling
<1>1. CASE Main
  <2>1. CASE CreatePoll
    BY <2>1 DEF CreatePoll, CreatePollHolding
  <2>2. CASE EndLoop \/ ResetPoll0 \/ CreateBench \/ RunSlot
    BY <2>2 DEF EndLoop, AfterLoop, ResetPoll0, CreateBench,
       CreateBenchHolding, RunSlot, AfterSlot
  <2>3. CASE ReleasePoll \/ ReleaseBench \/ Select \/ Invalidate
    BY <2>3 DEF ReleasePoll, ReleaseBench, Select, SelectNext, Invalidate
  <2>4. CASE Sleep \/ RingTheBell \/ JoinBench \/ JoinPoll
    BY <2>4 DEF Sleep, RingTheBell, Ring, JoinBench, JoinBenchWhen, JoinPoll,
       JoinPollWhen
  <2>5. CASE Dump \/ DestroyMutexes \/ FreeBatches \/ Cleanup
    BY <2>5 DEF Dump, DestroyMutexes, FreeBatches, Cleanup
  <2> QED
    BY <1>1, <2>1, <2>2, <2>3, <2>4, <2>5 DEF Main
<1>2. ASSUME NEW p \in Polls, Poll(p) PROVE InBounds'
  <2>1. CASE Check(p)
    BY <2>1 DEF Check, CheckWhile
  <2>2. CASE Wake(p)
    BY <2>2 DEF Wake
  <2>3. CASE ReadSelector(p)
    BY <2>3 DEF ReadSelector
  <2>4. CASE ReadValid(p)
    BY <2>4 DEF ReadValid
  <2>5. CASE PollMisplaced(p) \/ PassPollGate(p) \/ IssueIoctl(p)
    BY <2>5 DEF PollMisplaced, PassPollGate, IssueIoctl
  <2>6. CASE IoctlReturns(p) \/ StoreTag(p) \/ CheckRc(p)
    BY <2>6 DEF IoctlReturns, ReturnSetting, StoreTag, CheckRc
  <2> QED
    BY <1>2, <2>1, <2>2, <2>3, <2>4, <2>5, <2>6 DEF Poll
<1>3. ASSUME NEW b \in Benches, Bench(b) PROVE InBounds'
  <2>1. CASE BenchMisplaced(b) \/ PassBenchGate(b) \/ Work(b) \/ FinishBench(b)
    BY <2>1 DEF BenchMisplaced, PassBenchGate, Work, FinishBench
  <2> QED
    BY <1>3, <2>1 DEF Bench
<1>4. CASE UNCHANGED vars
  BY <1>4
<1> QED
  BY <1>1, <1>2, <1>3, <1>4 DEF Next, Ended

\* main keeps count of its rounds.
LEMMA MainBoundsStep ==
    ASSUME TypeOK, MainBounds, [Next]_vars
    PROVE MainBounds'
<1> USE JobAssumption DEF TypeOK, MainBounds, Polls, Benches, Slots, mainVars,
      flagVars, pollVars, history, vars, Goto, PollGoto, InLoop, LoopBound,
      AfterJoin
<1>1. CASE Main
  <2>1. CASE EndLoop
    BY <2>1 DEF EndLoop, AfterLoop
  <2>2. CASE RunSlot
    <3> SUFFICES ASSUME RunSlot PROVE MainBounds'
      BY <2>2
    <3>1. CASE mpc = "SETUP"
      BY <3>1 DEF RunSlot, AfterSlot
    <3>2. CASE mpc = "START"
      BY <3>2 DEF RunSlot, AfterSlot
    <3>3. CASE mpc = "STOP"
      BY <3>3 DEF RunSlot, AfterSlot
    <3>4. CASE mpc = "READ"
      BY <3>4 DEF RunSlot, AfterSlot
    <3>5. CASE mpc = "TEARDOWN"
      BY <3>5 DEF RunSlot, AfterSlot
    <3> QED
      BY <3>1, <3>2, <3>3, <3>4, <3>5 DEF RunSlot
  <2>3. CASE CreatePoll
    BY <2>3 DEF CreatePoll, CreatePollHolding
  <2>4. CASE ResetPoll0 \/ CreateBench \/ ReleasePoll \/ ReleaseBench
    BY <2>4 DEF ResetPoll0, CreateBench, CreateBenchHolding, ReleasePoll,
       ReleaseBench
  <2>5. CASE Select \/ Invalidate \/ Sleep \/ RingTheBell
    BY <2>5 DEF Select, SelectNext, Invalidate, Sleep, RingTheBell, Ring
  <2>6. CASE JoinBench \/ JoinPoll \/ Dump \/ DestroyMutexes
    BY <2>6 DEF JoinBench, JoinBenchWhen, JoinPoll, JoinPollWhen, Dump,
       DestroyMutexes
  <2>7. CASE FreeBatches \/ Cleanup
    BY <2>7 DEF FreeBatches, Cleanup
  <2> QED
    BY <1>1, <2>1, <2>2, <2>3, <2>4, <2>5, <2>6, <2>7 DEF Main
<1>2. ASSUME NEW p \in Polls, Poll(p) PROVE MainBounds'
  <2>1. CASE PollMisplaced(p) \/ PassPollGate(p) \/ Check(p) \/ IssueIoctl(p)
               \/ IoctlReturns(p)
    BY <2>1 DEF PollMisplaced, PassPollGate, Check, CheckWhile, IssueIoctl,
       IoctlReturns, ReturnSetting
  <2>2. CASE ReadSelector(p) \/ ReadValid(p) \/ StoreTag(p) \/ CheckRc(p) \/
               Wake(p)
    BY <2>2 DEF ReadSelector, ReadValid, StoreTag, CheckRc, Wake
  <2> QED
    BY <1>2, <2>1, <2>2 DEF Poll
<1>3. ASSUME NEW b \in Benches, Bench(b) PROVE MainBounds'
  <2>1. CASE BenchMisplaced(b) \/ PassBenchGate(b) \/ Work(b) \/ FinishBench(b)
    BY <2>1 DEF BenchMisplaced, PassBenchGate, Work, FinishBench
  <2> QED
    BY <1>3, <2>1 DEF Bench
<1>4. CASE UNCHANGED vars
  BY <1>4
<1> QED
  BY <1>1, <1>2, <1>3, <1>4 DEF Next, Ended

\* A gate opens only when main unlocks it.
LEMMA GatesStep ==
    ASSUME TypeOK, Gates, [Next]_vars
    PROVE Gates'
<1> USE JobAssumption DEF TypeOK, Gates, Polls, Benches, Slots, mainVars,
      flagVars, pollVars, history, vars, Goto, PollGoto, InLoop, LoopBound,
      MainLabels, PollActive, PollLabels, BenchLabels, Sampling, BeforeRelease,
      PollReleased, BenchReleased
<1>1. CASE Main
  <2>1. CASE EndLoop
    BY <2>1 DEF EndLoop, AfterLoop
  <2>2. CASE CreatePoll
    BY <2>2 DEF CreatePoll, CreatePollHolding
  <2>3. CASE ResetPoll0
    BY <2>3 DEF ResetPoll0
  <2>4. CASE CreateBench
    BY <2>4 DEF CreateBench, CreateBenchHolding
  <2>5. CASE RunSlot
    BY <2>5 DEF RunSlot, AfterSlot
  <2>6. CASE ReleasePoll
    BY <2>6 DEF ReleasePoll
  <2>7. CASE ReleaseBench
    BY <2>7 DEF ReleaseBench
  <2>8. CASE Select \/ Invalidate \/ Sleep \/ RingTheBell
    BY <2>8 DEF Select, SelectNext, Invalidate, Sleep, RingTheBell, Ring
  <2>9. CASE JoinBench \/ JoinPoll \/ Dump \/ DestroyMutexes
    BY <2>9 DEF JoinBench, JoinBenchWhen, JoinPoll, JoinPollWhen, Dump,
       DestroyMutexes
  <2>10. CASE FreeBatches \/ Cleanup
    BY <2>10 DEF FreeBatches, Cleanup
  <2> QED
    BY <1>1, <2>1, <2>2, <2>3, <2>4, <2>5, <2>6, <2>7, <2>8, <2>9, <2>10 DEF Main
<1>2. ASSUME NEW p \in Polls, Poll(p) PROVE Gates'
  <2>1. CASE PassPollGate(p)
    BY <2>1 DEF PassPollGate
  <2>2. CASE Check(p)
    BY <2>2 DEF Check, CheckWhile
  <2>3. CASE IssueIoctl(p)
    BY <2>3 DEF IssueIoctl
  <2>4. CASE IoctlReturns(p)
    BY <2>4 DEF IoctlReturns, ReturnSetting
  <2>5. CASE ReadSelector(p)
    BY <2>5 DEF ReadSelector
  <2>6. CASE ReadValid(p)
    BY <2>6 DEF ReadValid
  <2>7. CASE StoreTag(p)
    BY <2>7 DEF StoreTag
  <2>8. CASE PollMisplaced(p) \/ CheckRc(p)
    BY <2>8, SMTT(30) DEF PollMisplaced, CheckRc
  <2>9. CASE Wake(p)
    BY <2>9 DEF Wake
  <2> QED
    BY <1>2, <2>1, <2>2, <2>3, <2>4, <2>5, <2>6, <2>7, <2>8, <2>9 DEF Poll
<1>3. ASSUME NEW b \in Benches, Bench(b) PROVE Gates'
  <2>1. CASE BenchMisplaced(b) \/ PassBenchGate(b) \/ Work(b) \/ FinishBench(b)
    BY <2>1, SMTT(30) DEF BenchMisplaced, PassBenchGate, Work, FinishBench
  <2> QED
    BY <1>3, <2>1 DEF Bench
<1>4. CASE UNCHANGED vars
  BY <1>4
<1> QED
  BY <1>1, <1>2, <1>3, <1>4 DEF Next, Ended

\* Each slot adds itself to those that ran.
LEMMA SlotsStep ==
    ASSUME TypeOK, SlotsRun, [Next]_vars
    PROVE SlotsRun'
<1> USE JobAssumption DEF TypeOK, SlotsRun, Polls, Benches, Slots, mainVars,
      flagVars, pollVars, history, vars, Goto, PollGoto, InLoop, LoopBound,
      MainLabels, PollActive, PollLabels, BenchLabels, Sampling, BeforeRelease,
      AfterJoin
<1>1. CASE Main
  <2>1. CASE EndLoop
    BY <2>1 DEF EndLoop, AfterLoop
  <2>2. CASE RunSlot
    <3> SUFFICES ASSUME RunSlot PROVE SlotsRun'
      BY <2>2
    <3>1. CASE mpc = "SETUP"
      BY <3>1 DEF RunSlot, AfterSlot
    <3>2. CASE mpc = "START"
      BY <3>2 DEF RunSlot, AfterSlot
    <3>3. CASE mpc = "STOP"
      BY <3>3 DEF RunSlot, AfterSlot
    <3>4. CASE mpc = "READ"
      BY <3>4 DEF RunSlot, AfterSlot
    <3>5. CASE mpc = "TEARDOWN"
      BY <3>5 DEF RunSlot, AfterSlot
    <3> QED
      BY <3>1, <3>2, <3>3, <3>4, <3>5 DEF RunSlot
  <2>3. CASE CreatePoll \/ ResetPoll0 \/ CreateBench \/ ReleasePoll
    BY <2>3 DEF CreatePoll, CreatePollHolding, ResetPoll0, CreateBench,
       CreateBenchHolding, ReleasePoll
  <2>4. CASE ReleaseBench \/ Select \/ Invalidate \/ Sleep
    BY <2>4 DEF ReleaseBench, Select, SelectNext, Invalidate, Sleep
  <2>5. CASE RingTheBell \/ JoinBench \/ JoinPoll \/ Dump
    BY <2>5 DEF RingTheBell, Ring, JoinBench, JoinBenchWhen, JoinPoll,
       JoinPollWhen, Dump
  <2>6. CASE DestroyMutexes \/ FreeBatches \/ Cleanup
    BY <2>6 DEF DestroyMutexes, FreeBatches, Cleanup
  <2> QED
    BY <1>1, <2>1, <2>2, <2>3, <2>4, <2>5, <2>6 DEF Main
<1>2. ASSUME NEW p \in Polls, Poll(p) PROVE SlotsRun'
  <2>1. CASE PollMisplaced(p)
    BY <2>1 DEF PollMisplaced
  <2>2. CASE CheckRc(p)
    BY <2>2 DEF CheckRc
  <2>3. CASE ReadSelector(p)
    BY <2>3 DEF ReadSelector
  <2>4. CASE ReadValid(p)
    BY <2>4 DEF ReadValid
  <2>5. CASE IoctlReturns(p)
    BY <2>5 DEF IoctlReturns, ReturnSetting
  <2>6. CASE PassPollGate(p) \/ Check(p) \/ IssueIoctl(p)
    BY <2>6 DEF PassPollGate, Check, CheckWhile, IssueIoctl
  <2>7. CASE StoreTag(p) \/ Wake(p)
    BY <2>7 DEF StoreTag, Wake
  <2> QED
    BY <1>2, <2>1, <2>2, <2>3, <2>4, <2>5, <2>6, <2>7 DEF Poll
<1>3. ASSUME NEW b \in Benches, Bench(b) PROVE SlotsRun'
  <2>1. CASE BenchMisplaced(b) \/ PassBenchGate(b) \/ Work(b) \/ FinishBench(b)
    BY <2>1 DEF BenchMisplaced, PassBenchGate, Work, FinishBench
  <2> QED
    BY <1>3, <2>1 DEF Bench
<1>4. CASE UNCHANGED vars
  BY <1>4
<1> QED
  BY <1>1, <1>2, <1>3, <1>4 DEF Next, Ended

\* Nothing leaves "done", and main passes a join only behind it.
LEMMA JoinedStep ==
    ASSUME TypeOK, Joined, [Next]_vars
    PROVE Joined'
<1> USE JobAssumption DEF TypeOK, Joined, Polls, Benches, Slots, mainVars,
      flagVars, pollVars, history, vars, Goto, PollGoto, InLoop, LoopBound,
      MainLabels, PollActive, PollLabels, BenchLabels, Sampling, AfterJoin
<1>1. CASE Main
  <2>1. CASE EndLoop
    BY <2>1 DEF EndLoop, AfterLoop
  <2>2. CASE RunSlot
    BY <2>2 DEF RunSlot, AfterSlot
  <2>3. CASE RingTheBell
    BY <2>3 DEF RingTheBell, Ring
  <2>4. CASE JoinBench
    BY <2>4 DEF JoinBench, JoinBenchWhen
  <2>5. CASE JoinPoll
    BY <2>5 DEF JoinPoll, JoinPollWhen
  <2>6. CASE CreatePoll
    BY <2>6 DEF CreatePoll, CreatePollHolding
  <2>7. CASE ResetPoll0 \/ CreateBench \/ ReleasePoll
    BY <2>7 DEF ResetPoll0, CreateBench, CreateBenchHolding, ReleasePoll
  <2>8. CASE ReleaseBench \/ Select \/ Invalidate
    BY <2>8 DEF ReleaseBench, Select, SelectNext, Invalidate
  <2>9. CASE Sleep \/ Dump \/ DestroyMutexes
    BY <2>9 DEF Sleep, Dump, DestroyMutexes
  <2>10. CASE FreeBatches \/ Cleanup
    BY <2>10 DEF FreeBatches, Cleanup
  <2> QED
    BY <1>1, <2>1, <2>2, <2>3, <2>4, <2>5, <2>6, <2>7, <2>8, <2>9, <2>10 DEF Main
<1>2. ASSUME NEW p \in Polls, Poll(p) PROVE Joined'
  <2>1. CASE PollMisplaced(p)
    BY <2>1 DEF PollMisplaced
  <2>2. CASE PassPollGate(p)
    BY <2>2 DEF PassPollGate
  <2>3. CASE Check(p)
    BY <2>3 DEF Check, CheckWhile
  <2>4. CASE IssueIoctl(p)
    BY <2>4 DEF IssueIoctl
  <2>5. CASE IoctlReturns(p)
    BY <2>5 DEF IoctlReturns, ReturnSetting
  <2>6. CASE ReadSelector(p)
    BY <2>6, SMTT(30) DEF ReadSelector
  <2>7. CASE ReadValid(p)
    BY <2>7 DEF ReadValid
  <2>8. CASE StoreTag(p)
    BY <2>8 DEF StoreTag
  <2>9. CASE CheckRc(p)
    BY <2>9 DEF CheckRc
  <2>10. CASE Wake(p)
    BY <2>10 DEF Wake
  <2> QED
    BY <1>2, <2>1, <2>2, <2>3, <2>4, <2>5, <2>6, <2>7, <2>8, <2>9, <2>10 DEF Poll
<1>3. ASSUME NEW b \in Benches, Bench(b) PROVE Joined'
  <2>1. CASE BenchMisplaced(b) \/ PassBenchGate(b) \/ Work(b) \/ FinishBench(b)
    BY <2>1 DEF BenchMisplaced, PassBenchGate, Work, FinishBench
  <2> QED
    BY <1>3, <2>1 DEF Bench
<1>4. CASE UNCHANGED vars
  BY <1>4
<1> QED
  BY <1>1, <1>2, <1>3, <1>4 DEF Next, Ended

\* Only the last two steps of main give memory back.
LEMMA GivenBackStep ==
    ASSUME TypeOK, GivenBack, [Next]_vars
    PROVE GivenBack'
<1> USE JobAssumption DEF TypeOK, GivenBack, Polls, Benches, Slots, mainVars,
      flagVars, pollVars, history, vars, Goto, PollGoto, InLoop, LoopBound,
      AfterJoin
<1>1. CASE Main
  <2>1. CASE EndLoop
    BY <2>1 DEF EndLoop, AfterLoop
  <2>2. CASE RunSlot
    <3> SUFFICES ASSUME RunSlot PROVE GivenBack'
      BY <2>2
    <3>1. CASE mpc = "SETUP"
      BY <3>1 DEF RunSlot, AfterSlot
    <3>2. CASE mpc = "START"
      BY <3>2 DEF RunSlot, AfterSlot
    <3>3. CASE mpc = "STOP"
      BY <3>3 DEF RunSlot, AfterSlot
    <3>4. CASE mpc = "READ"
      BY <3>4 DEF RunSlot, AfterSlot
    <3>5. CASE mpc = "TEARDOWN"
      BY <3>5 DEF RunSlot, AfterSlot
    <3> QED
      BY <3>1, <3>2, <3>3, <3>4, <3>5 DEF RunSlot
  <2>3. CASE CreatePoll \/ ResetPoll0 \/ CreateBench \/ ReleasePoll
    BY <2>3 DEF CreatePoll, CreatePollHolding, ResetPoll0, CreateBench,
       CreateBenchHolding, ReleasePoll
  <2>4. CASE ReleaseBench \/ Select \/ Invalidate \/ Sleep
    BY <2>4 DEF ReleaseBench, Select, SelectNext, Invalidate, Sleep
  <2>5. CASE RingTheBell \/ JoinBench \/ JoinPoll \/ Dump
    BY <2>5 DEF RingTheBell, Ring, JoinBench, JoinBenchWhen, JoinPoll,
       JoinPollWhen, Dump
  <2>6. CASE DestroyMutexes \/ FreeBatches \/ Cleanup
    BY <2>6 DEF DestroyMutexes, FreeBatches, Cleanup
  <2> QED
    BY <1>1, <2>1, <2>2, <2>3, <2>4, <2>5, <2>6 DEF Main
<1>2. ASSUME NEW p \in Polls, Poll(p) PROVE GivenBack'
  <2>1. CASE PollMisplaced(p) \/ PassPollGate(p) \/ Check(p) \/ IssueIoctl(p)
               \/ IoctlReturns(p)
    BY <2>1 DEF PollMisplaced, PassPollGate, Check, CheckWhile, IssueIoctl,
       IoctlReturns, ReturnSetting
  <2>2. CASE ReadSelector(p) \/ ReadValid(p) \/ StoreTag(p) \/ CheckRc(p) \/
               Wake(p)
    BY <2>2 DEF ReadSelector, ReadValid, StoreTag, CheckRc, Wake
  <2> QED
    BY <1>2, <2>1, <2>2 DEF Poll
<1>3. ASSUME NEW b \in Benches, Bench(b) PROVE GivenBack'
  <2>1. CASE BenchMisplaced(b) \/ PassBenchGate(b) \/ Work(b) \/ FinishBench(b)
    BY <2>1 DEF BenchMisplaced, PassBenchGate, Work, FinishBench
  <2> QED
    BY <1>3, <2>1 DEF Bench
<1>4. CASE UNCHANGED vars
  BY <1>4
<1> QED
  BY <1>1, <1>2, <1>3, <1>4 DEF Next, Ended

\* A late sample is counted at its issue, and halt is never cleared.
LEMMA LastSampleStep ==
    ASSUME TypeOK, LastSample, [Next]_vars
    PROVE LastSample'
<1> USE JobAssumption DEF TypeOK, LastSample, Polls, Benches, Slots, mainVars,
      flagVars, pollVars, history, vars, Goto, PollGoto, InLoop, LoopBound,
      MainLabels, PollActive, PollLabels, BenchLabels, Sampling
<1>1. CASE Main
  <2>1. CASE EndLoop \/ CreatePoll \/ ResetPoll0 \/ CreateBench
    BY <2>1 DEF EndLoop, AfterLoop, CreatePoll, CreatePollHolding, ResetPoll0,
       CreateBench, CreateBenchHolding
  <2>2. CASE RunSlot \/ ReleasePoll \/ ReleaseBench \/ Select
    BY <2>2 DEF RunSlot, AfterSlot, ReleasePoll, ReleaseBench, Select,
       SelectNext
  <2>3. CASE Invalidate \/ Sleep \/ RingTheBell \/ JoinBench
    BY <2>3 DEF Invalidate, Sleep, RingTheBell, Ring, JoinBench, JoinBenchWhen
  <2>4. CASE JoinPoll \/ Dump \/ DestroyMutexes \/ FreeBatches
    BY <2>4 DEF JoinPoll, JoinPollWhen, Dump, DestroyMutexes, FreeBatches
  <2>5. CASE Cleanup
    BY <2>5 DEF Cleanup
  <2> QED
    BY <1>1, <2>1, <2>2, <2>3, <2>4, <2>5 DEF Main
<1>2. ASSUME NEW p \in Polls, Poll(p) PROVE LastSample'
  <2>1. CASE IssueIoctl(p)
    <3> SUFFICES ASSUME IssueIoctl(p) PROVE LastSample'
      BY <2>1
    <3>1. late[p] = 0
      <4>1. late[p] \in Nat /\ late[p] <= 1
        OBVIOUS
      <4>2. late[p] # 1
        BY DEF IssueIoctl
      <4> QED
        BY <4>1, <4>2
    <3>2. late'[p] = IF halt THEN 1 ELSE 0
      BY <3>1 DEF IssueIoctl
    <3>3. ASSUME NEW q \in Polls, q # p PROVE late'[q] = late[q] /\ ppc'[q] = ppc[q]
      BY <3>3 DEF IssueIoctl
    <3>4. ppc'[p] = "ioctl"
      BY DEF IssueIoctl
    <3> QED
      BY <3>2, <3>3, <3>4 DEF IssueIoctl
  <2>2. CASE IoctlReturns(p)
    BY <2>2 DEF IoctlReturns, ReturnSetting
  <2>3. CASE ReadSelector(p)
    BY <2>3 DEF ReadSelector
  <2>4. CASE ReadValid(p)
    BY <2>4 DEF ReadValid
  <2>5. CASE StoreTag(p)
    BY <2>5 DEF StoreTag
  <2>6. CASE PollMisplaced(p) \/ PassPollGate(p)
    BY <2>6 DEF PollMisplaced, PassPollGate
  <2>7. CASE Check(p) \/ CheckRc(p)
    BY <2>7 DEF Check, CheckWhile, CheckRc
  <2>8. CASE Wake(p)
    BY <2>8 DEF Wake
  <2> QED
    BY <1>2, <2>1, <2>2, <2>3, <2>4, <2>5, <2>6, <2>7, <2>8 DEF Poll
<1>3. ASSUME NEW b \in Benches, Bench(b) PROVE LastSample'
  <2>1. CASE BenchMisplaced(b) \/ PassBenchGate(b) \/ Work(b) \/ FinishBench(b)
    BY <2>1 DEF BenchMisplaced, PassBenchGate, Work, FinishBench
  <2> QED
    BY <1>3, <2>1 DEF Bench
<1>4. CASE UNCHANGED vars
  BY <1>4
<1> QED
  BY <1>1, <1>2, <1>3, <1>4 DEF Next, Ended

\* A store to ab_selector leaves main bound for its store to valid.
LEMMA FlipPendingStep ==
    ASSUME TypeOK, FlipPending, [Next]_vars
    PROVE FlipPending'
<1> USE JobAssumption DEF TypeOK, FlipPending, Polls, Benches, Slots, mainVars,
      flagVars, pollVars, history, vars, Goto, PollGoto, InLoop, LoopBound,
      MainLabels, PollActive, PollLabels, BenchLabels, Sampling
<1>1. CASE Main
  <2>1. CASE Select
    BY <2>1 DEF Select, SelectNext
  <2>2. CASE Invalidate
    BY <2>2 DEF Invalidate
  <2>3. CASE EndLoop \/ CreatePoll \/ ResetPoll0 \/ CreateBench
    BY <2>3, SMTT(30) DEF EndLoop, AfterLoop, CreatePoll, CreatePollHolding, ResetPoll0,
       CreateBench, CreateBenchHolding
  <2>4. CASE RunSlot \/ ReleasePoll \/ ReleaseBench \/ Sleep
    BY <2>4 DEF RunSlot, AfterSlot, ReleasePoll, ReleaseBench, Sleep
  <2>5. CASE RingTheBell \/ JoinBench \/ JoinPoll \/ Dump
    BY <2>5 DEF RingTheBell, Ring, JoinBench, JoinBenchWhen, JoinPoll,
       JoinPollWhen, Dump
  <2>6. CASE DestroyMutexes \/ FreeBatches \/ Cleanup
    BY <2>6 DEF DestroyMutexes, FreeBatches, Cleanup
  <2> QED
    BY <1>1, <2>1, <2>2, <2>3, <2>4, <2>5, <2>6 DEF Main
<1>2. ASSUME NEW p \in Polls, Poll(p) PROVE FlipPending'
  <2>1. CASE IssueIoctl(p)
    BY <2>1 DEF IssueIoctl
  <2>2. CASE IoctlReturns(p)
    BY <2>2 DEF IoctlReturns, ReturnSetting
  <2>3. CASE ReadSelector(p)
    BY <2>3 DEF ReadSelector
  <2>4. CASE ReadValid(p)
    BY <2>4 DEF ReadValid
  <2>5. CASE StoreTag(p)
    BY <2>5 DEF StoreTag
  <2>6. CASE PollMisplaced(p) \/ PassPollGate(p)
    BY <2>6 DEF PollMisplaced, PassPollGate
  <2>7. CASE Check(p) \/ CheckRc(p)
    BY <2>7 DEF Check, CheckWhile, CheckRc
  <2>8. CASE Wake(p)
    BY <2>8 DEF Wake
  <2> QED
    BY <1>2, <2>1, <2>2, <2>3, <2>4, <2>5, <2>6, <2>7, <2>8 DEF Poll
<1>3. ASSUME NEW b \in Benches, Bench(b) PROVE FlipPending'
  <2>1. CASE BenchMisplaced(b) \/ PassBenchGate(b) \/ Work(b) \/ FinishBench(b)
    BY <2>1 DEF BenchMisplaced, PassBenchGate, Work, FinishBench
  <2> QED
    BY <1>3, <2>1 DEF Bench
<1>4. CASE UNCHANGED vars
  BY <1>4
<1> QED
  BY <1>1, <1>2, <1>3, <1>4 DEF Next, Ended

\* Nobody but the one poll itself undoes an invalidation.
LEMMA InvalidationStep ==
    ASSUME TypeOK, InvalidationHolds, [Next]_vars
    PROVE InvalidationHolds'
<1> USE JobAssumption DEF TypeOK, InvalidationHolds, Polls, Benches, Slots,
      mainVars, flagVars, pollVars, history, vars, Goto, PollGoto, InLoop,
      LoopBound, MainLabels, PollActive, PollLabels, BenchLabels, Sampling
<1>1. CASE Main
  <2>1. CASE Select
    BY <2>1 DEF Select, SelectNext
  <2>2. CASE Invalidate
    BY <2>2 DEF Invalidate
  <2>3. CASE EndLoop \/ CreatePoll \/ ResetPoll0 \/ CreateBench
    BY <2>3 DEF EndLoop, AfterLoop, CreatePoll, CreatePollHolding, ResetPoll0,
       CreateBench, CreateBenchHolding
  <2>4. CASE RunSlot \/ ReleasePoll \/ ReleaseBench \/ Sleep
    BY <2>4 DEF RunSlot, AfterSlot, ReleasePoll, ReleaseBench, Sleep
  <2>5. CASE RingTheBell \/ JoinBench \/ JoinPoll \/ Dump
    BY <2>5 DEF RingTheBell, Ring, JoinBench, JoinBenchWhen, JoinPoll,
       JoinPollWhen, Dump
  <2>6. CASE DestroyMutexes \/ FreeBatches \/ Cleanup
    BY <2>6 DEF DestroyMutexes, FreeBatches, Cleanup
  <2> QED
    BY <1>1, <2>1, <2>2, <2>3, <2>4, <2>5, <2>6 DEF Main
<1>2. ASSUME NEW p \in Polls, Poll(p) PROVE InvalidationHolds'
  <2>1. CASE IssueIoctl(p)
    BY <2>1 DEF IssueIoctl
  <2>2. CASE IoctlReturns(p)
    BY <2>2 DEF IoctlReturns, ReturnSetting
  <2>3. CASE ReadSelector(p)
    BY <2>3 DEF ReadSelector
  <2>4. CASE ReadValid(p)
    BY <2>4 DEF ReadValid
  <2>5. CASE StoreTag(p)
    BY <2>5 DEF StoreTag
  <2>6. CASE PollMisplaced(p) \/ PassPollGate(p)
    BY <2>6 DEF PollMisplaced, PassPollGate
  <2>7. CASE Check(p) \/ CheckRc(p)
    BY <2>7 DEF Check, CheckWhile, CheckRc
  <2>8. CASE Wake(p)
    BY <2>8 DEF Wake
  <2> QED
    BY <1>2, <2>1, <2>2, <2>3, <2>4, <2>5, <2>6, <2>7, <2>8 DEF Poll
<1>3. ASSUME NEW b \in Benches, Bench(b) PROVE InvalidationHolds'
  <2>1. CASE BenchMisplaced(b) \/ PassBenchGate(b) \/ Work(b) \/ FinishBench(b)
    BY <2>1 DEF BenchMisplaced, PassBenchGate, Work, FinishBench
  <2> QED
    BY <1>3, <2>1 DEF Bench
<1>4. CASE UNCHANGED vars
  BY <1>4
<1> QED
  BY <1>1, <1>2, <1>3, <1>4 DEF Next, Ended

-----------------------------------------------------------------------------
(* The theorems.                                                           *)

LEMMA InitIInv == Init => IInv
<1> SUFFICES ASSUME Init PROVE IInv
  OBVIOUS
<1>1. TypeOK
  <2>1. /\ pmutex \in [Polls -> {"none", "free", "main", "thread"}]
        /\ bmutex \in [Benches -> {"none", "free", "main", "thread"}]
        /\ ppc \in [Polls -> PollLabels]
        /\ bpc \in [Benches -> BenchLabels]
    BY DEF Init, PollLabels, BenchLabels
  <2>2. /\ rc \in [Polls -> BOOLEAN] /\ regSel \in [Polls -> BOOLEAN]
        /\ regValid \in [Polls -> BOOLEAN] /\ begun \in [Polls -> BOOLEAN]
        /\ flipped \in [Polls -> BOOLEAN] /\ invalidated \in [Polls -> BOOLEAN]
    BY DEF Init
  <2>3. /\ pb \in [Polls -> Nat] /\ late \in [Polls -> Nat]
        /\ \A p \in Polls : pb[p] <= TotalOps[p]
    BY JobAssumption DEF Init
  <2>4. /\ mpc \in MainLabels /\ mi \in Nat /\ rounds \in 0 .. MaxRounds
    BY JobAssumption DEF Init, MainLabels
  <2>5. ran \subseteq Slots /\ freed \subseteq {"batches", "configs"}
    BY DEF Init
  <2> QED
    BY <2>1, <2>2, <2>3, <2>4, <2>5 DEF Init, TypeOK
<1>2. InBounds /\ LastSample /\ FlipPending /\ InvalidationHolds
  BY DEF Init, InBounds, LastSample, FlipPending, InvalidationHolds, Sampling,
         Polls
<1>3. MainBounds /\ SlotsRun /\ GivenBack
  BY JobAssumption
     DEF Init, MainBounds, SlotsRun, GivenBack, BeforeRelease, AfterJoin, Slots
<1>4. Gates /\ Joined
  BY DEF Init, Gates, Joined, PollActive, Sampling, AfterJoin
<1> QED
  BY <1>1, <1>2, <1>3, <1>4 DEF IInv

\* The invariant holds of every reachable state.
THEOREM Invariance == Spec => []IInv
<1>1. IInv /\ [Next]_vars => IInv'
  BY TypeStep, InBoundsStep, MainBoundsStep, GatesStep, SlotsStep, JoinedStep,
     GivenBackStep, LastSampleStep, FlipPendingStep, InvalidationStep
     DEF IInv
<1> QED
  BY <1>1, InitIInv, PTL DEF Spec

\* Every variable keeps its type, and b never passes total_ops (main.c:76).
THEOREM TypeCorrect == Spec => []TypeOK
<1>1. IInv => TypeOK
  BY DEF IInv
<1> QED
  BY <1>1, Invariance, PTL

\* Threads work only between the START and the STOP batches (main.c:172-231),
\* however many there are.
THEOREM WindowHolds == Spec => []MeasurementWindow
<1>1. IInv => MeasurementWindow
  <2> SUFFICES ASSUME IInv,
                      \/ \E p \in Polls : ppc[p] \in PollActive
                      \/ \E b \in Benches : bpc[b] = "run"
               PROVE  "START" \in ran /\ "STOP" \notin ran
    BY DEF MeasurementWindow
  <2>1. mpc \notin BeforeRelease
    BY DEF IInv, Gates, PollReleased, BenchReleased
  <2>2. mpc \notin AfterJoin
    BY DEF IInv, Joined, PollActive, Sampling
  <2> QED
    BY <2>1, <2>2 DEF IInv, SlotsRun
<1> QED
  BY <1>1, Invariance, PTL

\* Results are dumped, and memory freed, only after every thread was joined
\* (main.c:218-245).
THEOREM OwnershipHolds == Spec => []DataOwnership
<1>1. IInv => DataOwnership
  BY DEF IInv, DataOwnership, AllDone, Joined, GivenBack, AfterJoin
<1> QED
  BY <1>1, Invariance, PTL

\* Each poll takes at most one sample after halt is set (main.c:76 and 215).
THEOREM LateSampleBound == Spec => []AtMostOneLateSample
<1>1. IInv => AtMostOneLateSample
  BY DEF IInv, AtMostOneLateSample, LastSample
<1> QED
  BY <1>1, Invariance, PTL

\* With one poll, a tag that says valid misses no completed invalidation
\* (main.c:79-80, 200).
THEOREM SinglePollInvalidation ==
    ASSUME PollCount = 1 PROVE Spec => []InvalidationSeen
<1>1. IInv => InvalidationSeen
  BY PollCount = 1 DEF IInv, InvalidationSeen, InvalidationHolds
<1> QED
  BY <1>1, Invariance, PTL

\* The fields of polls[0] that its thread reads without a lock (main.c:87-93)
\* are written only while it waits for main to unlock its mutex.
THEOREM Poll0Guarded == Spec => Poll0WrittenBehindGate
<1>1. IInv /\ [Next]_vars => (poll0' # poll0 => ppc[0] \in {"none", "gate"})
  <2> SUFFICES ASSUME IInv, [Next]_vars, poll0' # poll0
               PROVE  ppc[0] \in {"none", "gate"}
    OBVIOUS
  <2>1. ResetPoll0 \/ CreateBench
    BY DEF Next, Ended, Main, EndLoop, CreatePoll, CreatePollHolding, RunSlot,
           ReleasePoll, ReleaseBench, Select, SelectNext, Invalidate, Sleep,
           RingTheBell, Ring, JoinBench, JoinBenchWhen, JoinPoll, JoinPollWhen,
           Dump, DestroyMutexes, FreeBatches, Cleanup, Poll, PollMisplaced,
           PassPollGate, Check, CheckWhile, IssueIoctl, IoctlReturns,
           ReturnSetting, ReadSelector, ReadValid, StoreTag, CheckRc, Wake,
           Bench, BenchMisplaced, PassBenchGate, Work, FinishBench, vars,
           mainVars
  <2>2. mpc \in BeforeRelease /\ 0 \in Polls
    BY <2>1, JobAssumption
       DEF IInv, MainBounds, ResetPoll0, CreateBench, CreateBenchHolding, Goto,
           InLoop, BeforeRelease, Polls
  <2>3. ppc[0] \notin PollActive \cup {"done"}
    BY <2>2 DEF IInv, Gates, PollReleased
  <2> QED
    BY <2>2, <2>3 DEF IInv, TypeOK, PollLabels
<1> QED
  BY <1>1, Invariance, PTL DEF Spec, Poll0WrittenBehindGate

\* Each longitudinal slot runs once, in order, and finds its descriptor open
\* (msr_utils.c:919-942).
THEOREM SlotsInOrder == Spec => SlotProtocol
<1>1. IInv /\ [Next]_vars => (mpc' # mpc /\ mpc \in Slots => SlotInOrder(mpc))
  <2> SUFFICES ASSUME IInv, mpc \in Slots PROVE SlotInOrder(mpc)
    OBVIOUS
  <2>1. ran \subseteq Slots
    BY DEF IInv, TypeOK
  <2>2. ran = {r \in Slots : SlotRank[r] < SlotRank[mpc]}
    <3>1. ASSUME NEW r \in Slots
          PROVE  r \in ran <=> SlotRank[r] < SlotRank[mpc]
      <4> USE DEF IInv, SlotsRun, SlotRank, Slots, BeforeRelease, AfterJoin
      <4>1. CASE r = "SETUP"
        BY <4>1
      <4>2. CASE r = "START"
        BY <4>2
      <4>3. CASE r = "STOP"
        BY <4>3
      <4>4. CASE r = "READ"
        BY <4>4
      <4>5. CASE r = "TEARDOWN"
        BY <4>5
      <4> QED
        BY <4>1, <4>2, <4>3, <4>4, <4>5
    <3> QED
      BY <2>1, <3>1
  <2>3. fd <=> mpc # "SETUP"
    BY DEF IInv, SlotsRun, Slots, BeforeRelease, AfterJoin
  <2> QED
    BY <2>2, <2>3 DEF SlotInOrder
<1> QED
  BY <1>1, Invariance, PTL DEF Spec, SlotProtocol

\* With one poll, a sample that straddles A and B is tagged valid only if valid
\* is read between main's two stores (main.c:195-200).
THEOREM SinglePollWindow ==
    ASSUME PollCount = 1 PROVE Spec => StraddlesOnlyInWindow
<1>1. IInv /\ [Next]_vars =>
        (\A p \in Polls :
            ReadsValid(p) /\ flipped[p] /\ valid => mpc = "invalidate")
  BY PollCount = 1
     DEF IInv, FlipPending, InvalidationHolds, ReadsValid
<1> QED
  BY <1>1, Invariance, PTL DEF Spec, StraddlesOnlyInWindow

-----------------------------------------------------------------------------
(* Job implements Measurement.                                             *)

\* Steps that move no thread into or out of its work leave the workers alone.
LEMMA SameWorkers ==
    ASSUME \A p \in Polls :
               /\ ppc'[p] \in PollActive <=> ppc[p] \in PollActive
               /\ ppc'[p] = "done" <=> ppc[p] = "done",
           \A b \in Benches :
               /\ bpc'[b] = "run" <=> bpc[b] = "run"
               /\ bpc'[b] = "done" <=> bpc[b] = "done"
    PROVE  ActiveBar' = ActiveBar /\ FinishedBar' = FinishedBar
  BY DEF ActiveBar, FinishedBar, Workers, Working, Returned

LEMMA SamePhase ==
    ASSUME UNCHANGED <<status, freed, ran>> PROVE PhaseBar' = PhaseBar
  BY DEF PhaseBar

\* The measurement is open as long as main is between START and STOP.
LEMMA OpenPhase ==
    ASSUME IInv, Running, mpc \notin BeforeRelease, mpc \notin AfterJoin \ {"STOP"}
    PROVE  PhaseBar = "open"
  BY DEF IInv, GivenBack, SlotsRun, PhaseBar, Running, AfterJoin

\* A process that ends early dies in the abstraction too.
LEMMA Death ==
    ASSUME Running, status' \notin {"running", "done"}, UNCHANGED <<ppc, bpc>>
    PROVE  M!Die
<1>1. ActiveBar' = ActiveBar /\ FinishedBar' = FinishedBar
  BY SameWorkers
<1>2. PhaseBar' = "dead" /\ PhaseBar \in M!Phase \ {"dead"}
  BY DEF PhaseBar, M!Phase, Running
<1> QED
  BY <1>1, <1>2 DEF M!Die, M!Advance

\* A thread past its gate works while the measurement is open.
LEMMA WorkIsOpen ==
    ASSUME IInv, Running
    PROVE  /\ \A p \in Polls :
                pmutex[p] \in {"free", "thread"} /\ ppc[p] # "done"
                => PhaseBar = "open"
           /\ \A b \in Benches :
                bmutex[b] \in {"free", "thread"} /\ bpc[b] # "done"
                => PhaseBar = "open"
  BY OpenPhase DEF IInv, Gates, Joined, PollReleased, BenchReleased, AfterJoin

LEMMA PollStepRefines ==
    ASSUME IInv, Running, NEW p \in Polls, Poll(p)
    PROVE  M!Next \/ UNCHANGED M!vars
<1> DEFINE w == <<"poll", p>>
           Others == \A v \in Workers : v # w =>
                        (Working(v)' <=> Working(v)) /\ (Returned(v)' <=> Returned(v))
<1> USE DEF PollActive, Sampling
<1>1. w \in Workers
  BY DEF Workers
<1>2. CASE PassPollGate(p)
  <2>1. PhaseBar = "open" /\ PhaseBar' = "open"
    BY <1>2, WorkIsOpen, SamePhase DEF PassPollGate, PollGoto, mainVars
  <2>2. Others
    BY <1>2 DEF PassPollGate, PollGoto, Working, Returned, Workers, IInv, TypeOK
  <2>3. Working(w)' /\ ~Working(w) /\ ~Returned(w) /\ ~Returned(w)'
    BY <1>2 DEF PassPollGate, PollGoto, Working, Returned, IInv, TypeOK
  <2>4. M!Begin(w)
    BY <1>1, <2>1, <2>2, <2>3 DEF M!Begin, ActiveBar, FinishedBar
  <2> QED
    BY <1>1, <2>4 DEF M!Next
<1>3. CASE Check(p) /\ ppc'[p] = "done"
  <2>1. PhaseBar = "open" /\ PhaseBar' = "open"
    BY <1>3, WorkIsOpen, SamePhase
       DEF Check, CheckWhile, PollGoto, mainVars, IInv, Gates
  <2>2. Others
    BY <1>3
       DEF Check, CheckWhile, PollGoto, Working, Returned, Workers, IInv, TypeOK
  <2>3. ~Working(w)' /\ Working(w) /\ ~Returned(w) /\ Returned(w)'
    BY <1>3 DEF Check, CheckWhile, PollGoto, Working, Returned
  <2>4. M!End(w)
    BY <1>1, <2>1, <2>2, <2>3 DEF M!End, ActiveBar, FinishedBar
  <2> QED
    BY <1>1, <2>4 DEF M!Next
<1>4. CASE PollMisplaced(p) \/ (CheckRc(p) /\ rc[p])
  BY <1>4, Death DEF PollMisplaced, CheckRc, pollVars, M!Next
<1>5. ASSUME ppc[p] \in PollActive, ppc'[p] \in PollActive, bpc' = bpc,
             \A q \in Polls : q # p => ppc'[q] = ppc[q],
             UNCHANGED <<status, freed, ran>>
      PROVE  UNCHANGED M!vars
  BY <1>5, SameWorkers, SamePhase DEF M!vars
<1>6. CASE Check(p) /\ ppc'[p] # "done"
  BY <1>5, <1>6 DEF Check, CheckWhile, PollGoto, mainVars, IInv, TypeOK
<1>7. CASE IssueIoctl(p) \/ IoctlReturns(p) \/ StoreTag(p)
  BY <1>5, <1>7
     DEF IssueIoctl, IoctlReturns, ReturnSetting, StoreTag, PollGoto, mainVars,
         IInv, TypeOK
<1>8. CASE ReadSelector(p)
  BY <1>5, <1>8 DEF ReadSelector, PollGoto, mainVars, IInv, TypeOK
<1>9. CASE ReadValid(p)
  BY <1>5, <1>9 DEF ReadValid, PollGoto, mainVars, IInv, TypeOK
<1>10. CASE CheckRc(p) /\ ~rc[p]
  BY <1>5, <1>10 DEF CheckRc, mainVars, IInv, TypeOK
<1>11. CASE Wake(p)
  BY <1>5, <1>11 DEF Wake, PollGoto, mainVars, IInv, TypeOK
<1> QED
  BY <1>2, <1>3, <1>4, <1>6, <1>7, <1>8, <1>9, <1>10, <1>11 DEF Poll

LEMMA BenchStepRefines ==
    ASSUME IInv, Running, NEW b \in Benches, Bench(b)
    PROVE  M!Next \/ UNCHANGED M!vars
<1> DEFINE w == <<"bench", b>>
           Others == \A v \in Workers : v # w =>
                        (Working(v)' <=> Working(v)) /\ (Returned(v)' <=> Returned(v))
<1>1. w \in Workers
  BY DEF Workers
<1>2. CASE PassBenchGate(b)
  <2>1. PhaseBar = "open" /\ PhaseBar' = "open"
    BY <1>2, WorkIsOpen, SamePhase DEF PassBenchGate, mainVars
  <2>2. Others
    BY <1>2 DEF PassBenchGate, pollVars, Working, Returned, Workers, IInv, TypeOK
  <2>3. Working(w)' /\ ~Working(w) /\ ~Returned(w) /\ ~Returned(w)'
    BY <1>2 DEF PassBenchGate, Working, Returned, IInv, TypeOK
  <2>4. M!Begin(w)
    BY <1>1, <2>1, <2>2, <2>3 DEF M!Begin, ActiveBar, FinishedBar
  <2> QED
    BY <1>1, <2>4 DEF M!Next
<1>3. CASE FinishBench(b)
  <2>1. PhaseBar = "open" /\ PhaseBar' = "open"
    BY <1>3, WorkIsOpen, SamePhase DEF FinishBench, mainVars, IInv, Gates
  <2>2. Others
    BY <1>3 DEF FinishBench, pollVars, Working, Returned, Workers, IInv, TypeOK
  <2>3. ~Working(w)' /\ Working(w) /\ ~Returned(w) /\ Returned(w)'
    BY <1>3 DEF FinishBench, Working, Returned, IInv, TypeOK
  <2>4. M!End(w)
    BY <1>1, <2>1, <2>2, <2>3 DEF M!End, ActiveBar, FinishedBar
  <2> QED
    BY <1>1, <2>4 DEF M!Next
<1>4. CASE BenchMisplaced(b)
  BY <1>4, Death DEF BenchMisplaced, pollVars, M!Next
<1>5. CASE Work(b)
  BY <1>5, SameWorkers, SamePhase DEF Work, vars, mainVars, pollVars, M!vars
<1> QED
  BY <1>2, <1>3, <1>4, <1>5 DEF Bench

\* A thread that main creates is not at work yet, and was not before.
LEMMA CreateStepRefines ==
    ASSUME IInv, CreatePoll \/ CreateBench PROVE UNCHANGED M!vars
<1> USE DEF IInv, TypeOK, Gates, PollReleased, BenchReleased, BeforeRelease
<1>1. CASE CreatePoll
  <2>1. mi \in Polls /\ ppc[mi] \notin PollActive \cup {"done"}
    BY <1>1, JobAssumption
       DEF CreatePoll, CreatePollHolding, InLoop, LoopBound, Polls
  <2>2. /\ ppc' = [ppc EXCEPT ![mi] = "gate"]
        /\ UNCHANGED <<status, freed, ran, bpc>>
    BY <1>1 DEF CreatePoll, CreatePollHolding
  <2> QED
    BY <2>1, <2>2, SameWorkers, SamePhase DEF M!vars, PollActive, Sampling
<1>2. CASE CreateBench
  <2>1. mi \in Benches /\ bpc[mi] \notin {"run", "done"}
    BY <1>2, JobAssumption
       DEF CreateBench, CreateBenchHolding, InLoop, LoopBound, Benches
  <2>2. /\ bpc' = [bpc EXCEPT ![mi] = "gate"]
        /\ UNCHANGED <<status, freed, ran, ppc>>
    BY <1>2 DEF CreateBench, CreateBenchHolding, pollVars
  <2> QED
    BY <2>1, <2>2, SameWorkers, SamePhase DEF M!vars
<1> QED
  BY <1>1, <1>2

LEMMA MainStepRefines ==
    ASSUME IInv, Running, Main
    PROVE  M!Next \/ UNCHANGED M!vars
<1>1. ASSUME UNCHANGED <<ppc, bpc>>
      PROVE  ActiveBar' = ActiveBar /\ FinishedBar' = FinishedBar
  BY <1>1, SameWorkers
<1>2. CASE CreatePoll \/ CreateBench
  BY <1>2, CreateStepRefines
<1>3. CASE RunSlot
  <2>1. UNCHANGED <<status, freed, ppc, bpc>> /\ ran' = ran \cup {mpc}
    BY <1>3 DEF RunSlot, pollVars
  <2>2. freed = {}
    BY <1>3 DEF RunSlot, IInv, GivenBack, Slots
  <2> USE DEF IInv, SlotsRun, PhaseBar, Running, M!Next, M!vars
  <2>3. CASE mpc \in {"SETUP", "TEARDOWN"}
    BY <1>1, <2>1, <2>2, <2>3 DEF BeforeRelease, AfterJoin
  <2>4. CASE mpc = "START"
    BY <1>1, <2>1, <2>2, <2>4 DEF BeforeRelease, AfterJoin, M!Open, M!Advance
  <2>5. CASE mpc = "STOP"
    <3>1. FinishedBar = Workers
      BY <2>5 DEF Joined, AfterJoin, FinishedBar, Workers, Returned
    <3> QED
      BY <1>1, <2>1, <2>2, <2>5, <3>1
         DEF BeforeRelease, AfterJoin, M!Close, M!Advance
  <2>6. CASE mpc = "READ"
    BY <1>1, <2>1, <2>2, <2>6 DEF BeforeRelease, AfterJoin, M!Read, M!Advance
  <2> QED
    BY <1>3, <2>3, <2>4, <2>5, <2>6 DEF RunSlot, Slots
<1>4. CASE FreeBatches
  <2>1. freed = {} /\ freed' # {} /\ UNCHANGED <<status, ran, ppc, bpc>>
    BY <1>4 DEF FreeBatches, Goto, pollVars, IInv, GivenBack
  <2>2. PhaseBar = "read" /\ PhaseBar' = "released"
    BY <1>4, <2>1
       DEF FreeBatches, Goto, IInv, SlotsRun, PhaseBar, Running, AfterJoin
  <2> QED
    BY <1>1, <2>1, <2>2 DEF M!Release, M!Advance, M!Next
<1>5. CASE (Dump \/ Cleanup) /\ status' \notin {"running", "done"}
  BY <1>5, Death DEF Dump, Cleanup, pollVars, M!Next
<1>6. CASE Cleanup /\ status' \in {"running", "done"}
  <2>1. freed # {} /\ freed' # {} /\ UNCHANGED <<ran, ppc, bpc>>
    BY <1>6 DEF Cleanup, pollVars, IInv, GivenBack
  <2>2. PhaseBar = "released" /\ PhaseBar' = "released"
    BY <1>6, <2>1 DEF PhaseBar, Running
  <2> QED
    BY <1>1, <2>1, <2>2 DEF M!vars
<1>7. ASSUME UNCHANGED <<status, freed, ran, ppc, bpc>>
      PROVE  UNCHANGED M!vars
  BY <1>1, <1>7, SamePhase DEF M!vars
<1>8. CASE Dump /\ status' \in {"running", "done"}
  BY <1>7, <1>8 DEF Dump, Running, pollVars
<1>9. CASE EndLoop \/ ResetPoll0 \/ ReleasePoll \/ ReleaseBench \/ Select
  BY <1>7, <1>9
     DEF EndLoop, ResetPoll0, ReleasePoll, ReleaseBench, Select, SelectNext,
         pollVars
<1>10. CASE Invalidate \/ Sleep \/ RingTheBell
  BY <1>7, <1>10 DEF Invalidate, Sleep, RingTheBell, Ring, pollVars
<1>11. CASE JoinBench \/ JoinPoll \/ DestroyMutexes
  BY <1>7, <1>11
     DEF JoinBench, JoinBenchWhen, JoinPoll, JoinPollWhen, DestroyMutexes,
         pollVars
<1> QED
  BY <1>2, <1>3, <1>4, <1>5, <1>6, <1>8, <1>9, <1>10, <1>11 DEF Main

\* Every run of the job is a run of Measurement.
THEOREM JobIsMeasurement == Spec => ImplementsMeasurement
<1>1. Init => M!Init
  BY DEF Init, M!Init, PhaseBar, ActiveBar, FinishedBar, Workers, Working,
         Returned, PollActive, Sampling
<1>2. IInv /\ [Next]_vars => [M!Next]_(M!vars)
  <2>1. UNCHANGED vars => UNCHANGED M!vars
    BY SameWorkers, SamePhase DEF vars, mainVars, pollVars, M!vars
  <2> QED
    BY <2>1, PollStepRefines, BenchStepRefines, MainStepRefines
       DEF Next, Ended
<1> QED
  BY <1>1, <1>2, Invariance, PTL DEF Spec, M!Spec, ImplementsMeasurement

-----------------------------------------------------------------------------
(***************************************************************************)
(* Capture, for any number of polls and benchmarks, samples, rounds and     *)
(* encodings per pass: it is a refinement of Job, so that all of the above  *)
(* holds of it, and its own invariants hold.                                *)
(***************************************************************************)

allVars == <<vars, captureVars>>

LEMMA Zeroes == 0 \in Polls /\ 0 \in Benches
  BY CaptureAssumption, JobAssumption DEF Polls, Benches

-----------------------------------------------------------------------------
(* Every step is a step of Job, or leaves its state alone.                 *)

LEMMA JobStep ==
    ASSUME [CaptureNext]_allVars
    PROVE  [Next]_vars
<1>1. CASE Running /\ CaptureMain
  BY <1>1 DEF CaptureMain, Next
<1>2. ASSUME NEW p \in Polls, Running, CapturePoll(p)
      PROVE  [Next]_vars
  <2>1. CASE p # 0
    BY <1>2, <2>1 DEF CapturePoll, Next
  <2>2. CASE p = 0
    <3>1. Poll(0) \/ UNCHANGED vars
      BY <1>2, <2>2 DEF CapturePoll, CapturePoll0, Poll, IssueSample, FirstCopy,
                        SecondCopy, WakeAgain
    <3> QED
      BY <1>2, <3>1, Zeroes DEF Next
  <2> QED
    BY <2>1, <2>2
<1>3. ASSUME NEW b \in Benches, Running, CaptureBench(b)
      PROVE  [Next]_vars
  <2>1. CASE b # 0
    BY <1>3, <2>1 DEF CaptureBench, Next
  <2>2. CASE b = 0
    <3>1. Bench(0) \/ UNCHANGED vars
      BY <1>3, <2>2 DEF CaptureBench, Abxor0Thread, Abxor0Pass, Bench, TakeKey,
                        Start, Test, Compare, CompareAs, Notice, Encode,
                        EncodeTimes, Goes
    <3> QED
      BY <1>3, <3>1, Zeroes DEF Next
  <2> QED
    BY <2>1, <2>2
<1>4. CASE CaptureEnded
  BY <1>4 DEF CaptureEnded
<1>5. CASE UNCHANGED allVars
  BY <1>5 DEF allVars
<1> QED
  BY <1>1, <1>2, <1>3, <1>4, <1>5 DEF CaptureNext

\* The composition implements Job: whatever the first benchmark and the copies of
\* the first poll do (spin.c:53-80, main.c:87-95), the threads go through the
\* steps of Job.
THEOREM CaptureIsJob == CaptureSpec => Spec
<1>1. CaptureInit => Init
  BY DEF CaptureInit
<1> QED
  BY <1>1, JobStep, PTL DEF CaptureSpec, Spec, allVars

-----------------------------------------------------------------------------
(* The inductive invariant, over that of Job.                              *)

\* The pointers of polls[0] are set for good once its benchmark is created.
Wired ==
    /\ mpc \in {"createPoll", "resetPoll"} => poll0 # "wired"
    /\ \/ mpc \notin {"createPoll", "resetPoll", "createBench"}
       \/ mpc = "createBench" /\ mi > 0
       => poll0 = "wired"

\* Key before output, at both ends.
Keys ==
    /\ apc # "key" => bkey
    /\ single_output # Nothing => bkey
    /\ benchmark_output # Nothing => bkey /\ poll0 = "wired"
    /\ copied = 2 /\ benchmark_output # Nothing => key

\* Copies are made between the check of rc and the next sample.
CopiedInNap == copied > 0 => ppc[0] = "nap"

InSample == ppc[0] \in {"ioctl", "tag", "tagS", "tagV", "tagged", "rc", "nap"}

\* While nothing disturbs a benchmark that is up to date, it makes one output.
Steady ==
    InSample /\ settled /\ ~disturbed =>
        /\ apc \notin {"key", "start", "notice"}
        /\ local_ab_selector = ab_selector
        /\ single_output = window
        /\ encoded = {window}
        /\ copied > 0 => benchmark_output = window

\* A benchmark that lags within a pass has not lagged for longer than the pass.
Overdue ==
    /\ overdue <= Repeats
    /\ apc = "encode" /\ local_ab_selector # ab_selector => overdue <= repeat

KInv == CaptureTypeOK /\ Wired /\ Keys /\ CopiedInNap /\ Steady /\ Overdue

-----------------------------------------------------------------------------
\* What a poll past its gate relies on: main has set the pointers.
LEMMA SamplesAreWired ==
    ASSUME IInv, Wired, ppc[0] \in PollActive
    PROVE  poll0 = "wired"
  BY Zeroes DEF IInv, Gates, PollReleased, Wired, BeforeRelease

LEMMA WiredStep ==
    ASSUME IInv, Wired, [Next]_vars
    PROVE  Wired' /\ (poll0 = "wired" => poll0' = "wired")
<1> USE CaptureAssumption, JobAssumption DEF Wired, IInv, TypeOK, Goto, InLoop,
      LoopBound, Polls, Benches
<1>1. CASE Main
  <2>1. CASE EndLoop
    BY <2>1 DEF EndLoop, AfterLoop
  <2>2. CASE CreatePoll
    BY <2>2 DEF CreatePoll, CreatePollHolding
  <2>3. CASE ResetPoll0
    BY <2>3 DEF ResetPoll0
  <2>4. CASE CreateBench
    BY <2>4 DEF CreateBench, CreateBenchHolding
  <2>5. CASE RunSlot
    BY <2>5 DEF RunSlot, AfterSlot, Slots
  <2>6. CASE ReleasePoll \/ ReleaseBench
    BY <2>6 DEF ReleasePoll, ReleaseBench
  <2>7. CASE Select
    BY <2>7 DEF Select, SelectNext
  <2>8. CASE Invalidate \/ Sleep \/ RingTheBell
    BY <2>8 DEF Invalidate, Sleep, RingTheBell, Ring
  <2>9. CASE JoinBench \/ JoinPoll
    BY <2>9 DEF JoinBench, JoinPoll, JoinBenchWhen, JoinPollWhen
  <2>10. CASE Dump
    BY <2>10 DEF Dump
  <2>11. CASE DestroyMutexes \/ FreeBatches \/ Cleanup
    BY <2>11 DEF DestroyMutexes, FreeBatches, Cleanup
  <2> QED
    BY <1>1, <2>1, <2>2, <2>3, <2>4, <2>5, <2>6, <2>7, <2>8, <2>9, <2>10, <2>11
       DEF Main
<1>2. ASSUME NEW p \in Polls, Poll(p)
      PROVE  UNCHANGED mainVars
  BY <1>2 DEF Poll, PollMisplaced, PassPollGate, Check, CheckWhile, IssueIoctl,
              IoctlReturns, ReturnSetting, ReadSelector, ReadValid, StoreTag,
              CheckRc, Wake, mainVars
<1>3. ASSUME NEW b \in Benches, Bench(b)
      PROVE  UNCHANGED mainVars
  BY <1>3 DEF Bench, BenchMisplaced, PassBenchGate, Work, FinishBench, vars,
              mainVars
<1>4. CASE UNCHANGED mainVars
  BY <1>4 DEF mainVars
<1> QED
  BY <1>1, <1>2, <1>3, <1>4 DEF Next, Ended, vars, mainVars

-----------------------------------------------------------------------------
(* The rest of the invariant.  Of Job it depends on ab_selector, on where   *)
(* polls[0] is, and on poll0 once that is wired.                           *)

Data == CaptureTypeOK /\ Keys /\ CopiedInNap /\ Steady /\ Overdue

LEMMA Bystander ==
    ASSUME Data, UNCHANGED captureVars, ab_selector' = ab_selector,
           poll0 = "wired" => poll0' = "wired",
           InSample' => InSample,
           ppc[0] = "nap" => ppc'[0] = "nap"
    PROVE  Data'
<1> USE DEF Data, captureVars, abxorVars, copyVars, captureHistory
<1>1. CaptureTypeOK'
  BY DEF CaptureTypeOK
<1>2. Keys'
  BY DEF Keys
<1>3. CopiedInNap'
  BY DEF CopiedInNap
<1>4. Steady'
  BY DEF Steady
<1>5. Overdue'
  BY DEF Overdue
<1> QED
  BY <1>1, <1>2, <1>3, <1>4, <1>5

\* main creates polls[0] before that has done anything.
LEMMA MainKeepsPoll0 ==
    ASSUME IInv, Main
    PROVE  (InSample' => InSample) /\ (ppc[0] = "nap" => ppc'[0] = "nap")
<1>1. CASE CreatePoll
  <2>1. ppc[0] \notin PollActive
    BY <1>1, Zeroes DEF IInv, Gates, PollReleased, BeforeRelease, CreatePoll,
                        CreatePollHolding, InLoop
  <2>2. ppc'[0] = ppc[0] \/ ppc'[0] = "gate"
    BY <1>1, Zeroes DEF IInv, TypeOK, CreatePoll, CreatePollHolding
  <2> QED
    BY <2>1, <2>2 DEF InSample, PollActive, Sampling
<1>2. CASE ~CreatePoll
  <2>1. UNCHANGED ppc
    BY <1>2 DEF Main, EndLoop, ResetPoll0, CreateBench, CreateBenchHolding,
                RunSlot, ReleasePoll, ReleaseBench, Select, SelectNext,
                Invalidate, Sleep, RingTheBell, Ring, JoinBench, JoinBenchWhen,
                JoinPoll, JoinPollWhen, Dump, DestroyMutexes, FreeBatches,
                Cleanup, pollVars
  <2> QED
    BY <2>1 DEF InSample
<1> QED
  BY <1>1, <1>2

LEMMA MainStep ==
    ASSUME IInv, Data, CaptureMain, poll0 = "wired" => poll0' = "wired"
    PROVE  Data'
<1> USE DEF Data, CaptureMain, abxorVars, copyVars
<1>1. CaptureTypeOK'
  BY CaptureAssumption DEF CaptureTypeOK
<1>2. Keys'
  BY DEF Keys
<1>3. CopiedInNap'
  BY MainKeepsPoll0 DEF CopiedInNap, CaptureTypeOK
<1>4. Steady'
  BY MainKeepsPoll0 DEF Steady
<1>5. Overdue'
  BY CaptureAssumption DEF Overdue, CaptureTypeOK
<1> QED
  BY <1>1, <1>2, <1>3, <1>4, <1>5

-----------------------------------------------------------------------------
(* The benchmark.                                                          *)

LEMMA BenchStep ==
    ASSUME TypeOK, Data, Abxor0Pass
    PROVE  Data'
<1> USE DEF Data, Goes, vars, mainVars, flagVars, pollVars, copyVars
<1>1. CASE TakeKey
  BY <1>1, CaptureAssumption
     DEF TakeKey, CaptureTypeOK, Keys, CopiedInNap, Steady, Overdue, InSample
<1>2. CASE Start
  <2>1. CaptureTypeOK'
    <3>1. encoded' \subseteq Windows
      BY <1>2 DEF Start, Meets, CaptureTypeOK
    <3>2. local_ab_selector' \in BOOLEAN
      BY <1>2 DEF Start, TypeOK
    <3> QED
      BY <1>2, <3>1, <3>2 DEF Start, CaptureTypeOK
  <2>2. (Keys /\ CopiedInNap)'
    BY <1>2 DEF Start, Keys, CopiedInNap
  <2>3. Steady'
    BY <1>2 DEF Start, Steady, InSample
  <2>4. Overdue'
    BY <1>2 DEF Start, Overdue
  <2> QED
    BY <2>1, <2>2, <2>3, <2>4
<1>3. CASE Test \/ Compare
  <2> USE <1>3 DEF Test, Compare, CompareAs
  <2>1. CaptureTypeOK'
    BY DEF CaptureTypeOK
  <2>2. (Keys /\ CopiedInNap)'
    BY DEF Keys, CopiedInNap
  <2>3. Steady'
    BY DEF Steady, InSample
  <2>4. Overdue'
    BY DEF Overdue
  <2> QED
    BY <2>1, <2>2, <2>3, <2>4
<1>4. CASE Notice
  <2> USE <1>4 DEF Notice, Meets
  <2>1. CaptureTypeOK'
    <3>1. window' \in Windows
      BY DEF CaptureTypeOK, Windows, Nothing
    <3>2. encoded' \subseteq Windows
      BY <3>1 DEF CaptureTypeOK
    <3>3. local_ab_selector' \in BOOLEAN
      BY DEF TypeOK
    <3> QED
      BY <3>1, <3>2, <3>3 DEF CaptureTypeOK
  <2>2. (Keys /\ CopiedInNap)'
    BY DEF Keys, CopiedInNap
  <2>3. Steady'
    BY DEF Steady, InSample
  <2>4. Overdue'
    BY DEF Overdue
  <2> QED
    BY <2>1, <2>2, <2>3, <2>4
<1>5. CASE Encode
  <2> USE <1>5, CaptureAssumption DEF Encode, EncodeTimes
  <2>1. CaptureTypeOK'
    BY DEF CaptureTypeOK, Windows, Nothing
  <2>2. (Keys /\ CopiedInNap)'
    BY DEF Keys, CopiedInNap
  <2>3. Steady'
    BY DEF Steady, InSample
  <2>4. Overdue'
    BY DEF Overdue, CaptureTypeOK
  <2> QED
    BY <2>1, <2>2, <2>3, <2>4
<1> QED
  BY <1>1, <1>2, <1>3, <1>4, <1>5 DEF Abxor0Pass

-----------------------------------------------------------------------------
(* polls[0].                                                               *)

LEMMA IssueStep ==
    ASSUME IInv, Data, IssueSample
    PROVE  Data'
<1> USE Zeroes DEF Data, IInv, IssueSample, IssueIoctl, PollGoto, abxorVars,
      copyVars, mainVars, flagVars
<1>1. ppc[0] = "issue" /\ ppc'[0] = "ioctl" /\ copied = 0
  BY DEF TypeOK, CopiedInNap, CaptureTypeOK
<1>2. CaptureTypeOK'
  BY DEF CaptureTypeOK, UpToDate
<1>3. (Keys /\ CopiedInNap)'
  BY <1>1 DEF Keys, CopiedInNap
<1>4. Steady'
  <2> SUFFICES ASSUME settled'
               PROVE  /\ apc \notin {"key", "start", "notice"}
                      /\ local_ab_selector = ab_selector
                      /\ single_output = window
                      /\ encoded' = {window}
    BY <1>1 DEF Steady
  <2>1. UpToDate
    OBVIOUS
  <2> QED
    BY <2>1 DEF UpToDate, InWindow
<1>5. Overdue'
  BY DEF Overdue
<1> QED
  BY <1>2, <1>3, <1>4, <1>5

LEMMA FirstCopyStep ==
    ASSUME IInv, Wired, Data, FirstCopy
    PROVE  Data'
<1> USE Zeroes DEF Data, FirstCopy, CheckRc, mainVars, flagVars
<1>1. CASE rc[0]
  BY <1>1, Bystander DEF InSample
<1>2. CASE ~rc[0]
  <2> USE <1>2 DEF Copy, abxorVars, captureHistory
  <2>1. ppc[0] = "rc" /\ ppc'[0] = "nap" /\ poll0 = "wired"
    BY SamplesAreWired DEF IInv, TypeOK, PollActive, Sampling
  <2>2. /\ benchmark_output' = single_output
        /\ key' = key
        /\ copied' = 1
    BY <2>1 DEF CopyOrder
  <2>3. CaptureTypeOK'
    BY <2>2 DEF CaptureTypeOK
  <2>4. (Keys /\ CopiedInNap)'
    BY <2>1, <2>2 DEF Keys, CopiedInNap
  <2>5. Steady'
    BY <2>1, <2>2 DEF Steady, InSample
  <2>6. Overdue'
    BY DEF Overdue
  <2> QED
    BY <2>3, <2>4, <2>5, <2>6
<1> QED
  BY <1>1, <1>2

LEMMA SecondCopyStep ==
    ASSUME Data, SecondCopy
    PROVE  Data'
<1> USE DEF Data, SecondCopy, Copy, abxorVars, captureHistory, vars, mainVars,
      flagVars, pollVars
<1>1. /\ benchmark_output' = benchmark_output
      /\ key' = IF poll0 = "wired" THEN key \/ bkey ELSE key
      /\ copied' = 2
  BY DEF CopyOrder
<1>2. CaptureTypeOK'
  BY <1>1 DEF CaptureTypeOK
<1>3. (Keys /\ CopiedInNap)'
  BY <1>1 DEF Keys, CopiedInNap
<1>4. Steady'
  BY <1>1 DEF Steady, InSample
<1>5. Overdue'
  BY DEF Overdue
<1> QED
  BY <1>2, <1>3, <1>4, <1>5

LEMMA WakeStep ==
    ASSUME IInv, Data, WakeAgain
    PROVE  Data'
<1> USE Zeroes DEF Data, IInv, WakeAgain, Wake, PollGoto, abxorVars,
      captureHistory, mainVars, flagVars
<1>1. ppc'[0] = "check"
  BY DEF TypeOK
<1>2. CaptureTypeOK'
  BY DEF CaptureTypeOK
<1>3. (Keys /\ CopiedInNap)'
  BY <1>1 DEF Keys, CopiedInNap
<1>4. Steady'
  BY <1>1 DEF Steady, InSample
<1>5. Overdue'
  BY DEF Overdue
<1> QED
  BY <1>2, <1>3, <1>4, <1>5

LEMMA Poll0Step ==
    ASSUME IInv, Wired, Data, CapturePoll0
    PROVE  Data'
<1> USE Zeroes DEF mainVars, flagVars
<1>1. ASSUME UNCHANGED captureVars,
             \/ PollMisplaced(0) \/ PassPollGate(0) \/ Check(0) \/ IoctlReturns(0)
             \/ ReadSelector(0) \/ ReadValid(0) \/ StoreTag(0)
      PROVE  Data'
  <2>1. ab_selector' = ab_selector /\ poll0' = poll0
    BY <1>1 DEF PollMisplaced, PassPollGate, Check, CheckWhile, IoctlReturns,
                ReturnSetting, ReadSelector, ReadValid, StoreTag
  <2>2. (InSample' => InSample) /\ (ppc[0] = "nap" => ppc'[0] = "nap")
    BY <1>1 DEF IInv, TypeOK, PollMisplaced, PassPollGate, Check, CheckWhile,
                IoctlReturns, ReturnSetting, ReadSelector, ReadValid, StoreTag,
                PollGoto, pollVars, InSample
  <2> QED
    BY <1>1, <2>1, <2>2, Bystander
<1> QED
  BY <1>1, IssueStep, FirstCopyStep, SecondCopyStep, WakeStep DEF CapturePoll0

-----------------------------------------------------------------------------
LEMMA DataStep ==
    ASSUME IInv, Wired, Data, [CaptureNext]_allVars
    PROVE  Data'
<1>1. poll0 = "wired" => poll0' = "wired"
  BY WiredStep, JobStep
<1>2. CASE Running /\ CaptureMain
  BY <1>1, <1>2, MainStep
<1>3. ASSUME NEW p \in Polls, Running, CapturePoll(p)
      PROVE  Data'
  <2>1. CASE p = 0
    BY <1>3, <2>1, Poll0Step DEF CapturePoll
  <2>2. CASE p # 0
    <3>1. ppc'[0] = ppc[0] /\ ab_selector' = ab_selector
      BY <1>3, <2>2, Zeroes, ZenonT(60)
         DEF IInv, TypeOK, CapturePoll, Poll, PollMisplaced, PassPollGate, Check,
             CheckWhile, IssueIoctl, IoctlReturns, ReturnSetting, ReadSelector,
             ReadValid, StoreTag, CheckRc, Wake, PollGoto, pollVars, flagVars
    <3>2. UNCHANGED captureVars
      BY <1>3, <2>2 DEF CapturePoll
    <3> QED
      BY <1>1, <3>1, <3>2, Bystander DEF InSample
  <2> QED
    BY <2>1, <2>2
<1>4. ASSUME NEW b \in Benches, Running, CaptureBench(b)
      PROVE  Data'
  <2>1. CASE b = 0 /\ Abxor0Pass
    BY <2>1, BenchStep DEF IInv
  <2>2. CASE ~(b = 0 /\ Abxor0Pass)
    <3>1. ppc' = ppc /\ ab_selector' = ab_selector
      BY <1>4, <2>2
         DEF CaptureBench, Abxor0Thread, Bench, BenchMisplaced, PassBenchGate,
             Work, FinishBench, pollVars, flagVars, vars
    <3>2. UNCHANGED captureVars
      BY <1>4, <2>2 DEF CaptureBench, Abxor0Thread
    <3> QED
      BY <1>1, <3>1, <3>2, Bystander DEF InSample
  <2> QED
    BY <2>1, <2>2
<1>5. CASE CaptureEnded \/ UNCHANGED allVars
  BY <1>1, <1>5, Bystander
     DEF CaptureEnded, allVars, InSample, vars, pollVars, flagVars
<1> QED
  BY <1>2, <1>3, <1>4, <1>5 DEF CaptureNext

LEMMA InitKInv == CaptureInit => KInv
<1> SUFFICES ASSUME CaptureInit PROVE KInv
  OBVIOUS
<1> USE DEF CaptureInit
<1>1. CaptureTypeOK
  <2>1. 0 \in 0 .. Repeats - 1 /\ 0 \in 0 .. Repeats + 1
    BY CaptureAssumption
  <2>2. 1 \in Windows /\ {} \subseteq Windows
    BY DEF Windows, Nothing
  <2>3. /\ apc \in {"key", "start", "test", "compare", "notice", "encode"}
        /\ single_output \in Windows \cup {Nothing}
        /\ benchmark_output \in Windows \cup {Nothing}
        /\ copied \in 0 .. 2
    OBVIOUS
  <2>4. /\ local_ab_selector \in BOOLEAN /\ bkey \in BOOLEAN /\ key \in BOOLEAN
        /\ settled \in BOOLEAN /\ disturbed \in BOOLEAN
    OBVIOUS
  <2> QED
    BY <2>1, <2>2, <2>3, <2>4 DEF CaptureTypeOK
<1>2. Wired
  BY DEF Init, Wired
<1>3. Keys /\ CopiedInNap
  BY DEF Keys, CopiedInNap
<1>4. Steady
  BY DEF Steady
<1>5. Overdue
  BY CaptureAssumption DEF Overdue
<1> QED
  BY <1>1, <1>2, <1>3, <1>4, <1>5 DEF KInv

\* The inductive invariant of the composition.
THEOREM CaptureInvariance == CaptureSpec => [](IInv /\ KInv)
<1>1. IInv /\ KInv /\ [CaptureNext]_allVars => KInv'
  BY JobStep, WiredStep, DataStep DEF KInv, Data
<1>2. CaptureSpec => []IInv
  BY CaptureIsJob, Invariance, PTL
<1> QED
  BY <1>1, <1>2, InitKInv, PTL DEF CaptureSpec, allVars

\* Every variable that run_abxor and the copies add keeps its type.
THEOREM CaptureTypeCorrect == CaptureSpec => []CaptureTypeOK
<1>1. KInv => CaptureTypeOK
  BY DEF KInv
<1> QED
  BY <1>1, CaptureInvariance, PTL

\* polls[0] never holds an output without the key it was encoded with (spin.c:55,
\* main.c:87-95), for any number of threads and samples.
THEOREM KeyComesWithOutput == CaptureSpec => []KeyWithOutput
<1>1. KInv => KeyWithOutput
  BY DEF KInv, Keys, KeyWithOutput
<1> QED
  BY <1>1, CaptureInvariance, PTL

\* The energy of a sample that nothing disturbed was used for encoding the output
\* that polls[0] copied for it (msr_utils.c:779), for any number of encodings per
\* pass.
THEOREM UndisturbedSamples == CaptureSpec => []EnergyIsOfOutput
<1>1. KInv => EnergyIsOfOutput
  BY DEF KInv, CopiedInNap, Steady, InSample, EnergyIsOfOutput
<1> QED
  BY <1>1, CaptureInvariance, PTL

\* At most one pass of the old window follows a change of workload (spin.c:60-75),
\* however long a pass is.
THEOREM NoticedAfterOnePass == CaptureSpec => []OverdueByOnePass
<1>1. KInv => OverdueByOnePass
  BY DEF KInv, Overdue, OverdueByOnePass
<1> QED
  BY <1>1, CaptureInvariance, PTL
==============================================================================
