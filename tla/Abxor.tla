--------------------------------- MODULE Abxor --------------------------------
(***************************************************************************)
(* run_abxor of spin.c: threads that share the table R and the global       *)
(* local.  A thread encodes a window of R with the key R[0] over and over,  *)
(* moves to the next window when it sees ab_selector change, and leaves     *)
(* each result in its single_output, which a polling thread copies at any   *)
(* moment (main.c:87-89).                                                  *)
(*                                                                         *)
(* A uint64_t made of entries of R is the set of their indices: ^ is the    *)
(* symmetric difference of sets, and two values that differ as sets differ  *)
(* for nearly every content of R.                                          *)
(***************************************************************************)
EXTENDS Integers

CONSTANTS
    Threads,          \* threads that may run ABXOR
    NR,               \* entries of R
    SizeValues,       \* number of values of size_t, 2^64
    Param1,           \* Param1[t] is the benchmark_param1 of t
    Repeats,          \* encodings per pass of the loop, 1000
    Jobs,             \* builds of the program and the threads they run
    MaxFlips,         \* bound on the changes of workload
    MaxLoops          \* bound on the passes of a thread

ASSUME AbxorAssumption ==
    /\ SizeValues \in Nat /\ NR \in 1 .. SizeValues - 1
    /\ Param1 \in [Threads -> 0 .. SizeValues - 1]
    /\ Repeats \in Nat \ {0}
    /\ Jobs \subseteq [build : {"-O2", "-Og"}, threads : SUBSET Threads]
    /\ MaxFlips \in Nat /\ MaxLoops \in Nat

VARIABLES
    job,                \* how spin.c was compiled, and which threads run ABXOR
    halt, ab_selector,
    local,              \* the global
    pc,
    local_ab_selector,
    Ridx,
    i,                  \* of the loop over the window
    repeat,             \* of the loop over encodings
    register,           \* the thread's copy of local
    accumulator,        \* passes, per workload
    \* of each benchmark_config
    key, single_output, executed_loops,
    \* history
    flips,              \* changes of ab_selector
    moves               \* times each thread took another window

shared == <<job, halt, ab_selector, flips>>
results == <<key, single_output, executed_loops>>
vars == <<shared, local, pc, local_ab_selector, Ridx, i, repeat, register,
          accumulator, results, moves>>

Labels == {"key", "start", "test", "compare", "notice", "zero", "load", "xor",
           "output", "returned"}
Workload == 0 .. 1   \* ab_selector is a bool that indexes accumulator
Loops == [Workload -> Nat]
Value == SUBSET Nat

TypeOK ==
    /\ job \in Jobs
    /\ halt \in BOOLEAN /\ ab_selector \in Workload
    /\ local \in Value
    /\ pc \in [Threads -> Labels]
    /\ local_ab_selector \in [Threads -> Workload]
    /\ Ridx \in [Threads -> 0 .. SizeValues - 1]
    /\ i \in [Threads -> Nat] /\ \A t \in Threads : i[t] <= Param1[t]
    /\ repeat \in [Threads -> 0 .. Repeats - 1]
    /\ register \in [Threads -> Value]
    /\ accumulator \in [Threads -> Loops]
    /\ key \in [Threads -> Value]
    /\ single_output \in [Threads -> Value]
    /\ executed_loops \in [Threads -> Loops]
    /\ flips \in Nat
    /\ moves \in [Threads -> Nat]

None == [w \in Workload |-> 0]

Init ==
    /\ job \in Jobs
    /\ halt = FALSE /\ ab_selector \in Workload
    /\ local = {}
    /\ pc = [t \in Threads |-> "key"]
    /\ local_ab_selector = [t \in Threads |-> 0]
    /\ Ridx = [t \in Threads |-> 1]
    /\ i = [t \in Threads |-> 0]
    /\ repeat = [t \in Threads |-> 0]
    /\ register = [t \in Threads |-> {}]
    /\ accumulator = [t \in Threads |-> None]
    /\ key = [t \in Threads |-> {}]
    /\ single_output = [t \in Threads |-> {}]
    /\ executed_loops = [t \in Threads |-> None]
    /\ flips = 0
    /\ moves = [t \in Threads |-> 0]

-----------------------------------------------------------------------------
(* main                                                                    *)

Flip ==
    /\ ~halt /\ flips < MaxFlips
    /\ ab_selector' = 1 - ab_selector
    /\ flips' = flips + 1
    /\ UNCHANGED <<job, halt, local, pc, local_ab_selector, Ridx, i, repeat,
                   register, accumulator, results, moves>>

RingTheBell ==
    /\ ~halt
    /\ halt' = TRUE
    /\ UNCHANGED <<job, ab_selector, flips, local, pc, local_ab_selector, Ridx, i,
                   repeat, register, accumulator, results, moves>>

-----------------------------------------------------------------------------
(* A benchmark thread                                                      *)

Goto(t, from, to) == pc[t] = from /\ pc' = [pc EXCEPT ![t] = to]

TakeKey(t) ==
    /\ Goto(t, "key", "start")
    /\ key' = [key EXCEPT ![t] = {0}]
    /\ UNCHANGED <<shared, local, local_ab_selector, Ridx, i, repeat, register,
                   accumulator, single_output, executed_loops, moves>>

Start(t) ==
    /\ Goto(t, "start", "test")
    /\ local_ab_selector' = [local_ab_selector EXCEPT ![t] = ab_selector]
    /\ UNCHANGED <<shared, local, Ridx, i, repeat, register, accumulator,
                   results, moves>>

Passes(t) == accumulator[t][0] + accumulator[t][1]

Test(t) ==
    /\ Goto(t, "test", "compare")
    /\ ~halt /\ Passes(t) < MaxLoops
    /\ UNCHANGED <<shared, local, local_ab_selector, Ridx, i, repeat, register,
                   accumulator, results, moves>>

Compare(t) ==
    /\ Goto(t, "compare",
            IF local_ab_selector[t] # ab_selector THEN "notice" ELSE "zero")
    /\ UNCHANGED <<shared, local, local_ab_selector, Ridx, i, repeat, register,
                   accumulator, results, moves>>

\* size_t arithmetic
Plus(m, n) == IF m + n < SizeValues THEN m + n ELSE m + n - SizeValues
Minus(m, n) == IF n <= m THEN m - n ELSE m + SizeValues - n

NextWindowBelow(t, limit) ==
    IF Plus(Ridx[t], Param1[t]) < limit THEN Plus(Ridx[t], Param1[t]) ELSE 1

NextWindowAnywhere(t) == NextWindowBelow(t, NR)
NextWindow(t) == NextWindowBelow(t, Minus(NR, Param1[t]))

\* ab_selector is read a second time: it may be back to what it was.
NoticeAs(t, selector) ==
    /\ Goto(t, "notice", "zero")
    /\ local_ab_selector' = [local_ab_selector EXCEPT ![t] = selector]
    /\ Ridx' = [Ridx EXCEPT ![t] = NextWindow(t)]
    /\ moves' = [moves EXCEPT ![t] = @ + 1]
    /\ UNCHANGED <<shared, local, i, repeat, register, accumulator, results>>

NoticeForgetfully(t) == NoticeAs(t, local_ab_selector[t])
Notice(t) == NoticeAs(t, ab_selector)

SetLocal(t, value) ==
    /\ register' = [register EXCEPT ![t] = value]
    /\ local' = value

\* Where a ^= begins: "-O2" keeps local in a register and only stores it, "-Og"
\* loads and stores it for every ^=.
Xor == IF job.build = "-O2" THEN "xor" ELSE "load"

ZeroTo(t, value) ==
    /\ Goto(t, "zero", Xor)
    /\ SetLocal(t, value)
    /\ i' = [i EXCEPT ![t] = 0]
    /\ UNCHANGED <<shared, local_ab_selector, Ridx, repeat, accumulator,
                   results, moves>>

ZeroNothing(t) == ZeroTo(t, register[t])
Zero(t) == ZeroTo(t, {})

Load(t) ==
    /\ Goto(t, "load", "xor")
    /\ register' = [register EXCEPT ![t] = local]
    /\ UNCHANGED <<shared, local, local_ab_selector, Ridx, i, repeat,
                   accumulator, results, moves>>

SymmetricDifference(S, T) == (S \ T) \cup (T \ S)

\* The entry that comes next: the window, then the key.
Entry(t) == IF i[t] < Param1[t] THEN Ridx[t] + i[t] ELSE 0

XorEntry(t) ==
    /\ Goto(t, "xor", IF i[t] < Param1[t] THEN Xor ELSE "output")
    /\ SetLocal(t, SymmetricDifference(register[t], {Entry(t)}))
    /\ i' = [i EXCEPT ![t] = IF @ < Param1[t] THEN @ + 1 ELSE @]
    /\ UNCHANGED <<shared, local_ab_selector, Ridx, repeat, accumulator,
                   results, moves>>

OutputThen(t, first) ==
    /\ single_output' = [single_output EXCEPT ![t] = register[t]]
    /\ IF repeat[t] + 1 < Repeats
       THEN /\ Goto(t, "output", "zero")
            /\ repeat' = [repeat EXCEPT ![t] = @ + 1]
            /\ UNCHANGED accumulator
       ELSE /\ Goto(t, "output", "test")
            /\ repeat' = [repeat EXCEPT ![t] = first]
            /\ accumulator' = [accumulator EXCEPT
                                    ![t][local_ab_selector[t]] = @ + 1]
    /\ UNCHANGED <<shared, local, local_ab_selector, Ridx, i, register, key,
                   executed_loops, moves>>

OutputNoReset(t) == OutputThen(t, repeat[t] + 1)
Output(t) == OutputThen(t, 0)

Return(t) ==
    /\ Goto(t, "test", "returned")
    /\ halt
    /\ executed_loops' = [executed_loops EXCEPT ![t] = accumulator[t]]
    /\ UNCHANGED <<shared, local, local_ab_selector, Ridx, i, repeat, register,
                   accumulator, key, single_output, moves>>

Thread(t) ==
    \/ TakeKey(t) \/ Start(t) \/ Test(t) \/ Compare(t) \/ Notice(t) \/ Zero(t)
    \/ Load(t) \/ XorEntry(t) \/ Output(t) \/ Return(t)

AllReturned == (\A t \in job.threads : pc[t] = "returned") /\ UNCHANGED vars

Next == Flip \/ RingTheBell \/ (\E t \in job.threads : Thread(t)) \/ AllReturned

Spec == Init /\ [][Next]_vars

-----------------------------------------------------------------------------
Window(t, r) == r .. r + Param1[t] - 1

Whole(t) ==
    Param1[t] < NR =>
        \/ single_output[t] = {} /\ Passes(t) = 0 /\ repeat[t] = 0
        \/ \E r \in 1 .. NR : single_output[t] = Window(t, r) \cup {0}

\* A poll may copy single_output at any moment (main.c:88).  What it copies is
\* the start value, and later the encoding of one whole window of the table: never
\* one under construction nor, in the build that keeps local in a register or with a
\* single thread, one mixed up with another thread's.
Single == \A t, u \in job.threads : t = u
OutputIsWhole == job.build = "-O2" \/ Single => \A t \in Threads : Whole(t)

\* job.h:40: all benchmark threads move "their" encrypted value into their own
\* single_output.
OutputIsOwn == \A t \in Threads : Whole(t)

\* spin.c:63: as long as a window fits the table at all, no thread leaves it,
\* and none takes the key for data.
WindowInBounds ==
    \A t \in Threads :
        Param1[t] < NR => Ridx[t] >= 1 /\ Ridx[t] + Param1[t] <= NR

\* A window is left for the next one only because the workload changed, though
\* ab_selector is read twice, and compared with a copy that may be stale.
MovesFollowFlips == \A t \in Threads : moves[t] <= flips
=============================================================================
