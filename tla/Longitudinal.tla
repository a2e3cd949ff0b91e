----------------------------- MODULE Longitudinal -----------------------------
(***************************************************************************)
(* The longitudinal tasks: the recipes of msr_utils.c, the batches that     *)
(* setup_longitudinal_batches makes of them, and what                      *)
(* run_longitudinal_batches does with these to the fixed-function counters  *)
(* of the sampled cpus, while the cpus go on working.                      *)
(*                                                                         *)
(* The msr-safe driver is external: it executes the ops of a batch one by   *)
(* one, each on the cpu that it names.  An op may fail, or the driver may   *)
(* refuse the whole batch; main ignores what the ioctl returns.             *)
(***************************************************************************)
EXTENDS Integers, Sequences, FiniteSets

CONSTANTS
    Cpus,          \* the cpus of the machine
    CounterCount,  \* FIXED_CTR0, FIXED_CTR1, FIXED_CTR2
    Jobs,          \* what job.longitudinals may be
    MaxWork,       \* bound on what a cpu retires
    MaxFaults      \* bound on ops that fail and batches that are refused

Counters == 1 .. CounterCount
Types == {"FIXED_FUNCTION_COUNTERS", "ALL_ALLOWED"}
Longitudinals == [longitudinal_type : Types,
                  sample_cpus : (SUBSET Cpus) \ {{}}]

ASSUME LongitudinalAssumption ==
    /\ Cpus \subseteq Nat /\ IsFiniteSet(Cpus)
    /\ CounterCount \in Nat
    /\ Jobs \subseteq Seq(Longitudinals)
    /\ MaxWork \in Nat
    /\ MaxFaults \in Nat

VARIABLES
    longitudinals,
    \* setup_longitudinal_batches
    looked_at,    \* pointers of each recipe that the counting loop read
    ops_per_function_per_slot,
    batches,      \* batches[i][slot], of each longitudinal
    \* run_longitudinal_batches
    slot,         \* the slot that main runs, or runs next; 6 after the last
    lng,          \* the longitudinal it is at
    next_op,      \* the op of its batch that the driver is at
    \* the performance counters of each cpu
    PERF_GLOBAL_CTRL, FIXED_CTR_CTRL, FIXED_CTR,
    work,         \* what the cpu has retired
    \* history
    window,       \* what it retired between its START and its STOP
    faults        \* of the driver so far

setupVars == <<looked_at, ops_per_function_per_slot, batches>>
runVars == <<slot, lng, next_op>>
hardware == <<PERF_GLOBAL_CTRL, FIXED_CTR_CTRL, FIXED_CTR, work, window,
              faults>>
vars == <<longitudinals, setupVars, runVars, hardware>>

-----------------------------------------------------------------------------
(* The recipes.  SETUP, START, STOP, READ and TEARDOWN are slots 1 to 5.    *)

SETUP == 1
START == 2
STOP == 3
READ == 4
TEARDOWN == 5
Slots == SETUP .. TEARDOWN

Op(name) == [name |-> name, ctr |-> 0]
OpsOnCounters(name) == [c \in Counters |-> [name |-> name, ctr |-> c]]

ops_without_setup_stop ==
    << OpsOnCounters("zero") \o <<Op("enable_fixed")>>,
       <<Op("start_global")>>, <<Op("stop_global")>>, OpsOnCounters("read"), <<>> >>
fixed_function_counters__ops ==
    << <<Op("stop_global")>> \o OpsOnCounters("zero") \o <<Op("enable_fixed")>>,
       <<Op("start_global")>>,
       <<Op("stop_global")>>,
       OpsOnCounters("read"),
       <<>> >>

\* The reads of all MSRs but the fixed counters are one op here, "rd".
all_allowed__ops ==
    << <<Op("rd")>> \o OpsOnCounters("read"), <<>>, <<>>,
       <<Op("rd")>> \o OpsOnCounters("read"), <<>> >>

longitudinal_recipes ==
    [FIXED_FUNCTION_COUNTERS |-> fixed_function_counters__ops,
     ALL_ALLOWED |-> all_allowed__ops]

\* msr_utils.c:263-286: two of the arrays have no NULL at their end.
NullForgottenInStop(type, s) ==
    ~(type = "FIXED_FUNCTION_COUNTERS" /\ s = STOP)
NullTerminated(type, s) == ~(type = "ALL_ALLOWED" /\ s \in {SETUP, READ})

\* The allowlist that populate_allowlist has loaded into the driver: the MSRs that
\* may be read, each with those of its bits that may be written.
allowlist ==
    [FIXED_CTR |-> {"all"}, FIXED_CTR_CTRL |-> {"fixed"},
     PERF_GLOBAL_CTRL |-> {"fixed"}, others |-> {}]

\* The MSR of an op, and those of its bits that the op may change.
msr == [stop_global |-> "PERF_GLOBAL_CTRL", start_global |-> "PERF_GLOBAL_CTRL",
        enable_fixed |-> "FIXED_CTR_CTRL", zero |-> "FIXED_CTR",
        read |-> "FIXED_CTR", rd |-> "others"]
Changes(o) == IF o.name \in {"read", "rd"} THEN {}
              ELSE IF o.name = "zero" THEN {"all"} ELSE {"fixed"}
Allowed(o) == /\ msr[o.name] \in DOMAIN allowlist
              /\ Changes(o) \subseteq allowlist[msr[o.name]]

\* The pointers of each array, and the position of the arrays in the source.
Pointers(type, s) ==
    [k \in DOMAIN longitudinal_recipes[type][s] |-> "op"]
        \o IF NullTerminated(type, s) THEN <<"NULL">> ELSE <<>>
Position(type, s) == IF type = "FIXED_FUNCTION_COUNTERS" THEN s ELSE TEARDOWN + s

-----------------------------------------------------------------------------
OpNames == {"stop_global", "start_global", "enable_fixed", "zero", "read", "rd"}
Batch == Seq([op : [name : OpNames, ctr : 0 .. CounterCount], cpu : Cpus,
              err : {"unused", "none", "failed"}, msrdata : Nat])

TypeOK ==
    /\ longitudinals \in Jobs
    /\ looked_at \in [Types -> [Slots -> Nat]]
    /\ ops_per_function_per_slot \in [Types -> [Slots -> Nat]]
    /\ DOMAIN batches \subseteq DOMAIN longitudinals
    /\ \A i \in DOMAIN batches : batches[i] \in [Slots -> Batch]
    /\ slot \in 1 .. TEARDOWN + 1
    /\ lng \in 1 .. Len(longitudinals) + 1
    /\ next_op \in Nat \ {0}
    /\ PERF_GLOBAL_CTRL \in [Cpus -> BOOLEAN]
    /\ FIXED_CTR_CTRL \in [Cpus -> BOOLEAN]
    /\ FIXED_CTR \in [Cpus -> [Counters -> Nat]]
    /\ work \in [Cpus -> 0 .. MaxWork]
    /\ window \in [Cpus -> 0 .. MaxWork]
    /\ faults \in 0 .. MaxFaults

Uncounted == [type \in Types |-> [s \in Slots |-> 0]]

\* Whoever used the counters before has left them in any state.
Init ==
    /\ longitudinals \in Jobs
    /\ looked_at = Uncounted
    /\ ops_per_function_per_slot = Uncounted
    /\ batches = <<>>
    /\ slot = SETUP /\ lng = 1 /\ next_op = 1
    /\ PERF_GLOBAL_CTRL \in [Cpus -> BOOLEAN]
    /\ FIXED_CTR_CTRL \in [Cpus -> BOOLEAN]
    /\ FIXED_CTR \in [Cpus -> [Counters -> {0, 1}]]
    /\ work = [cpu \in Cpus |-> 0]
    /\ window = [cpu \in Cpus |-> 0]
    /\ faults = 0

-----------------------------------------------------------------------------
(* setup_longitudinal_batches                                              *)

\* while( *p++ ) goes on to the first NULL, in whatever array that is.  The
\* compiler lays the arrays out in their order or in the reverse one.
\* Layouts are where each array may be; a place is a pointer of an array.
Layouts == {[type \in Types |-> [s \in Slots |-> Position(type, s)]],
            [type \in Types |-> [s \in Slots |-> -Position(type, s)]]}

Behind(at, type, s) ==
    {p \in Types \X Slots \X (1 .. CounterCount + 3) :
        /\ at[p[1]][p[2]] >= at[type][s]
        /\ p[3] <= Len(Pointers(p[1], p[2]))}
Precedes(at, q, p) ==
    \/ at[q[1]][q[2]] < at[p[1]][p[2]]
    \/ q[1] = p[1] /\ q[2] = p[2] /\ q[3] < p[3]
ToFirstNull(at, type, s) ==
    Cardinality({p \in Behind(at, type, s) :
        \A q \in Behind(at, type, s) :
            Precedes(at, q, p) => Pointers(q[1], q[2])[q[3]] # "NULL"})

CountOps ==
    /\ looked_at = Uncounted
    /\ \E at \in Layouts :
        looked_at' = [type \in Types |-> [s \in Slots |-> ToFirstNull(at, type, s)]]
    /\ ops_per_function_per_slot' = [type \in Types |->
            [s \in Slots |-> looked_at'[type][s] - 1]]
    /\ UNCHANGED <<longitudinals, batches, runVars, hardware>>

\* get_next_cpu, called with the cpu after the one it returned last, yields
\* the cpus of a set in ascending order (CpuSet shows this).
Ascending(cpus) ==
    CHOOSE order \in [1 .. Cardinality(cpus) -> cpus] :
        \A j, k \in DOMAIN order : j < k => order[j] < order[k]

\* opAt and cpuAt say which op of the recipe and which of the ncpu cpus go into
\* element k, counted from 0, of the array.
LayOut(l, s, opAt(_, _, _), cpuAt(_, _, _)) ==
    LET recipe == longitudinal_recipes[l.longitudinal_type][s]
        ncpu == Cardinality(l.sample_cpus)
        ops_per_cpu == ops_per_function_per_slot[l.longitudinal_type][s]
    IN  [k \in 1 .. ops_per_cpu * ncpu |->
            [op |-> recipe[1 + opAt(k - 1, ops_per_cpu, ncpu)],
             cpu |-> Ascending(l.sample_cpus)[1 + cpuAt(k - 1, ops_per_cpu, ncpu)],
             err |-> "unused", msrdata |-> 0]]

CpuAfterCpu(l, s) ==
    LayOut(l, s, LAMBDA k, ops, ncpu : k % ops, LAMBDA k, ops, ncpu : k \div ops)
BatchOf(l, s) ==
    LayOut(l, s, LAMBDA k, ops, ncpu : k \div ncpu, LAMBDA k, ops, ncpu : k % ncpu)

MakeBatches ==
    /\ looked_at # Uncounted /\ DOMAIN batches # DOMAIN longitudinals
    /\ batches' = [i \in DOMAIN longitudinals |->
                    [s \in Slots |-> BatchOf(longitudinals[i], s)]]
    /\ UNCHANGED <<longitudinals, looked_at, ops_per_function_per_slot,
                   runVars, hardware>>

-----------------------------------------------------------------------------
(* run_longitudinal_batches, slot after slot                               *)

Ready == looked_at # Uncounted /\ DOMAIN batches = DOMAIN longitudinals

Current == batches[lng][slot][next_op]

\* What the op at hand does to the counters of its cpu; c is the cpu.
Writes(o, c) ==
    /\ PERF_GLOBAL_CTRL' =
        IF o.name \in {"start_global", "stop_global"}
        THEN [PERF_GLOBAL_CTRL EXCEPT ![c] = (o.name = "start_global")]
        ELSE PERF_GLOBAL_CTRL
    /\ FIXED_CTR_CTRL' =
        IF o.name = "enable_fixed" THEN [FIXED_CTR_CTRL EXCEPT ![c] = TRUE]
        ELSE FIXED_CTR_CTRL
    /\ FIXED_CTR' =
        IF o.name = "zero" THEN [FIXED_CTR EXCEPT ![c][o.ctr] = 0] ELSE FIXED_CTR

ReadBy(o, c) == IF o.name = "read" THEN FIXED_CTR[c][o.ctr] ELSE 0

AtAnOp ==
    /\ Ready /\ slot \in Slots /\ lng <= Len(longitudinals)
    /\ next_op <= Len(batches[lng][slot])
AllAllowed == \A k \in DOMAIN batches[lng][slot] : Allowed(batches[lng][slot][k].op)

ExecuteOp ==
    /\ AtAnOp /\ AllAllowed
    /\ Writes(Current.op, Current.cpu)
    /\ batches' = [batches EXCEPT ![lng][slot][next_op] =
            [@ EXCEPT !.err = "none", !.msrdata = ReadBy(Current.op, Current.cpu)]]
    /\ next_op' = next_op + 1
    /\ UNCHANGED <<longitudinals, looked_at, ops_per_function_per_slot, slot,
                   lng, work, window, faults>>

\* The MSR does not exist on this cpu, or must not be accessed.
OpFails ==
    /\ AtAnOp /\ AllAllowed /\ faults < MaxFaults
    /\ batches' = [batches EXCEPT ![lng][slot][next_op].err = "failed"]
    /\ next_op' = next_op + 1
    /\ faults' = faults + 1
    /\ UNCHANGED <<longitudinals, looked_at, ops_per_function_per_slot, slot, lng,
                   PERF_GLOBAL_CTRL, FIXED_CTR_CTRL, FIXED_CTR, work, window>>

\* The allowlist forbids an op of it, or there is another reason.
BatchRefused ==
    /\ AtAnOp /\ next_op = 1
    /\ ~AllAllowed \/ faults < MaxFaults
    /\ next_op' = Len(batches[lng][slot]) + 1
    /\ faults' = IF AllAllowed THEN faults + 1 ELSE faults
    /\ UNCHANGED <<longitudinals, setupVars, slot, lng, PERF_GLOBAL_CTRL,
                   FIXED_CTR_CTRL, FIXED_CTR, work, window>>

\* A slot without ops has no batch and is passed over.
NextLongitudinal ==
    /\ Ready /\ slot \in Slots /\ lng <= Len(longitudinals)
    /\ next_op > Len(batches[lng][slot])
    /\ lng' = lng + 1 /\ next_op' = 1
    /\ UNCHANGED <<longitudinals, setupVars, slot, hardware>>

NextSlotAfter(s) ==
    /\ Ready /\ slot \in Slots /\ lng > Len(longitudinals)
    /\ slot' = s + 1
    /\ lng' = 1 /\ next_op' = 1
    /\ UNCHANGED <<longitudinals, setupVars, hardware>>

NextSlotButOne == NextSlotAfter(slot + 1)
NextSlot == NextSlotAfter(slot)

-----------------------------------------------------------------------------
(* External: a cpu retires an instruction.                                 *)

\* Has an op of this slot and name been executed on the cpu?
Executed(s, name, cpu) ==
    \E i \in DOMAIN batches : \E k \in DOMAIN batches[i][s] :
        LET o == batches[i][s][k]
        IN  o.err = "none" /\ o.op.name = name /\ o.cpu = cpu

InWindow(cpu) ==
    /\ Executed(START, "start_global", cpu)
    /\ ~Executed(STOP, "stop_global", cpu)

Work(cpu) ==
    /\ work[cpu] < MaxWork
    /\ work' = [work EXCEPT ![cpu] = @ + 1]
    /\ FIXED_CTR' = IF PERF_GLOBAL_CTRL[cpu] /\ FIXED_CTR_CTRL[cpu]
                    THEN [FIXED_CTR EXCEPT
                            ![cpu] = [c \in Counters |-> @[c] + 1]]
                    ELSE FIXED_CTR
    /\ window' = IF InWindow(cpu) THEN [window EXCEPT ![cpu] = @ + 1] ELSE window
    /\ UNCHANGED <<longitudinals, setupVars, runVars, PERF_GLOBAL_CTRL,
                   FIXED_CTR_CTRL, faults>>

Finished == slot > TEARDOWN /\ UNCHANGED vars

Next ==
    \/ CountOps \/ MakeBatches
    \/ ExecuteOp \/ OpFails \/ BatchRefused
    \/ NextLongitudinal \/ NextSlot
    \/ \E cpu \in Cpus : Work(cpu)
    \/ Finished

Spec == Init /\ [][Next]_vars

-----------------------------------------------------------------------------
Fixed(i) == longitudinals[i].longitudinal_type = "FIXED_FUNCTION_COUNTERS"

\* None of the ops that prepare, start and stop the cpu's counters failed.
Controlled(cpu) ==
    \A i \in DOMAIN batches : \A s \in SETUP .. STOP :
        \A k \in DOMAIN batches[i][s] :
            batches[i][s][k].cpu = cpu => batches[i][s][k].err = "none"

\* options.c:53: the counters are zeroed before the start and read out after
\* the end of the run.  What a READ batch holds is what its cpu retired from
\* the START on that cpu to the STOP on that cpu, though slots take effect cpu
\* after cpu, others may have left the counters running, several longitudinals
\* may share a cpu, and main ignores failures: those on other cpus do not matter.
\* Without any, every count is there: no batch writes what the allowlist forbids.
CountsTheWindow ==
    \A i \in DOMAIN batches : Fixed(i) =>
        \A k \in DOMAIN batches[i][READ] :
            LET o == batches[i][READ][k]
            IN  /\ o.err = "none" /\ Controlled(o.cpu) => o.msrdata = window[o.cpu]
                /\ slot > READ /\ faults = 0 => o.err = "none" /\ Controlled(o.cpu)

OpsDone(cpu) ==
    Cardinality({k \in 1 .. next_op - 1 : batches[lng][slot][k].cpu = cpu})

\* job.h:15: START and STOP happen more or less simultaneously on all cpus: no
\* cpu is more than one op of its batch ahead of another.
InLockstep ==
    Ready /\ slot \in Slots /\ lng <= Len(longitudinals) =>
        \A c, d \in longitudinals[lng].sample_cpus : OpsDone(c) <= OpsDone(d) + 1

\* msr_utils.c:232: the recipes "must be NULL-terminated".  Two are not, and the
\* loop that counts their ops reads one pointer that is not theirs; it miscounts
\* none only because of what happens to lie behind them.
RecipesCounted ==
    looked_at # Uncounted =>
        \A type \in Types, s \in Slots :
            LET recipe == longitudinal_recipes[type][s]
            IN  /\ ops_per_function_per_slot[type][s] = Len(recipe)
                /\ looked_at[type][s] = Len(Pointers(type, s))
                        + IF NullTerminated(type, s) THEN 0 ELSE 1
=============================================================================
