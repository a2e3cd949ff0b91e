--------------------------------- MODULE Spin ---------------------------------
(***************************************************************************)
(* The loops of run_spin and run_abshift (spin.c) beside a main thread that *)
(* flips ab_selector and rings halt without a lock.  One action per read of *)
(* a volatile: run_abshift reads ab_selector twice in a pass, once for the  *)
(* operand it shifts and once more for the loop it counts.                  *)
(***************************************************************************)
EXTENDS Integers

CONSTANTS
    Width,      \* bits of uint64_t
    Params,     \* values of benchmark_param1 and benchmark_param2
    Shifts,     \* values of benchmark_param3
    MaxFlips,   \* bound on the changes of workload
    MaxLoops    \* bound on the passes of the loop

ASSUME SpinAssumption ==
    /\ Width \in Nat \ {0}
    /\ Params \subseteq 0 .. 2^Width - 1
    /\ Shifts \subseteq Nat
    /\ MaxFlips \in Nat
    /\ MaxLoops \in Nat

A == 0
B == 1
Workload == {A, B}   \* ab_selector is a bool that indexes arrays

VARIABLES
    benchmark_type,   \* "SPIN" or "ABSHIFT"
    halt, ab_selector,
    pc,               \* "test", "body", "count", "returned"
    idx,              \* the operand that this pass shifted
    accumulator,      \* loops counted so far, per workload
    to_be_shifted,    \* the two operands
    shift_amount,
    executed_loops,   \* of the benchmark_config
    benchmark_param,  \* benchmark_param1 and benchmark_param2
    given,            \* history: benchmark_param as the user gave it
    flips,            \* history: changes of ab_selector
    shifted           \* history: passes that shifted each operand

vars == <<benchmark_type, halt, ab_selector, pc, idx, accumulator,
          to_be_shifted, shift_amount, executed_loops, benchmark_param,
          given, flips, shifted>>

Zero == [w \in Workload |-> 0]

Init ==
    /\ benchmark_type \in {"SPIN", "ABSHIFT"}
    /\ halt = FALSE
    /\ ab_selector \in Workload
    /\ pc = "test"
    /\ idx = A
    /\ accumulator = Zero
    /\ benchmark_param \in [Workload -> Params]
    /\ to_be_shifted = benchmark_param
    /\ given = benchmark_param
    /\ shift_amount \in Shifts
    /\ executed_loops = Zero
    /\ flips = 0
    /\ shifted = Zero

Total(f) == f[A] + f[B]
Increment(f, w) == [f EXCEPT ![w] = @ + 1]

-----------------------------------------------------------------------------
(* main                                                                    *)

Flip ==
    /\ ~halt /\ flips < MaxFlips
    /\ ab_selector' = 1 - ab_selector
    /\ flips' = flips + 1
    /\ UNCHANGED <<benchmark_type, halt, pc, idx, accumulator, to_be_shifted,
                   shift_amount, executed_loops, benchmark_param, given, shifted>>

RingTheBell ==
    /\ ~halt
    /\ halt' = TRUE
    /\ UNCHANGED <<benchmark_type, ab_selector, pc, idx, accumulator,
                   to_be_shifted, shift_amount, executed_loops,
                   benchmark_param, given, flips, shifted>>

-----------------------------------------------------------------------------
(* The benchmark thread                                                    *)

Test ==
    /\ pc = "test" /\ ~halt
    /\ Total(accumulator) < MaxLoops
    /\ pc' = IF benchmark_type = "SPIN" THEN "count" ELSE "body"
    /\ UNCHANGED <<benchmark_type, halt, ab_selector, idx, accumulator,
                   to_be_shifted, shift_amount, executed_loops,
                   benchmark_param, given, flips, shifted>>

\* ( v << s ) >> s on Width bits.  C leaves s >= Width undefined; the shift
\* instructions of x86 take it modulo Width.
Bits(s) == s % Width
ShiftUnsized(v, s) == (v * 2^Bits(s)) \div 2^Bits(s)
ShiftBackAndForth(v, s) == ((v * 2^Bits(s)) % 2^Width) \div 2^Bits(s)

ShiftOperand ==
    /\ pc = "body"
    /\ idx' = ab_selector
    /\ to_be_shifted' = [to_be_shifted EXCEPT
                            ![ab_selector] = ShiftBackAndForth(@, shift_amount)]
    /\ shifted' = Increment(shifted, ab_selector)
    /\ pc' = "count"
    /\ UNCHANGED <<benchmark_type, halt, ab_selector, accumulator, shift_amount,
                   executed_loops, benchmark_param, given, flips>>

\* run_spin counts every loop as A; run_abshift reads ab_selector again.
CountAs(workload) ==
    /\ pc = "count"
    /\ accumulator' = Increment(accumulator, workload)
    /\ pc' = "test"
    /\ UNCHANGED <<benchmark_type, halt, ab_selector, idx, to_be_shifted,
                   shift_amount, executed_loops, benchmark_param, given, flips,
                   shifted>>

CountUnselected == CountAs(A)
Count == CountAs(IF benchmark_type = "SPIN" THEN A ELSE ab_selector)

ReturnAdding(loops) ==
    /\ pc = "test" /\ halt
    /\ pc' = "returned"
    /\ executed_loops' = [w \in Workload |-> executed_loops[w] + loops[w]]
    /\ benchmark_param' = IF benchmark_type = "SPIN" THEN benchmark_param
                          ELSE to_be_shifted
    /\ UNCHANGED <<benchmark_type, halt, ab_selector, idx, accumulator,
                   to_be_shifted, shift_amount, given, flips, shifted>>

Return == ReturnAdding(accumulator)

Returned == pc = "returned" /\ UNCHANGED vars

Next ==
    \/ Flip \/ RingTheBell
    \/ Test \/ ShiftOperand \/ Count \/ Return \/ Returned

Spec == Init /\ [][Next]_vars

-----------------------------------------------------------------------------
\* The loops that ABSHIFT reports for a workload are the ones that shifted its
\* operand, give or take one for every time the workload changed between the
\* two reads of ab_selector (spin.c:24 and 25).
Within(n, m, slack) == n <= m + slack /\ m <= n + slack
ReportedLoops ==
    benchmark_type = "ABSHIFT" /\ pc = "returned" =>
        /\ Total(executed_loops) = Total(shifted)
        /\ \A w \in Workload : Within(executed_loops[w], shifted[w], flips)

\* Whatever the interleaving, an operand that was shifted has lost its top
\* benchmark_param3 bits and nothing else, and the other is as it was given:
\* options.c:40 has them shifted "back and forth", which keeps all bits.
OnlyTopBitsLost ==
    benchmark_type = "ABSHIFT" /\ pc = "returned" =>
        \A w \in Workload :
            benchmark_param[w] =
                IF shifted[w] = 0 THEN given[w]
                ELSE given[w] % 2^(Width - Bits(shift_amount))
=============================================================================
