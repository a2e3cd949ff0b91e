------------------------------- MODULE Rollover -------------------------------
(***************************************************************************)
(* manage_energy_rollover (msr_utils.c:634-666).  The energy status MSRs    *)
(* count energy in a field that turns over; once a job has ended, one pass  *)
(* over the ops of all polls makes their readings monotonic.                *)
(*                                                                         *)
(* The hardware that is read is external: a meter that only moves forward,  *)
(* of which a register shows what is above base, and which moves less than  *)
(* one turn of the register from the end of an op to the end of the next.   *)
(* Ops are assumed to be OP_POLL, as job.h:35 has it: with other flags,     *)
(* which str2flags accepts, the driver leaves msrdata2 at 0.                *)
(***************************************************************************)
EXTENDS Integers

CONSTANTS
    PollCount,
    TotalOps,     \* TotalOps[p] is job.polls[p]->total_ops
    EnergyPolls,  \* the polls of PKG, PP0, PP1 or DRAM_ENERGY_STATUS
    Turn,         \* values of the register: rollover_adjustment, 1ULL << 32
    Steps         \* bound: how far a meter moves at a time

Polls == 0 .. PollCount - 1

ASSUME RolloverAssumption ==
    /\ PollCount \in Nat
    /\ TotalOps \in [Polls -> Nat]
    /\ EnergyPolls \subseteq Polls
    /\ Turn \in Nat \ {0}
    /\ Steps \subseteq Nat

VARIABLES
    phase,                  \* "polling", "managing", "done"
    used,                   \* ops of each poll that were executed
    msrdata, msrdata2,      \* of poll_ops: the first and last value read
    poll, b,                \* the indices of the two loops
    cumulative_adjustment,
    meter, base,            \* the hardware behind each poll
    first, last             \* history: the meter when each op read it

loopVars == <<poll, b, cumulative_adjustment>>
hardware == <<used, meter, base, first, last>>
vars == <<phase, msrdata, msrdata2, loopVars, hardware>>

Ops(p) == 0 .. TotalOps[p] - 1
IsReading(r) ==
    /\ DOMAIN r = Polls
    /\ \A p \in Polls : r[p] \in [Ops(p) -> Nat]

TypeOK ==
    /\ phase \in {"polling", "managing", "done"}
    /\ used \in [Polls -> Nat] /\ \A p \in Polls : used[p] <= TotalOps[p]
    /\ IsReading(msrdata) /\ IsReading(msrdata2)
    /\ poll \in 0 .. PollCount
    /\ b \in Nat /\ (b > 0 => b <= TotalOps[poll])
    /\ cumulative_adjustment \in Nat
    /\ meter \in [Polls -> Nat] /\ base \in [Polls -> Nat]
    /\ IsReading(first) /\ IsReading(last)

NoReadings == [p \in Polls |-> [o \in Ops(p) |-> 0]]

\* calloc and setup_polling_batches: msrdata and msrdata2 of an unused op are 0.
Init ==
    /\ phase = "polling"
    /\ used = [p \in Polls |-> 0]
    /\ msrdata = NoReadings /\ msrdata2 = NoReadings
    /\ poll = 0 /\ b = 0
    /\ cumulative_adjustment = 0
    /\ meter \in [Polls -> 0 .. Turn - 1]
    /\ base = [p \in Polls |-> 0]
    /\ first = NoReadings /\ last = NoReadings

-----------------------------------------------------------------------------
(* External: OP_POLL reads the register until its value changes or the      *)
(* attempts are exhausted, and keeps the first and the last value.          *)

BaseOf(p, value) == IF value - base[p] < Turn THEN base[p] ELSE base[p] + Turn

Sample(p) ==
    /\ phase = "polling" /\ used[p] < TotalOps[p]
    /\ \E idle, wait \in Steps :
        LET start == meter[p] + idle
            end == start + wait
        IN  /\ idle + wait < Turn
            /\ meter' = [meter EXCEPT ![p] = end]
            /\ base' = [base EXCEPT ![p] = BaseOf(p, end)]
            /\ msrdata' = [msrdata EXCEPT ![p][used[p]] = start - BaseOf(p, start)]
            /\ msrdata2' = [msrdata2 EXCEPT ![p][used[p]] = end - BaseOf(p, end)]
            /\ first' = [first EXCEPT ![p][used[p]] = start]
            /\ last' = [last EXCEPT ![p][used[p]] = end]
    /\ used' = [used EXCEPT ![p] = @ + 1]
    /\ UNCHANGED <<phase, loopVars>>

\* The polls stop at halt, however many of their ops they have used.
EndOfPolling ==
    /\ phase = "polling"
    /\ phase' = "managing"
    /\ UNCHANGED <<msrdata, msrdata2, loopVars, hardware>>

-----------------------------------------------------------------------------
(* manage_energy_rollover                                                  *)

NextPoll ==
    /\ phase = "managing" /\ poll < PollCount
    /\ b = TotalOps[poll] \/ poll \notin EnergyPolls
    /\ poll' = poll + 1
    /\ b' = 0
    /\ UNCHANGED <<phase, msrdata, msrdata2, cumulative_adjustment, hardware>>

\* The op that the loop is at, with what has accumulated so far.
Visiting == phase = "managing" /\ poll \in EnergyPolls /\ b < TotalOps[poll]
Adjusted == msrdata[poll][b] + cumulative_adjustment
Adjusted2 == msrdata2[poll][b] + cumulative_adjustment

WithinOp == Adjusted2 < Adjusted
BetweenOps == b > 0 /\ Adjusted < msrdata2[poll][b - 1]

AdjustBy(extra, extra2, accumulated) ==
    /\ msrdata' = [msrdata EXCEPT ![poll][b] = Adjusted + extra]
    /\ msrdata2' = [msrdata2 EXCEPT ![poll][b] = Adjusted2 + extra2]
    /\ cumulative_adjustment' = cumulative_adjustment + accumulated
    /\ b' = b + 1
    /\ UNCHANGED <<phase, poll, hardware>>

RolloverForgotten == Visiting /\ WithinOp /\ AdjustBy(0, Turn, 0)
RolloverWithinOp == Visiting /\ WithinOp /\ AdjustBy(0, Turn, Turn)

RolloverBetweenOps ==
    Visiting /\ ~WithinOp /\ BetweenOps /\ AdjustBy(Turn, Turn, Turn)

NoRollover == Visiting /\ ~WithinOp /\ ~BetweenOps /\ AdjustBy(0, 0, 0)

Finish ==
    /\ phase = "managing" /\ poll = PollCount
    /\ phase' = "done"
    /\ UNCHANGED <<msrdata, msrdata2, loopVars, hardware>>

Done == phase = "done" /\ UNCHANGED vars

Next ==
    \/ \E p \in Polls : Sample(p)
    \/ EndOfPolling
    \/ NextPoll \/ RolloverWithinOp \/ RolloverBetweenOps \/ NoRollover
    \/ Finish \/ Done

Spec == Init /\ [][Next]_vars

-----------------------------------------------------------------------------
\* The ops that the pass has dealt with.
Managed(p, o) == o < used[p] /\ (p < poll \/ (p = poll /\ o < b))

\* msr_utils.c:647: the analysis need not look for rollovers.  Between any two
\* readings that a poll took, the numbers tell the energy that was used,
\* whatever the unused ops behind them and the polls before them left in
\* cumulative_adjustment.
DeltasExact ==
    \A p \in EnergyPolls : \A o \in Ops(p) : Managed(p, o) =>
        /\ msrdata[p][o] - msrdata[p][0] = first[p][o] - first[p][0]
        /\ msrdata2[p][o] - msrdata[p][0] = last[p][o] - first[p][0]
=============================================================================
