--------------------------------- MODULE Dump ---------------------------------
(***************************************************************************)
(* dump_batches (msr_utils.c:737-915) on what the polls read, made          *)
(* monotonic by the pass of Rollover: the vote on the key, from the outputs *)
(* captured by polls[0], and the files with a row per sample of each poll.  *)
(*                                                                         *)
(* The vote is a double.  It is counted here in parts of a vote, so many    *)
(* that it can be divided by any weight; a bit that got a vote divided by 0  *)
(* (an infinity, or no number) is spoilt.                                  *)
(*                                                                         *)
(* The vote takes the readings of polls[0] for energy, whatever its msr is  *)
(* (msr_utils.c:747 asks only for a key): polls[0] is assumed to be one of  *)
(* EnergyPolls.                                                            *)
(***************************************************************************)
EXTENDS Rollover, FiniteSets, Functions

CONSTANTS
    OutputBits,   \* of an output: 64
    CountedBits,  \* of the argument of __builtin_popcount, an unsigned: 32
    Parts,        \* of a vote
    Encodings,    \* the outputs, as the sets of their 1 bits
    Lines,        \* votes between two lines of the file: 10'000
    Celsius       \* bits 22:16 of the status MSRs: degrees below the maximum

Bits == 0 .. OutputBits - 1

ASSUME DumpAssumption ==
    /\ PollCount > 0 /\ 0 \in EnergyPolls
    /\ OutputBits \in Nat /\ CountedBits \in 1 .. OutputBits
    /\ Parts \in Nat \ {0}
    /\ \A weight \in 1 .. CountedBits : \E share \in 1 .. Parts : Parts = weight * share
    /\ Encodings \subseteq SUBSET Bits
    /\ Lines \in Nat \ {0}
    /\ Celsius \subseteq 0 .. 127

VARIABLES
    dpc,          \* where dump_batches is
    i, o,         \* the indices of its loops over polls and their ops
    v, spoilt,    \* the cumulative vote
    shown,        \* the last line of poll_ABXOR_simple.out: the vote, up to an op
    delta,        \* sum of the rows of the DELTA_MSRDATA file of the poll
    warming,      \* sum of the rows of its DELTA_THERM file
    therm,        \* THERM_STATUS of the op before
    \* history
    counted,      \* the ops that voted for a lower bit
    therm0        \* THERM_STATUS of the first op

voteVars == <<v, spoilt, shown, counted>>
rowVars == <<delta, warming, therm, therm0>>
dumpVars == <<dpc, i, o, voteVars, rowVars>>

NoVotes == [j \in Bits |-> 0]
None == [op |-> -1, vote |-> NoVotes]

DumpInit ==
    /\ Init
    /\ dpc = "wait" /\ i = 0 /\ o = 0
    /\ v = NoVotes /\ spoilt = {} /\ shown = None /\ counted = {}
    /\ delta = 0 /\ warming = 0 /\ therm = 0 /\ therm0 = 0

-----------------------------------------------------------------------------
(* The vote.  The output, key and tag of an op are what Capture and Job say. *)

Begin ==
    /\ phase = "done" /\ dpc = "wait"
    /\ dpc' = "vote"
    /\ UNCHANGED <<vars, i, o, voteVars, rowVars>>

\* err is UNUSED_OP from the first op that was not executed on.
Used(p, op) == op < TotalOps[p] /\ op < used[p]

\* A sample whose tag says that it spans A|B boundaries.
SkipInvalid ==
    /\ dpc = "vote" /\ Used(0, o)
    /\ o' = o + 1
    /\ UNCHANGED <<vars, dpc, i, voteVars, rowVars>>

Counted(enc) == {j \in enc : j < CountedBits}
Weight(enc) == Cardinality(Counted(enc))
WeightOfAll(enc) == Cardinality(enc)

fJ(p, op) == msrdata2[p][op] - msrdata[p][op]

VoteWeighing(weight(_)) ==
    /\ dpc = "vote" /\ Used(0, o)
    /\ \E enc \in Encodings :
        /\ IF weight(enc) = 0
           THEN /\ spoilt' = spoilt \cup enc
                /\ v' = v
           ELSE /\ v' = [j \in Bits |->
                          IF j \in enc THEN v[j] + fJ(0, o) * (Parts \div weight(enc))
                          ELSE v[j]]
                /\ spoilt' = spoilt
        /\ counted' = IF Counted(enc) # {} THEN counted \cup {o} ELSE counted
    /\ shown' = IF o % Lines = 0 THEN [op |-> o, vote |-> v'] ELSE shown
    /\ o' = o + 1
    /\ UNCHANGED <<vars, dpc, i, rowVars>>

VoteByAll == VoteWeighing(WeightOfAll)
Vote == VoteWeighing(Weight)

EndVote ==
    /\ dpc = "vote" /\ ~Used(0, o)
    /\ dpc' = "voted"
    /\ UNCHANGED <<vars, i, o, voteVars, rowVars>>

\* The file is closed and the votes are forgotten.
CloseVote ==
    /\ dpc = "voted"
    /\ dpc' = "poll" /\ o' = 0
    /\ v' = NoVotes /\ spoilt' = {} /\ shown' = None /\ counted' = {}
    /\ UNCHANGED <<vars, i, rowVars>>

-----------------------------------------------------------------------------
(* The files of each poll.                                                  *)

get_temperature(reading) == reading \div 2   \* bits 22:17

\* assert( total_ops > 2 ), then the rows, from the second op on.
OpenRows ==
    /\ dpc = "poll" /\ i < PollCount
    /\ IF TotalOps[i] > 2
       THEN \E reading \in Celsius :
            /\ dpc' = "rows" /\ o' = 1
            /\ therm' = reading /\ therm0' = reading
       ELSE dpc' = "aborted" /\ UNCHANGED <<o, therm, therm0>>
    /\ delta' = 0 /\ warming' = 0
    /\ UNCHANGED <<vars, i, voteVars>>

RowAfter(back) ==
    /\ dpc = "rows" /\ o < TotalOps[i]
    /\ IF Used(i, o)
       THEN \E reading \in Celsius :
            /\ delta' = delta + msrdata[i][o] - msrdata[i][o - back]
            /\ warming' = warming + get_temperature(reading) - get_temperature(therm)
            /\ therm' = reading
       ELSE UNCHANGED <<delta, warming, therm>>
    /\ o' = o + 1
    /\ UNCHANGED <<vars, dpc, i, therm0, voteVars>>

RowAfterFirst == RowAfter(o)
Row == RowAfter(1)

CloseRows ==
    /\ dpc = "rows" /\ o = TotalOps[i]
    /\ dpc' = "poll" /\ i' = i + 1
    /\ UNCHANGED <<vars, o, voteVars, rowVars>>

Over ==
    /\ dpc = "aborted" \/ (dpc = "poll" /\ i = PollCount)
    /\ UNCHANGED <<vars, dumpVars>>

DumpNext ==
    \/ Next /\ phase # "done" /\ UNCHANGED dumpVars
    \/ Begin \/ SkipInvalid \/ Vote \/ EndVote \/ CloseVote
    \/ OpenRows \/ Row \/ CloseRows \/ Over

DumpSpec == DumpInit /\ [][DumpNext]_<<vars, dumpVars>>

-----------------------------------------------------------------------------
\* What the meter says that was used during the samples that voted.
EnergyUpTo(n) ==
    SumFunction([op \in {op \in counted : op <= n} |-> last[0][op] - first[0][op]])

LowerVotes(votes) == SumFunctionOnSet(votes, 0 .. CountedBits - 1)

\* msr_utils.c:778-783: the energy of a sample is divided by the 1 bits of the
\* output it was used for.  That is so of the lower 32 bits alone, which are all
\* that __builtin_popcount counts: their votes, and those on the last line of the
\* file, add up to what the meter saw during the samples whose output had any, over
\* turns of the register and whatever other polls left behind.  The upper bits get
\* as much as a lower bit on top, and alone they are divided by 0.
EnergyShared ==
    dpc \in {"vote", "voted"} =>
        /\ LowerVotes(v) = Parts * EnergyUpTo(TotalOps[0])
        /\ LowerVotes(shown.vote) = Parts * EnergyUpTo(shown.op)
        /\ \A j \in spoilt : j >= CountedBits

\* msr_utils.c:899: the rows start with the second op, to make the deltas work.
\* From the first sample on, those of DELTA_MSRDATA add up to what the meter saw
\* and those of DELTA_THERM to half of the change in temperature (to a degree),
\* because get_temperature drops bit 16.
RowsAddUp ==
    dpc = "rows" /\ o > 1 /\ used[i] > 0 =>
        LET n == IF used[i] < o THEN used[i] - 1 ELSE o - 1
        IN  /\ i \in EnergyPolls => delta = first[i][n] - first[i][0]
            /\ 2 * warming - (therm - therm0) \in -1 .. 1
=============================================================================
