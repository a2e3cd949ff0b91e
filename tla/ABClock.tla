------------------------------- MODULE ABClock -------------------------------
(***************************************************************************)
(* How long main() lets the job run: the elapsed-time arithmetic of the    *)
(* A|B loop (main.c:186-211).  Every round sleeps for ab_duration and adds *)
(* it to elapsed; the loop ends when elapsed.tv_sec reaches                *)
(* duration.tv_sec.  Job models what a round does to the other threads.    *)
(*                                                                         *)
(* Time is kept as the code keeps it, in seconds and nanoseconds, but with *)
(* NS nanoseconds in a second (10^9 in the code) so that small values of   *)
(* NS show every remainder.                                                *)
(***************************************************************************)
EXTENDS Integers

CONSTANTS
    NS,           \* nanoseconds per second
    ABDurations,  \* the values of --abTime
    Durations,    \* the values of --time
    MaxSlept      \* bound: slept stops counting here

Timespec == [sec : Nat, nsec : 0 .. NS - 1]

ASSUME ABClockAssumption ==
    /\ NS \in Nat /\ NS >= 2
    /\ ABDurations \subseteq Timespec
    /\ Durations \subseteq Timespec
    /\ MaxSlept \in Nat

VARIABLES
    ab_duration, duration,  \* of struct job, fixed once the options are parsed
    elapsed,                \* what main() believes has passed
    shutdown,               \* has main() left the loop?
    slept                   \* history: nanoseconds actually slept

vars == <<ab_duration, duration, elapsed, shutdown, slept>>

TypeOK ==
    /\ ab_duration \in ABDurations
    /\ duration \in Durations
    /\ elapsed \in Timespec
    /\ shutdown \in BOOLEAN
    /\ slept \in 0 .. MaxSlept

InNs(t) == t.sec * NS + t.nsec

Init ==
    /\ ab_duration \in ABDurations
    /\ duration \in Durations
    /\ elapsed = [sec |-> 0, nsec |-> 0]
    /\ shutdown = FALSE
    /\ slept = 0

\* The two assignments to elapsed; the second one reads the tv_nsec that the
\* first one read.  The code carries past NS - 1 and reduces modulo NS - 1.
AddCarrying(t, carries(_), modulus) ==
    LET nsec == ab_duration.nsec + t.nsec
    IN  [sec  |-> ab_duration.sec + t.sec + (IF carries(nsec) THEN 1 ELSE 0),
         nsec |-> nsec % modulus]

AddAlwaysCarrying(t) == AddCarrying(t, LAMBDA n : n >= NS - 1, NS - 1)
AddUnreduced(t) == AddCarrying(t, LAMBDA n : n > NS - 1, 2 * NS)
AddNeverCarrying(t) == AddCarrying(t, LAMBDA n : FALSE, NS - 1)
Add(t) == AddCarrying(t, LAMBDA n : n > NS - 1, NS - 1)

RoundUntil(over(_)) ==
    /\ ~shutdown
    /\ elapsed' = Add(elapsed)
    /\ shutdown' = over(elapsed'.sec)
    /\ slept' = IF slept + InNs(ab_duration) > MaxSlept
                THEN MaxSlept ELSE slept + InNs(ab_duration)
    /\ UNCHANGED <<ab_duration, duration>>

RoundAgain == RoundUntil(LAMBDA sec : sec > duration.sec)
Round == RoundUntil(LAMBDA sec : sec >= duration.sec)

\* main() goes on to halt the job.
Shutdown == shutdown /\ UNCHANGED vars

Next == Round \/ Shutdown

Spec == Init /\ [][Next]_vars

\* nanosleep returns: ab_duration is finite.
FairSpec == Spec /\ WF_vars(Round)

-----------------------------------------------------------------------------
\* A fraction of a second that divides NS - 1 (0 included) makes elapsed hit
\* NS - 1 exactly, which carries nothing and leaves 0.
Divides(n) == n = 0 \/ (NS - 1) % n = 0

NoCarry == ab_duration.sec = 0 /\ Divides(ab_duration.nsec)

\* The loop of main.c:190-211 ends for every --abTime that is at least a second
\* or does not divide 999'999'999 nanoseconds.
Halts == [](~NoCarry => <>shutdown)

\* For the others (999ns, 333333333ns, ...) no number of rounds makes a second,
\* and a job of a second or more never ends, though job.h:84 and options.c:55
\* say that it runs for --time.
NeverASecond == NoCarry => elapsed.sec = 0

\* Whatever was lost by the carry, main() never counts time it did not sleep,
\* up to the nanosecond per second that the modulus is short.
NoTimeInvented ==
    slept < MaxSlept => elapsed.sec * (NS - 1) + elapsed.nsec <= slept

\* The loop compares whole seconds: with an --abTime of n whole seconds the job
\* runs for the least multiple of n, not 0, that covers the whole seconds of
\* --time, and a fraction of a second in --time, which job.h:84 and the help text
\* (options.c:66) allow for, is not waited for.
RunsWholeSeconds ==
    LET n == ab_duration.sec
    IN  shutdown /\ ab_duration.nsec = 0 /\ n > 0 /\ slept < MaxSlept =>
            \E rounds \in 1 .. duration.sec + 1 :
                /\ slept = rounds * n * NS
                /\ rounds * n >= duration.sec
                /\ rounds = 1 \/ (rounds - 1) * n < duration.sec
=============================================================================
