---------------------------- MODULE ABClockProofs ----------------------------
(***************************************************************************)
(* Proofs about ABClock, for any number of nanoseconds in a second and any *)
(* durations.                                                              *)
(***************************************************************************)
EXTENDS ABClock, TLAPS

-----------------------------------------------------------------------------
(* Arithmetic.                                                             *)

\* What % does to a sum of two values below the modulus (and one).
LEMMA ModOnce ==
    ASSUME NEW m \in Nat \ {0}, NEW a \in Nat, a < 2 * m
    PROVE  a % m = IF a < m THEN a ELSE a - m
<1>1. CASE a < m
  BY <1>1
<1>2. CASE a >= m
  BY <1>2
<1> QED
  BY <1>1, <1>2

LEMMA Distribute ==
    ASSUME NEW a \in Nat, NEW b \in Nat, NEW c \in Nat, NEW m \in Nat
    PROVE  (a + b + c) * m = a * m + b * m + c * m
  OBVIOUS

LEMMA TimesMonotonic ==
    ASSUME NEW a \in Nat, NEW m \in Nat
    PROVE  a * m <= a * (m + 1)
  OBVIOUS

\* Between two multiples of n there is room for n.
LEMMA NextMultiple ==
    ASSUME NEW n \in Nat, NEW j \in Nat, NEW k \in Nat, j * n < k * n
    PROVE  (j + 1) * n = j * n + n /\ (j + 1) * n <= k * n
<1>1. j + 1 <= k
  OBVIOUS
<1> QED
  BY <1>1

LEMMA DividesWitness ==
    ASSUME NEW n \in Nat \ {0}, NEW m \in Nat, m % n = 0
    PROVE  \E k \in Nat : m = k * n
<1>1. m \div n \in Nat /\ m = (m \div n) * n
  OBVIOUS
<1> QED
  BY <1>1

-----------------------------------------------------------------------------
(* The inductive invariant.                                                *)

\* elapsed is short of NS - 1 nanoseconds, and a multiple of a fraction that
\* carries nothing.
Reduced == elapsed.nsec < NS - 1
Multiple ==
    NoCarry =>
        /\ elapsed.sec = 0
        /\ \E j \in Nat : elapsed.nsec = j * ab_duration.nsec

IInv == TypeOK /\ Reduced /\ Multiple /\ NoTimeInvented

\* The facts about the operands of a round that every step below uses.
LEMMA Operands ==
    ASSUME TypeOK, Reduced
    PROVE  /\ ab_duration.sec \in Nat /\ ab_duration.nsec \in 0 .. NS - 1
           /\ duration.sec \in Nat
           /\ elapsed.sec \in Nat /\ elapsed.nsec \in 0 .. NS - 2
           /\ NS \in Nat /\ NS - 1 \in Nat \ {0}
           /\ slept \in 0 .. MaxSlept
           /\ InNs(ab_duration) \in Nat
  BY ABClockAssumption DEF TypeOK, Reduced, Timespec, InNs

\* One addition: it carries at most one second, and what it carries it takes
\* from the nanoseconds.
LEMMA AddOnce ==
    ASSUME TypeOK, Reduced
    PROVE  \E c \in {0, 1} :
              /\ Add(elapsed).sec = ab_duration.sec + elapsed.sec + c
              /\ Add(elapsed).nsec \in 0 .. NS - 2
              /\ Add(elapsed).nsec + c * (NS - 1)
                    <= ab_duration.nsec + elapsed.nsec
              /\ c = 1 <=> ab_duration.nsec + elapsed.nsec > NS - 1
              /\ ab_duration.nsec + elapsed.nsec < NS - 1 =>
                    Add(elapsed).nsec = ab_duration.nsec + elapsed.nsec
              /\ ab_duration.nsec + elapsed.nsec = NS - 1 => Add(elapsed).nsec = 0
<1> DEFINE n == ab_duration.nsec + elapsed.nsec
           c == IF n > NS - 1 THEN 1 ELSE 0
<1>1. n \in Nat /\ n < 2 * (NS - 1)
  BY Operands
<1>2. n % (NS - 1) = IF n < NS - 1 THEN n ELSE n - (NS - 1)
  BY <1>1, Operands, ModOnce
<1>3. /\ Add(elapsed).sec = ab_duration.sec + elapsed.sec + c
      /\ Add(elapsed).nsec = n % (NS - 1)
  BY DEF Add, AddCarrying
<1>4. c \in {0, 1} /\ (c = 1 <=> n > NS - 1)
  OBVIOUS
<1>5. Add(elapsed).nsec \in 0 .. NS - 2
  BY <1>1, <1>2, <1>3, Operands
<1>6. Add(elapsed).nsec + c * (NS - 1) <= n
  BY <1>1, <1>2, <1>3, Operands
<1>7. n < NS - 1 => Add(elapsed).nsec = n
  BY <1>2, <1>3
<1>8. n = NS - 1 => Add(elapsed).nsec = 0
  BY <1>1, <1>2, <1>3, Operands
<1> HIDE DEF c
<1> QED
  BY <1>3, <1>4, <1>5, <1>6, <1>7, <1>8

LEMMA RoundPreserves == ASSUME IInv, Round PROVE IInv'
<1>0. /\ TypeOK /\ Reduced /\ Multiple /\ NoTimeInvented
      /\ ab_duration.sec \in Nat /\ ab_duration.nsec \in Nat
      /\ elapsed.sec \in Nat /\ elapsed.nsec \in 0 .. NS - 2
      /\ NS \in Nat /\ NS - 1 \in Nat \ {0}
      /\ slept \in 0 .. MaxSlept /\ InNs(ab_duration) \in Nat
  BY Operands DEF IInv
<1>1. PICK c \in {0, 1} :
        /\ elapsed'.sec = ab_duration.sec + elapsed.sec + c
        /\ elapsed'.nsec \in 0 .. NS - 2
        /\ elapsed'.nsec + c * (NS - 1) <= ab_duration.nsec + elapsed.nsec
        /\ c = 1 <=> ab_duration.nsec + elapsed.nsec > NS - 1
        /\ ab_duration.nsec + elapsed.nsec < NS - 1 =>
              elapsed'.nsec = ab_duration.nsec + elapsed.nsec
        /\ ab_duration.nsec + elapsed.nsec = NS - 1 => elapsed'.nsec = 0
  BY <1>0, AddOnce DEF Round, RoundUntil
<1>2. /\ ab_duration' = ab_duration /\ duration' = duration
      /\ shutdown' \in BOOLEAN
      /\ slept' = IF slept + InNs(ab_duration) > MaxSlept
                  THEN MaxSlept ELSE slept + InNs(ab_duration)
  BY DEF Round, RoundUntil
<1>3. Reduced'
  BY <1>0, <1>1 DEF Reduced
<1>4. TypeOK'
  <2>1. elapsed' \in Timespec
    <3>1. \E sec, nsec : elapsed' = [sec |-> sec, nsec |-> nsec]
      BY DEF Round, RoundUntil, Add, AddCarrying
    <3> QED
      BY <1>0, <1>1, <3>1 DEF Timespec
  <2>2. slept' \in 0 .. MaxSlept
    BY <1>0, <1>2, ABClockAssumption
  <2> QED
    BY <1>0, <1>2, <2>1, <2>2 DEF TypeOK
<1>5. Multiple'
  <2> SUFFICES ASSUME NoCarry
               PROVE  /\ elapsed'.sec = 0
                      /\ \E j \in Nat : elapsed'.nsec = j * ab_duration.nsec
    BY <1>2 DEF Multiple, NoCarry, Divides
  <2>1. PICK j \in Nat : elapsed.nsec = j * ab_duration.nsec
    BY <1>0 DEF Multiple
  <2>2. PICK k \in Nat : ab_duration.nsec = 0 \/ NS - 1 = k * ab_duration.nsec
    <3> DEFINE n == ab_duration.nsec
    <3>1. n = 0 \/ (NS - 1) % n = 0
      BY DEF NoCarry, Divides
    <3>2. CASE n = 0
      BY <3>2
    <3>3. CASE n # 0
      <4> HIDE DEF n
      <4>1. \E k \in Nat : NS - 1 = k * n
        BY <1>0, <3>1, <3>3, DividesWitness DEF n
      <4> QED
        BY <4>1 DEF n
    <3> QED
      BY <3>2, <3>3
  <2>3. ab_duration.nsec + elapsed.nsec <= NS - 1
    <3>1. CASE ab_duration.nsec = 0
      BY <1>0, <3>1
    <3>2. CASE NS - 1 = k * ab_duration.nsec
      <4>1. j * ab_duration.nsec < k * ab_duration.nsec
        BY <1>0, <2>1, <3>2
      <4>2. j * ab_duration.nsec + ab_duration.nsec <= k * ab_duration.nsec
        BY <1>0, <4>1, NextMultiple
      <4> QED
        BY <1>0, <2>1, <3>2, <4>2
    <3> QED
      BY <2>2, <3>1, <3>2
  <2>4. c = 0 /\ elapsed'.sec = 0
    BY <1>0, <1>1, <2>3 DEF NoCarry, Multiple
  <2>5. (j + 1) * ab_duration.nsec = ab_duration.nsec + elapsed.nsec
    BY <1>0, <2>1
  <2>6. elapsed'.nsec \in {0, ab_duration.nsec + elapsed.nsec}
    BY <1>0, <1>1, <2>3
  <2>7. 0 = 0 * ab_duration.nsec
    BY <1>0
  <2> QED
    BY <2>4, <2>5, <2>6, <2>7
<1>6. NoTimeInvented'
  <2> DEFINE m == NS - 1
  <2> SUFFICES ASSUME slept' < MaxSlept
               PROVE  elapsed'.sec * m + elapsed'.nsec <= slept'
    BY DEF NoTimeInvented
  <2>1. slept' = slept + InNs(ab_duration) /\ slept < MaxSlept
    BY <1>0, <1>2, ABClockAssumption
  <2>2. elapsed.sec * m + elapsed.nsec <= slept
    BY <1>0, <2>1 DEF NoTimeInvented
  <2>3. elapsed'.sec * m = ab_duration.sec * m + elapsed.sec * m + c * m
    BY <1>0, <1>1, Distribute
  <2>4. ab_duration.sec * m <= ab_duration.sec * NS
    BY <1>0, TimesMonotonic
  <2>5. /\ ab_duration.sec * m \in Nat /\ elapsed.sec * m \in Nat
        /\ ab_duration.sec * NS \in Nat /\ c * m \in Nat
    BY <1>0
  <2>6. elapsed'.nsec + c * m <= ab_duration.nsec + elapsed.nsec
    BY <1>1
  <2>7. InNs(ab_duration) = ab_duration.sec * NS + ab_duration.nsec
    BY DEF InNs
  <2>8. elapsed'.nsec \in Nat /\ slept \in Nat
    BY <1>0, <1>1, ABClockAssumption
  <2> HIDE DEF m
  <2> QED
    BY <1>0, <2>1, <2>2, <2>3, <2>4, <2>5, <2>6, <2>7, <2>8
<1> QED
  BY <1>3, <1>4, <1>5, <1>6 DEF IInv

THEOREM Invariance == Spec => []IInv
<1>1. Init => IInv
  <2> SUFFICES ASSUME Init PROVE IInv
    OBVIOUS
  <2>1. elapsed.sec = 0 /\ elapsed.nsec = 0 /\ elapsed \in Timespec
    BY ABClockAssumption DEF Init, Timespec
  <2>2. TypeOK /\ Reduced
    <3>1. slept \in 0 .. MaxSlept
      BY ABClockAssumption DEF Init
    <3>2. Reduced
      BY <2>1, ABClockAssumption DEF Reduced
    <3> QED
      BY <2>1, <3>1, <3>2 DEF Init, TypeOK
  <2>3. Multiple
    <3>1. elapsed.nsec = 0 * ab_duration.nsec
      BY <2>1, <2>2, Operands
    <3> QED
      BY <2>1, <3>1 DEF Multiple
  <2>4. NoTimeInvented
    BY <2>1, <2>2, Operands DEF Init, NoTimeInvented
  <2> QED
    BY <2>2, <2>3, <2>4 DEF IInv
<1>2. IInv /\ UNCHANGED vars => IInv'
  BY DEF IInv, TypeOK, Reduced, Multiple, NoTimeInvented, NoCarry, Divides, vars
<1>3. IInv /\ [Next]_vars => IInv'
  BY <1>2, RoundPreserves DEF Next, Shutdown
<1> QED
  BY <1>1, <1>3, PTL DEF Spec

\* elapsed stays a proper timespec.
THEOREM TypeCorrect == Spec => []TypeOK
<1>1. IInv => TypeOK
  BY DEF IInv
<1> QED
  BY <1>1, Invariance, PTL

\* The loop of main.c:190-211 never counts a second, and so never ends, when
\* --abTime is a fraction of a second that divides 999'999'999 nanoseconds.
THEOREM StuckBelowASecond == Spec => []NeverASecond
<1>1. IInv => NeverASecond
  BY DEF IInv, Multiple, NeverASecond
<1> QED
  BY <1>1, Invariance, PTL

\* What main() counts never exceeds what it slept, up to the nanosecond per
\* second that the modulus of main.c:210 is short.
THEOREM CountedWasSlept == Spec => []NoTimeInvented
<1>1. IInv => NoTimeInvented
  BY DEF IInv
<1> QED
  BY <1>1, Invariance, PTL

-----------------------------------------------------------------------------
(* Rounds of whole seconds.                                                *)

WholeRounds(r) ==
    LET n == ab_duration.sec
    IN  /\ elapsed.sec = r * n /\ elapsed.nsec = 0
        /\ slept < MaxSlept => slept = r * n * NS
        /\ ~shutdown => r = 0 \/ r * n < duration.sec
        /\ shutdown => /\ r > 0 /\ r * n >= duration.sec
                       /\ r = 1 \/ (r - 1) * n < duration.sec

Whole ==
    ab_duration.nsec = 0 /\ ab_duration.sec > 0 => \E r \in Nat : WholeRounds(r)

LEMMA OneMore ==
    ASSUME NEW r \in Nat, NEW n \in Nat, NEW m \in Nat
    PROVE  /\ (r + 1) * n = r * n + n
           /\ (r + 1) * n * m = r * n * m + n * m
           /\ r * n \in Nat /\ n * m \in Nat /\ r * n * m \in Nat
<1>1. (r + 1) * n = r * n + n /\ r * n \in Nat /\ n * m \in Nat /\ r * n * m \in Nat
  OBVIOUS
<1>2. (r * n + n) * m = r * n * m + n * m
  OBVIOUS
<1> QED
  BY <1>1, <1>2

LEMMA AtLeastItself ==
    ASSUME NEW r \in Nat, NEW n \in Nat \ {0}
    PROVE  r <= r * n
<1>1. r * n = r * (n - 1) + r /\ r * (n - 1) \in Nat
  OBVIOUS
<1> QED
  BY <1>1

LEMMA WholeRound ==
    ASSUME IInv, Whole, Round
    PROVE  Whole'
<1> DEFINE n == ab_duration.sec
<1>1. /\ ab_duration' = ab_duration /\ duration' = duration
      /\ ~shutdown
      /\ elapsed' = Add(elapsed)
      /\ shutdown' <=> elapsed'.sec >= duration.sec
      /\ slept' = IF slept + InNs(ab_duration) > MaxSlept
                  THEN MaxSlept ELSE slept + InNs(ab_duration)
  BY DEF Round, RoundUntil
<1> SUFFICES ASSUME ab_duration.nsec = 0, n > 0
             PROVE  \E r \in Nat : WholeRounds(r)'
  BY <1>1 DEF Whole
<1>2. PICK r \in Nat : WholeRounds(r)
  BY DEF Whole
<1>3. /\ n \in Nat \ {0} /\ duration.sec \in Nat
      /\ NS - 1 \in Nat \ {0} /\ NS \in Nat
      /\ slept \in 0 .. MaxSlept /\ MaxSlept \in Nat
  BY Operands, ABClockAssumption DEF IInv
<1>4. elapsed.sec = r * n /\ elapsed.nsec = 0
  BY <1>2 DEF WholeRounds
<1>5. /\ (r + 1) * n = r * n + n
      /\ (r + 1) * n * NS = r * n * NS + n * NS
      /\ r * n \in Nat /\ n * NS \in Nat /\ r * n * NS \in Nat
  BY <1>3, OneMore
<1>6. elapsed'.sec = (r + 1) * n /\ elapsed'.nsec = 0
  <2>1. PICK c \in {0, 1} :
          /\ Add(elapsed).sec = ab_duration.sec + elapsed.sec + c
          /\ c = 1 <=> ab_duration.nsec + elapsed.nsec > NS - 1
          /\ ab_duration.nsec + elapsed.nsec < NS - 1 =>
                Add(elapsed).nsec = ab_duration.nsec + elapsed.nsec
    BY AddOnce DEF IInv
  <2>2. ab_duration.nsec + elapsed.nsec = 0
    BY <1>4
  <2>3. c = 0
    BY <1>3, <2>1, <2>2
  <2> HIDE DEF n
  <2>4. Add(elapsed).sec = n + r * n
    BY <1>3, <1>4, <1>5, <2>1, <2>3 DEF n
  <2>5. Add(elapsed).nsec = 0
    BY <1>3, <2>1, <2>2
  <2> QED
    BY <1>1, <1>3, <1>5, <2>4, <2>5
<1>7. InNs(ab_duration) = n * NS
  BY <1>3 DEF InNs
<1>8. slept' < MaxSlept => slept' = (r + 1) * n * NS
  <2>1. slept < MaxSlept => slept = r * n * NS
    BY <1>2 DEF WholeRounds
  <2>2. n * NS > 0
    BY <1>3
  <2> HIDE DEF n
  <2> QED
    BY <1>1, <1>3, <1>5, <1>7, <2>1, <2>2
<1>9. shutdown' => /\ r + 1 > 0 /\ (r + 1) * n >= duration.sec
                   /\ r + 1 = 1 \/ ((r + 1) - 1) * n < duration.sec
  <2>1. r = 0 \/ r * n < duration.sec
    BY <1>1, <1>2 DEF WholeRounds
  <2>2. (r + 1) - 1 = r
    OBVIOUS
  <2> QED
    BY <1>1, <1>6, <2>1, <2>2
<1>10. ~shutdown' => (r + 1) * n < duration.sec
  <2>1. (r + 1) * n \in Nat
    BY <1>3
  <2> HIDE DEF n
  <2> QED
    BY <1>1, <1>3, <1>6, <2>1
<1>11. WholeRounds(r + 1)'
  BY <1>1, <1>6, <1>8, <1>9, <1>10 DEF WholeRounds
<1> QED
  BY <1>11

\* For any whole --abTime of n seconds the loop of main.c:190-211 stops at the least
\* multiple of n that covers the whole seconds of --time.
THEOREM WholeSeconds == Spec => []RunsWholeSeconds
<1>1. Init => Whole
  <2> SUFFICES ASSUME Init PROVE Whole
    OBVIOUS
  <2>1. ab_duration.sec \in Nat /\ NS \in Nat
    BY ABClockAssumption DEF Init, Timespec
  <2>2. 0 * ab_duration.sec = 0 /\ 0 * ab_duration.sec * NS = 0
    BY <2>1
  <2>3. WholeRounds(0)
    BY <2>2 DEF Init, WholeRounds
  <2> QED
    BY <2>3 DEF Whole
<1>2. IInv /\ Whole /\ [Next]_vars => Whole'
  <2>1. Whole /\ UNCHANGED vars => Whole'
    BY DEF Whole, WholeRounds, vars
  <2> QED
    BY <2>1, WholeRound DEF Next, Shutdown
<1>3. IInv /\ Whole => RunsWholeSeconds
  <2> SUFFICES ASSUME IInv, Whole, shutdown, ab_duration.nsec = 0,
                      ab_duration.sec > 0, slept < MaxSlept
               PROVE  \E rounds \in 1 .. duration.sec + 1 :
                        /\ slept = rounds * ab_duration.sec * NS
                        /\ rounds * ab_duration.sec >= duration.sec
                        /\ \/ rounds = 1
                           \/ (rounds - 1) * ab_duration.sec < duration.sec
    BY DEF RunsWholeSeconds
  <2>1. PICK r \in Nat : WholeRounds(r)
    BY DEF Whole
  <2>2. ab_duration.sec \in Nat \ {0} /\ duration.sec \in Nat
    BY Operands DEF IInv
  <2>3. /\ r > 0 /\ slept = r * ab_duration.sec * NS
        /\ r * ab_duration.sec >= duration.sec
        /\ r = 1 \/ (r - 1) * ab_duration.sec < duration.sec
    BY <2>1 DEF WholeRounds
  <2>4. r - 1 <= (r - 1) * ab_duration.sec
    BY <2>2, <2>3, AtLeastItself
  <2>5. r \in 1 .. duration.sec + 1
    <3>1. (r - 1) * ab_duration.sec \in Nat
      BY <2>2, <2>3
    <3> QED
      BY <2>2, <2>3, <2>4, <3>1
  <2> QED
    BY <2>3, <2>5
<1> QED
  BY <1>1, <1>2, <1>3, Invariance, PTL DEF Spec
=============================================================================
