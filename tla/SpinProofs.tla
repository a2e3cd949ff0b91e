------------------------------ MODULE SpinProofs ------------------------------
(***************************************************************************)
(* Proofs about Spin, for operands of any width and any values, any number *)
(* of passes and any number of changes of workload.                        *)
(***************************************************************************)
EXTENDS Spin, FiniteSetTheorems, TLAPS

-----------------------------------------------------------------------------
(* Powers of two, as the numbers of subsets.                               *)

LEMMA PowerCounts ==
    ASSUME NEW S, IsFiniteSet(S), NEW n \in Nat, Cardinality(S) = n
    PROVE  IsFiniteSet(SUBSET S) /\ Cardinality(SUBSET S) = 2^n /\ 2^n \in Nat \ {0}
<1>2. IsFiniteSet(SUBSET S) /\ Cardinality(SUBSET S) = 2^n
  BY FS_SUBSET
<1>3. 2^n \in Nat
  BY <1>2, FS_CardinalityType
<1>4. 2^n # 0
  <2>1. SUBSET S # {}
    OBVIOUS
  <2> QED
    BY <1>2, <2>1, FS_EmptySet
<1> QED
  BY <1>2, <1>3, <1>4

LEMMA PowersMultiply ==
    ASSUME NEW a \in Nat, NEW n \in Nat
    PROVE  2^(a + n) = 2^a * 2^n
<1> DEFINE L == 1 .. a
           H == a + 1 .. a + n
           all == 1 .. a + n
<1>1. /\ IsFiniteSet(SUBSET L) /\ Cardinality(SUBSET L) = 2^a
      /\ IsFiniteSet(SUBSET H) /\ Cardinality(SUBSET H) = 2^n
  <2>1. PICK first \in Int, last \in Int : first = a + 1 /\ last = a + n
    OBVIOUS
  <2>2. IsFiniteSet(SUBSET (1 .. a)) /\ Cardinality(SUBSET (1 .. a)) = 2^a
    <3>1. IsFiniteSet(1 .. a) /\ Cardinality(1 .. a) = a
      BY FS_Interval
    <3> QED
      BY <3>1, PowerCounts
  <2>3. IsFiniteSet(SUBSET (first .. last)) /\ Cardinality(SUBSET (first .. last)) = 2^n
    <3>1. IsFiniteSet(first .. last) /\ Cardinality(first .. last) = n
      BY <2>1, FS_Interval
    <3> QED
      BY <3>1, PowerCounts
  <2> QED
    BY <2>1, <2>2, <2>3
<1>2. IsFiniteSet(SUBSET all) /\ Cardinality(SUBSET all) = 2^(a + n)
  <2>1. PICK sum \in Nat : sum = a + n
    OBVIOUS
  <2>2. IsFiniteSet(SUBSET (1 .. sum)) /\ Cardinality(SUBSET (1 .. sum)) = 2^sum
    <3>1. IsFiniteSet(1 .. sum) /\ Cardinality(1 .. sum) = sum
      BY FS_Interval
    <3> QED
      BY <3>1, PowerCounts
  <2> QED
    BY <2>1, <2>2
<1>3. L \cup H = all /\ L \cap H = {}
  OBVIOUS
<1> HIDE DEF L, H, all
<1> DEFINE pairs == (SUBSET L) \X (SUBSET H)
           f == [p \in pairs |-> p[1] \cup p[2]]
<1>4. IsFiniteSet(pairs) /\ Cardinality(pairs) = Cardinality(SUBSET L) * Cardinality(SUBSET H)
  BY <1>1, FS_Product
<1>5. ExistsBijection(pairs, SUBSET all)
  <2>1. f \in [pairs -> SUBSET all]
    BY <1>3
  <2>2. ASSUME NEW p \in pairs, NEW q \in pairs, f[p] = f[q]
        PROVE  p = q
    <3>1. p[1] \cup p[2] = q[1] \cup q[2]
      BY <2>2
    <3>2. p[1] \subseteq L /\ q[1] \subseteq L /\ p[2] \subseteq H /\ q[2] \subseteq H
          /\ p = <<p[1], p[2]>> /\ q = <<q[1], q[2]>>
      OBVIOUS
    <3>3. ASSUME NEW j
          PROVE  /\ j \in p[1] <=> j \in q[1]
                 /\ j \in p[2] <=> j \in q[2]
      BY <1>3, <3>1, <3>2
    <3> QED
      BY <3>2, <3>3
  <2>3. ASSUME NEW t \in SUBSET all
        PROVE  \E p \in pairs : f[p] = t
    <3>1. <<t \cap L, t \cap H>> \in pairs /\ (t \cap L) \cup (t \cap H) = t
      BY <1>3
    <3> QED
      BY <3>1
  <2> HIDE DEF f, pairs
  <2>4. f \in Bijection(pairs, SUBSET all)
    BY <2>1, <2>2, <2>3 DEF Bijection, Injection, IsInjective, Surjection
  <2> QED
    BY <2>4 DEF ExistsBijection
<1>6. Cardinality(SUBSET all) = Cardinality(pairs)
  BY <1>4, <1>5, FS_Bijection
<1> QED
  BY <1>1, <1>2, <1>4, <1>6

LEMMA PowersPositive ==
    ASSUME NEW n \in Nat
    PROVE  2^n \in Nat \ {0}
<1>1. IsFiniteSet(1 .. n) /\ Cardinality(1 .. n) = n
  BY FS_Interval
<1> QED
  BY <1>1, PowerCounts

-----------------------------------------------------------------------------
(* Division and shifts.                                                    *)

LEMMA Quotient ==
    ASSUME NEW a \in Nat, NEW n \in Nat \ {0}
    PROVE  /\ a \div n \in Nat /\ a % n \in 0 .. n - 1
           /\ a = n * (a \div n) + (a % n)
  OBVIOUS

LEMMA MultiplesApart ==
    ASSUME NEW n \in Nat \ {0}, NEW q \in Int, NEW p \in Int, q < p
    PROVE  n * q + n <= n * p
<1>1. PICK d \in Nat : p = q + 1 + d
  <2>1. p - q - 1 \in Nat /\ p = q + 1 + (p - q - 1)
    OBVIOUS
  <2> QED
    BY <2>1
<1>2. n * p = n * q + n + n * d
  BY <1>1
<1>3. n * d >= 0
  OBVIOUS
<1> QED
  BY <1>2, <1>3

LEMMA QuotientUnique ==
    ASSUME NEW n \in Nat \ {0}, NEW q \in Nat, NEW rest \in 0 .. n - 1
    PROVE  /\ (n * q + rest) \div n = q
           /\ (n * q + rest) % n = rest
<1> DEFINE a == n * q + rest
<1>1. a \in Nat
  OBVIOUS
<1>2. PICK p \in Nat, s \in 0 .. n - 1 : p = a \div n /\ s = a % n /\ a = n * p + s
  BY <1>1, Quotient
<1>3. ~(p < q)
  BY <1>2, MultiplesApart
<1>4. ~(q < p)
  BY <1>2, MultiplesApart
<1> QED
  BY <1>2, <1>3, <1>4

\* Multiplied by m, cut off at k * m, divided by m: cut off at k.
LEMMA CutAtProduct ==
    ASSUME NEW v \in Nat, NEW m \in Nat \ {0}, NEW k \in Nat \ {0}
    PROVE  ((v * m) % (k * m)) \div m = v % k
<1>1. PICK q \in Nat, rest \in 0 .. k - 1 : rest = v % k /\ v = k * q + rest
  BY Quotient
<1>2. PICK km \in Nat \ {0}, cut \in Nat : km = k * m /\ cut = rest * m
  <2>1. k * m \in Nat \ {0} /\ rest * m \in Nat
    OBVIOUS
  <2> QED
    BY <2>1
<1>3. cut \in 0 .. km - 1
  <2>1. m * rest + m <= m * k
    BY MultiplesApart
  <2>2. m * rest = cut /\ m * k = km
    BY <1>2
  <2> QED
    BY <2>1, <2>2
<1>4. v * m = km * q + cut
  BY <1>1, <1>2
<1>5. (v * m) % km = cut
  BY <1>3, <1>4, QuotientUnique
<1>6. cut \div m = rest
  <2>1. (m * rest + 0) \div m = rest
    BY QuotientUnique
  <2>2. m * rest + 0 = cut
    BY <1>2
  <2> QED
    BY <2>1, <2>2
<1> QED
  BY <1>1, <1>2, <1>5, <1>6

\* The bits that a shift back and forth keeps.
Kept(s) == 2^(Width - Bits(s))

LEMMA ShiftKeeps ==
    ASSUME NEW v \in Nat, NEW s \in Nat
    PROVE  /\ ShiftBackAndForth(v, s) = v % Kept(s)
           /\ v % Kept(s) \in Nat
           /\ (v % Kept(s)) % Kept(s) = v % Kept(s)
<1>1. Width \in Nat \ {0} /\ Bits(s) \in 0 .. Width - 1
  BY SpinAssumption, Quotient DEF Bits
<1>2. PICK b \in Nat, rest \in Nat : b = Bits(s) /\ rest = Width - Bits(s) /\ rest + b = Width
  BY <1>1
<1>3. PICK k \in Nat \ {0}, m \in Nat \ {0} : k = 2^rest /\ m = 2^b
  BY PowersPositive
<1>4. 2^Width = k * m
  BY <1>2, <1>3, PowersMultiply
<1>5. Kept(s) = k
  BY <1>2, <1>3 DEF Kept
<1>6. ShiftBackAndForth(v, s) = ((v * m) % (k * m)) \div m
  BY <1>2, <1>3, <1>4 DEF ShiftBackAndForth
<1>7. ((v * m) % (k * m)) \div m = v % k
  BY CutAtProduct
<1>8. PICK w : w = v % k /\ w \in 0 .. k - 1
  BY Quotient
<1>9. (k * 0 + w) % k = w
  BY <1>8, QuotientUnique
<1> QED
  BY <1>5, <1>6, <1>7, <1>8, <1>9

-----------------------------------------------------------------------------
(* The inductive invariant.                                                *)

Counters ==
    /\ ab_selector \in Workload /\ idx \in Workload
    /\ accumulator \in [Workload -> Nat]
    /\ shifted \in [Workload -> Nat]
    /\ executed_loops \in [Workload -> Nat]
    /\ flips \in Nat

\* A pass that has shifted is counted at its end.
Uncounted(w) == IF pc = "count" /\ idx = w THEN 1 ELSE 0
Surplus(w) == accumulator[w] + Uncounted(w) - shifted[w]

\* What one operand's count has too many, the other's has too few, and it took a
\* change of workload for each: also for the one that this pass is about to cause.
Balance ==
    /\ Surplus(A) + Surplus(B) = 0
    /\ Surplus(A) <= flips /\ -flips <= Surplus(A)
    /\ pc = "count" /\ idx # ab_selector =>
            Surplus(A) <= flips - 1 /\ 1 - flips <= Surplus(A)

\* executed_loops is written once, on return.
Report ==
    IF pc = "returned" THEN executed_loops = accumulator ELSE executed_loops = Zero

\* An operand loses its top bits when it is first shifted, and no more later.
Operands ==
    /\ given \in [Workload -> Nat] /\ shift_amount \in Nat
    /\ to_be_shifted = [w \in Workload |-> IF shifted[w] = 0 THEN given[w]
                                           ELSE given[w] % Kept(shift_amount)]
    /\ benchmark_type = "ABSHIFT" /\ pc = "returned" => benchmark_param = to_be_shifted

IInv ==
    /\ Counters
    /\ Report
    /\ Operands
    /\ benchmark_type = "ABSHIFT" => Balance

LEMMA InitHolds ==
    ASSUME Init
    PROVE  IInv
<1>1. Operands
  <2>1. given \in [Workload -> Nat] /\ shift_amount \in Nat
    <3>1. Params \subseteq Nat
      <4>1. 2^Width \in Nat
        BY SpinAssumption, PowersPositive
      <4> QED
        BY <4>1, SpinAssumption
    <3> QED
      BY <3>1, SpinAssumption DEF Init
  <2>2. to_be_shifted = [w \in Workload |-> given[w]] /\ \A w \in Workload : shifted[w] = 0
    BY <2>1 DEF Init, Zero
  <2>3. pc = "test"
    BY DEF Init
  <2> QED
    BY <2>1, <2>2, <2>3 DEF Operands
<1>2. Counters /\ Report /\ Balance
  BY DEF Init, Counters, Balance, Surplus, Uncounted, Report, Zero, Workload, A, B
<1> QED
  BY <1>1, <1>2 DEF IInv

\* All but ShiftOperand and Return leave the operands alone.
LEMMA OperandsKept ==
    ASSUME Operands,
           UNCHANGED <<benchmark_type, given, shift_amount, to_be_shifted, shifted,
                       benchmark_param>>,
           pc' = "returned" => pc = "returned"
    PROVE  Operands'
  BY DEF Operands, Kept, Bits

LEMMA OperandsShifted ==
    ASSUME IInv, ShiftOperand
    PROVE  Operands'
<1> PICK k : k = Kept(shift_amount)
  OBVIOUS
<1>1. /\ pc' = "count" /\ ab_selector \in Workload
      /\ UNCHANGED <<given, shift_amount>>
      /\ to_be_shifted' = [to_be_shifted EXCEPT ![ab_selector] =
                            ShiftBackAndForth(to_be_shifted[ab_selector], shift_amount)]
      /\ shifted' = [shifted EXCEPT ![ab_selector] = shifted[ab_selector] + 1]
      /\ shifted \in [Workload -> Nat]
  BY DEF ShiftOperand, Increment, IInv, Counters
<1>2. /\ given \in [Workload -> Nat] /\ shift_amount \in Nat
      /\ \A w \in Workload : to_be_shifted[w] = IF shifted[w] = 0 THEN given[w]
                                                ELSE given[w] % k
      /\ to_be_shifted = [w \in Workload |-> to_be_shifted[w]]
  BY DEF IInv, Operands
<1>3. ASSUME NEW v \in Nat
      PROVE  /\ ShiftBackAndForth(v, shift_amount) = v % k
             /\ v % k \in Nat /\ (v % k) % k = v % k
  BY <1>2, ShiftKeeps
<1>4. ShiftBackAndForth(to_be_shifted[ab_selector], shift_amount) = given[ab_selector] % k
  <2>1. given[ab_selector] \in Nat
    BY <1>1, <1>2
  <2>2. CASE shifted[ab_selector] = 0
    BY <1>1, <1>2, <1>3, <2>1, <2>2
  <2>3. CASE shifted[ab_selector] # 0
    <3>1. to_be_shifted[ab_selector] = given[ab_selector] % k
      BY <1>1, <1>2, <2>3
    <3> QED
      BY <1>3, <2>1, <3>1
  <2> QED
    BY <2>2, <2>3
<1>5. to_be_shifted' = [w \in Workload |-> IF shifted'[w] = 0 THEN given[w]
                                           ELSE given[w] % k]
  BY <1>1, <1>2, <1>4
<1>6. Kept(shift_amount)' = k
  BY <1>1 DEF Kept, Bits
<1> QED
  BY <1>1, <1>2, <1>5, <1>6 DEF Operands

LEMMA StepHolds ==
    ASSUME IInv, [Next]_vars
    PROVE  IInv'
<1> USE DEF IInv, Counters, Workload, A, B
<1>1. CASE Flip
  <2>1. Operands'
    BY <1>1, OperandsKept DEF Flip
  <2> QED
    BY <1>1, <2>1 DEF Flip, Balance, Surplus, Uncounted, Report, Zero
<1>2. CASE RingTheBell
  <2>1. Operands'
    BY <1>2, OperandsKept DEF RingTheBell
  <2> QED
    BY <1>2, <2>1 DEF RingTheBell, Balance, Surplus, Uncounted, Report, Zero
<1>3. CASE Test
  <2>1. Operands'
    BY <1>3, OperandsKept DEF Test
  <2> QED
    BY <1>3, <2>1 DEF Test, Balance, Surplus, Uncounted, Report, Zero
<1>4. CASE ShiftOperand
  <2>1. /\ pc = "body" /\ pc' = "count" /\ idx' = ab_selector
        /\ UNCHANGED <<benchmark_type, ab_selector, accumulator, executed_loops, flips>>
        /\ shifted' = [shifted EXCEPT ![ab_selector] = @ + 1]
    BY <1>4 DEF ShiftOperand, Increment
  <2>2. (Counters /\ Report)'
    BY <2>1 DEF Report, Zero
  <2>3. ASSUME Balance PROVE Balance'
    BY <2>1, <2>3 DEF Balance, Surplus, Uncounted
  <2>4. Operands'
    BY <1>4, OperandsShifted
  <2> QED
    BY <2>1, <2>2, <2>3, <2>4
<1>5. CASE Count
  <2> DEFINE w == IF benchmark_type = "SPIN" THEN A ELSE ab_selector
  <2>1. /\ pc = "count" /\ pc' = "test"
        /\ UNCHANGED <<benchmark_type, ab_selector, idx, shifted, executed_loops,
                       flips>>
        /\ accumulator' = [accumulator EXCEPT ![w] = @ + 1]
    BY <1>5 DEF Count, CountAs, Increment
  <2>2. (Counters /\ Report)'
    BY <2>1 DEF Report, Zero
  <2>3. ASSUME benchmark_type = "ABSHIFT", Balance PROVE Balance'
    BY <2>1, <2>3 DEF Balance, Surplus, Uncounted
  <2>4. Operands'
    BY <1>5, OperandsKept DEF Count, CountAs
  <2> QED
    BY <2>1, <2>2, <2>3, <2>4
<1>6. CASE Return
  <2>1. /\ pc = "test" /\ pc' = "returned"
        /\ UNCHANGED <<benchmark_type, ab_selector, idx, accumulator, shifted, flips>>
        /\ executed_loops' = [w \in Workload |-> executed_loops[w] + accumulator[w]]
    BY <1>6 DEF Return, ReturnAdding
  <2>2. (Counters /\ Report)'
    BY <2>1 DEF Report, Zero
  <2>3. ASSUME Balance PROVE Balance'
    BY <2>1, <2>3 DEF Balance, Surplus, Uncounted
  <2>4. Operands'
    <3>1. /\ UNCHANGED <<benchmark_type, given, shift_amount, to_be_shifted, shifted>>
          /\ benchmark_type = "ABSHIFT" => benchmark_param' = to_be_shifted
      BY <1>6 DEF Return, ReturnAdding
    <3> QED
      BY <3>1 DEF Operands, Kept, Bits
  <2> QED
    BY <2>1, <2>2, <2>3, <2>4
<1>7. CASE UNCHANGED vars
  <2>1. Operands'
    BY <1>7, OperandsKept DEF vars
  <2> QED
    BY <1>7, <2>1 DEF vars, Balance, Surplus, Uncounted, Report, Zero
<1> QED
  BY <1>1, <1>2, <1>3, <1>4, <1>5, <1>6, <1>7 DEF Next, Returned

\* The inductive invariant.
THEOREM Invariance == Spec => []IInv
  BY InitHolds, StepHolds, PTL DEF Spec

\* The loops that ABSHIFT reports (spin.c:24-25) add up to the shifts it made, and
\* differ from them per workload by no more than the changes of workload, for any
\* number of passes.
THEOREM LoopsReported == Spec => []ReportedLoops
<1>1. IInv => ReportedLoops
  <2> SUFFICES ASSUME IInv, benchmark_type = "ABSHIFT", pc = "returned"
               PROVE  /\ Total(executed_loops) = Total(shifted)
                      /\ \A w \in Workload :
                            Within(executed_loops[w], shifted[w], flips)
    BY DEF ReportedLoops
  <2> QED
    BY DEF IInv, Counters, Balance, Surplus, Uncounted, Report, Total, Within,
           Workload, A, B
<1> QED
  BY <1>1, Invariance, PTL

\* OnlyTopBitsLost: an operand that was shifted (spin.c:26), however often and in
\* whatever order with the changes of workload, has lost its top bits and no others.
THEOREM TopBitsLost == Spec => []OnlyTopBitsLost
<1>1. IInv => OnlyTopBitsLost
  BY DEF IInv, Operands, OnlyTopBitsLost, Kept
<1> QED
  BY <1>1, Invariance, PTL
==============================================================================
