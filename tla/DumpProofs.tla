------------------------------ MODULE DumpProofs ------------------------------
(***************************************************************************)
(* Proofs about Rollover and Dump, for any number of polls and of ops, any  *)
(* register and any way that the meters move, and any outputs, tags and     *)
(* temperatures.                                                           *)
(***************************************************************************)
EXTENDS Dump, FiniteSetTheorems, TLAPS

-----------------------------------------------------------------------------
(* The inductive invariant.                                                *)

Handled(p, k) == p < poll \/ (p = poll /\ k < b)

\* A register that moved by d shows d more, or a turn less than that.
Moved(d, from, to) == to - from = d \/ to - from = d - Turn

LoopsStart == phase = "polling" => poll = 0 /\ b = 0
OnlyEnergy == b > 0 => poll \in EnergyPolls

Meters ==
    \A p \in Polls :
        /\ base[p] <= meter[p] /\ meter[p] < base[p] + Turn
        /\ used[p] > 0 => last[p][used[p] - 1] = meter[p]
        /\ used[p] > 0 /\ phase = "polling" =>
                msrdata2[p][used[p] - 1] = meter[p] - base[p]

\* What the meter did during an op, and since the op before.
Forward ==
    \A p \in Polls : \A k \in Ops(p) : k < used[p] =>
        /\ first[p][k] <= last[p][k]
        /\ last[p][k] - first[p][k] < Turn
        /\ k > 0 => /\ last[p][k - 1] <= first[p][k]
                    /\ last[p][k] - last[p][k - 1] < Turn

\* What is not handled yet is what the register showed.
Raw ==
    \A p \in Polls : \A k \in Ops(p) : k < used[p] /\ ~Handled(p, k) =>
        /\ msrdata[p][k] < Turn /\ msrdata2[p][k] < Turn
        /\ Moved(last[p][k] - first[p][k], msrdata[p][k], msrdata2[p][k])
        /\ k > 0 /\ ~Handled(p, k - 1) =>
            Moved(first[p][k] - last[p][k - 1], msrdata2[p][k - 1], msrdata[p][k])

\* cumulative_adjustment is what the op before b has been raised by.
Seam ==
    b > 0 /\ b < used[poll] =>
        LET before == msrdata2[poll][b - 1] - cumulative_adjustment
        IN  /\ before >= 0 /\ before < Turn
            /\ Moved(first[poll][b] - last[poll][b - 1], before, msrdata[poll][b])

IInv ==
    /\ TypeOK
    /\ LoopsStart
    /\ OnlyEnergy
    /\ Meters
    /\ Forward
    /\ Raw
    /\ Seam
    /\ DeltasExact
-----------------------------------------------------------------------------
LEMMA InitHolds == Init => IInv
<1> SUFFICES ASSUME Init PROVE IInv
  OBVIOUS
<1> USE RolloverAssumption DEF Init, NoReadings
<1>1. TypeOK
  BY DEF TypeOK, IsReading, Ops, Polls
<1>2. Meters
  BY DEF Meters
<1>3. LoopsStart /\ OnlyEnergy /\ Seam
  BY DEF LoopsStart, OnlyEnergy, Seam
<1>4. Forward /\ Raw /\ DeltasExact
  BY DEF Forward, Raw, DeltasExact, Managed, Ops
<1> QED
  BY <1>1, <1>2, <1>3, <1>4 DEF IInv

-----------------------------------------------------------------------------
\* OP_POLL: a register shows its meter, before and after.
LEMMA SampleStep ==
    ASSUME IInv, NEW p \in Polls, Sample(p)
    PROVE  IInv'
<1> DEFINE u == used[p]
<1>1. PICK idle \in Steps, wait \in Steps :
        LET start == meter[p] + idle
            end == start + wait
        IN  /\ idle + wait < Turn
            /\ meter' = [meter EXCEPT ![p] = end]
            /\ base' = [base EXCEPT ![p] = BaseOf(p, end)]
            /\ msrdata' = [msrdata EXCEPT ![p][u] = start - BaseOf(p, start)]
            /\ msrdata2' = [msrdata2 EXCEPT ![p][u] = end - BaseOf(p, end)]
            /\ first' = [first EXCEPT ![p][u] = start]
            /\ last' = [last EXCEPT ![p][u] = end]
  BY DEF Sample
<1> DEFINE start == meter[p] + idle
           end == start + wait
           x == start - BaseOf(p, start)
           y == end - BaseOf(p, end)
<1>2. /\ phase = "polling" /\ phase' = "polling"
      /\ u < TotalOps[p]
      /\ used' = [used EXCEPT ![p] = u + 1]
      /\ UNCHANGED loopVars
      /\ poll = 0 /\ b = 0
  BY DEF Sample, IInv, LoopsStart
<1>3. /\ u \in Nat /\ u \in Ops(p) /\ TotalOps[p] \in Nat
      /\ meter[p] \in Nat /\ base[p] \in Nat
      /\ base[p] <= meter[p] /\ meter[p] < base[p] + Turn
      /\ idle \in Nat /\ wait \in Nat /\ Turn \in Nat \ {0}
  <2>1. u \in Nat /\ meter[p] \in Nat /\ base[p] \in Nat
    BY DEF IInv, TypeOK
  <2>2. TotalOps[p] \in Nat /\ idle \in Nat /\ wait \in Nat /\ Turn \in Nat \ {0}
    BY RolloverAssumption
  <2>3. base[p] <= meter[p] /\ meter[p] < base[p] + Turn
    BY DEF IInv, Meters
  <2>4. u \in Ops(p)
    BY <1>2, <2>1, <2>2 DEF Ops
  <2> QED
    BY <2>1, <2>2, <2>3, <2>4
<1>4. /\ start \in Nat /\ end \in Nat /\ x \in Nat /\ y \in Nat
      /\ x < Turn /\ y < Turn
      /\ Moved(end - start, x, y)
      /\ Moved(start - meter[p], meter[p] - base[p], x)
      /\ BaseOf(p, end) \in Nat
      /\ BaseOf(p, end) <= end /\ end < BaseOf(p, end) + Turn
  BY <1>1, <1>3 DEF BaseOf, Moved
<1> HIDE DEF start, end, x, y
<1>5. /\ meter' = [meter EXCEPT ![p] = end]
      /\ base' = [base EXCEPT ![p] = BaseOf(p, end)]
      /\ msrdata' = [msrdata EXCEPT ![p][u] = x]
      /\ msrdata2' = [msrdata2 EXCEPT ![p][u] = y]
      /\ first' = [first EXCEPT ![p][u] = start]
      /\ last' = [last EXCEPT ![p][u] = end]
  BY <1>1 DEF start, end, x, y
<1>6. ASSUME NEW q \in Polls, NEW k \in Ops(q)
      PROVE  /\ msrdata'[q][k] = IF q = p /\ k = u THEN x ELSE msrdata[q][k]
             /\ msrdata2'[q][k] = IF q = p /\ k = u THEN y ELSE msrdata2[q][k]
             /\ first'[q][k] = IF q = p /\ k = u THEN start ELSE first[q][k]
             /\ last'[q][k] = IF q = p /\ k = u THEN end ELSE last[q][k]
  BY <1>5 DEF IInv, TypeOK, IsReading
<1>7. ASSUME NEW q \in Polls
      PROVE  /\ used'[q] = IF q = p THEN u + 1 ELSE used[q]
             /\ meter'[q] = IF q = p THEN end ELSE meter[q]
             /\ base'[q] = IF q = p THEN BaseOf(p, end) ELSE base[q]
             /\ used[q] \in Nat /\ used[q] <= TotalOps[q] /\ TotalOps[q] \in Nat
  BY <1>2, <1>5, RolloverAssumption DEF IInv, TypeOK
<1>8. TypeOK'
  <2>1. IsReading(msrdata)' /\ IsReading(msrdata2)'
    BY <1>4, <1>5 DEF IInv, TypeOK, IsReading
  <2>2. IsReading(first)' /\ IsReading(last)'
    BY <1>4, <1>5 DEF IInv, TypeOK, IsReading
  <2>3. used' \in [Polls -> Nat] /\ \A q \in Polls : used'[q] <= TotalOps[q]
    BY <1>2, <1>3, <1>7 DEF IInv, TypeOK
  <2>4. meter' \in [Polls -> Nat] /\ base' \in [Polls -> Nat]
    BY <1>4, <1>5 DEF IInv, TypeOK
  <2> QED
    BY <1>2, <2>1, <2>2, <2>3, <2>4 DEF IInv, TypeOK, loopVars
<1>9. Meters'
  <2> SUFFICES ASSUME NEW q \in Polls
               PROVE  /\ base'[q] <= meter'[q] /\ meter'[q] < base'[q] + Turn
                      /\ used'[q] > 0 => last'[q][used'[q] - 1] = meter'[q]
                      /\ used'[q] > 0 => msrdata2'[q][used'[q] - 1]
                                            = meter'[q] - base'[q]
    BY DEF Meters
  <2>1. CASE q = p
    <3>1. used'[q] - 1 = u
      BY <1>3, <1>7, <2>1
    <3> QED
      BY <1>3, <1>4, <1>6, <1>7, <2>1, <3>1 DEF y
  <2>2. CASE q # p
    <3>1. used[q] > 0 => used[q] - 1 \in Ops(q)
      BY <1>7 DEF Ops
    <3> QED
      BY <1>2, <1>6, <1>7, <2>2, <3>1 DEF IInv, Meters
  <2> QED
    BY <2>1, <2>2
<1>10. /\ u > 0 => u - 1 \in Ops(p)
       /\ u > 0 => last[p][u - 1] = meter[p]
                   /\ msrdata2[p][u - 1] = meter[p] - base[p]
  BY <1>2, <1>3 DEF IInv, Meters, Ops
<1>11. ASSUME NEW q \in Polls, NEW k \in Ops(q)
       PROVE  /\ first[q][k] \in Nat /\ last[q][k] \in Nat
              /\ msrdata[q][k] \in Nat /\ msrdata2[q][k] \in Nat
              /\ k \in Nat /\ (k > 0 => k - 1 \in Ops(q))
  BY RolloverAssumption DEF IInv, TypeOK, IsReading, Ops
<1>12. ASSUME NEW q \in Polls, NEW k \in Ops(q), ~(q = p /\ k = u), k < used'[q]
       PROVE  k < used[q]
  BY <1>7, <1>11, <1>12
<1>13. Forward'
  <2> SUFFICES ASSUME NEW q \in Polls, NEW k \in Ops(q), k < used'[q]
               PROVE  /\ first'[q][k] <= last'[q][k]
                      /\ last'[q][k] - first'[q][k] < Turn
                      /\ k > 0 => /\ last'[q][k - 1] <= first'[q][k]
                                  /\ last'[q][k] - last'[q][k - 1] < Turn
    BY DEF Forward
  <2>1. CASE q = p /\ k = u
    <3>1. start <= end /\ end - start < Turn /\ meter[p] <= start
          /\ end - meter[p] < Turn
      BY <1>1, <1>3 DEF start, end
    <3>2. u > 0 => last'[p][u - 1] = meter[p]
      BY <1>3, <1>6, <1>10
    <3> QED
      BY <1>6, <2>1, <3>1, <3>2
  <2>2. CASE ~(q = p /\ k = u)
    <3>1. k < used[q]
      BY <1>12, <2>2
    <3>2. k > 0 => ~(q = p /\ k - 1 = u)
      BY <1>3, <1>11, <3>1
    <3> QED
      BY <1>6, <1>11, <2>2, <3>1, <3>2 DEF IInv, Forward
  <2> QED
    BY <2>1, <2>2
<1>14. Raw'
  <2> SUFFICES ASSUME NEW q \in Polls, NEW k \in Ops(q), k < used'[q],
                      ~Handled(q, k)'
               PROVE  /\ msrdata'[q][k] < Turn /\ msrdata2'[q][k] < Turn
                      /\ Moved(last'[q][k] - first'[q][k], msrdata'[q][k],
                               msrdata2'[q][k])
                      /\ k > 0 /\ ~Handled(q, k - 1)' =>
                          Moved(first'[q][k] - last'[q][k - 1],
                                msrdata2'[q][k - 1], msrdata'[q][k])
    BY DEF Raw, Moved
  <2>1. CASE q = p /\ k = u
    <3>1. u > 0 => /\ last'[p][u - 1] = meter[p]
                   /\ msrdata2'[p][u - 1] = meter[p] - base[p]
      BY <1>3, <1>6, <1>10
    <3> QED
      BY <1>4, <1>6, <2>1, <3>1
  <2>2. CASE ~(q = p /\ k = u)
    <3>1. k < used[q]
      BY <1>12, <2>2
    <3>2. k > 0 => ~(q = p /\ k - 1 = u)
      BY <1>3, <1>11, <3>1
    <3>3. ~Handled(q, k) /\ (~Handled(q, k - 1)' => ~Handled(q, k - 1))
      BY <1>2 DEF Handled, loopVars
    <3> QED
      BY <1>6, <1>11, <2>2, <3>1, <3>2, <3>3 DEF IInv, Raw
  <2> QED
    BY <2>1, <2>2
<1>15. (LoopsStart /\ OnlyEnergy /\ Seam)'
  BY <1>2 DEF LoopsStart, OnlyEnergy, Seam, loopVars
<1>16. DeltasExact'
  <2>1. ASSUME NEW q \in Polls, NEW k \in Ops(q)
        PROVE  ~Managed(q, k)'
    BY <1>2, <1>11 DEF Managed, loopVars, Polls
  <2> QED
    BY <2>1, RolloverAssumption DEF DeltasExact
<1> QED
  BY <1>8, <1>9, <1>13, <1>14, <1>15, <1>16 DEF IInv

-----------------------------------------------------------------------------
\* One op of an energy poll is raised by what has accumulated.  e and e2 are what
\* its readings are raised by on top, a what cumulative_adjustment is.
LEMMA AdjustStep ==
    ASSUME IInv, Visiting, NEW e \in {0, Turn}, NEW e2 \in {0, Turn},
           AdjustBy(e, e2, e2),
           e = Turn <=> (~WithinOp /\ BetweenOps),
           e2 = Turn <=> (WithinOp \/ BetweenOps)
    PROVE  IInv'
<1> DEFINE x == Adjusted + e
           x2 == Adjusted2 + e2
<1>1. /\ phase = "managing" /\ phase' = phase /\ poll' = poll /\ UNCHANGED hardware
      /\ poll \in EnergyPolls /\ poll \in Polls
      /\ b \in Nat /\ b \in Ops(poll) /\ b' = b + 1 /\ b < TotalOps[poll]
      /\ poll \in Nat
      /\ cumulative_adjustment \in Nat
      /\ cumulative_adjustment' = cumulative_adjustment + e2
      /\ Turn \in Nat \ {0}
  BY RolloverAssumption DEF AdjustBy, Visiting, IInv, TypeOK, Ops, Polls
<1>2. ASSUME NEW q \in Polls, NEW k \in Ops(q)
      PROVE  /\ first[q][k] \in Nat /\ last[q][k] \in Nat
             /\ msrdata[q][k] \in Nat /\ msrdata2[q][k] \in Nat
             /\ q \in Nat
             /\ k \in Nat /\ (k > 0 => k - 1 \in Ops(q))
             /\ used[q] \in Nat
  <2>1. /\ first[q][k] \in Nat /\ last[q][k] \in Nat
        /\ msrdata[q][k] \in Nat /\ msrdata2[q][k] \in Nat
        /\ used[q] \in Nat
    BY DEF IInv, TypeOK, IsReading
  <2>2. q \in Nat /\ k \in Nat /\ (k > 0 => k - 1 \in Ops(q))
    BY RolloverAssumption DEF Ops, Polls
  <2> QED
    BY <2>1, <2>2
<1>3. /\ msrdata' = [msrdata EXCEPT ![poll][b] = x]
      /\ msrdata2' = [msrdata2 EXCEPT ![poll][b] = x2]
      /\ x \in Nat /\ x2 \in Nat
  BY <1>1, <1>2 DEF AdjustBy, Adjusted, Adjusted2
<1> HIDE DEF x, x2
<1>4. ASSUME NEW q \in Polls, NEW k \in Ops(q)
      PROVE  /\ msrdata'[q][k] = IF q = poll /\ k = b THEN x ELSE msrdata[q][k]
             /\ msrdata2'[q][k] = IF q = poll /\ k = b THEN x2 ELSE msrdata2[q][k]
  BY <1>3 DEF IInv, TypeOK, IsReading
<1>5. TypeOK'
  <2>1. IsReading(msrdata)' /\ IsReading(msrdata2)'
    BY <1>3 DEF IInv, TypeOK, IsReading
  <2> QED
    BY <1>1, <2>1, RolloverAssumption DEF IInv, TypeOK, IsReading, hardware
<1>6. (LoopsStart /\ OnlyEnergy /\ Meters /\ Forward)'
  BY <1>1 DEF IInv, LoopsStart, OnlyEnergy, Meters, Forward, hardware, Ops
<1>7. Raw'
  <2> SUFFICES ASSUME NEW q \in Polls, NEW k \in Ops(q), k < used[q],
                      ~Handled(q, k)'
               PROVE  /\ msrdata'[q][k] < Turn /\ msrdata2'[q][k] < Turn
                      /\ Moved(last[q][k] - first[q][k], msrdata'[q][k],
                               msrdata2'[q][k])
                      /\ k > 0 /\ ~Handled(q, k - 1)' =>
                          Moved(first[q][k] - last[q][k - 1],
                                msrdata2'[q][k - 1], msrdata'[q][k])
    BY <1>1 DEF Raw, Moved, hardware
  <2>1. ~Handled(q, k) /\ ~(q = poll /\ k = b)
    BY <1>1, <1>2 DEF Handled
  <2>2. ~Handled(q, k - 1)' => ~Handled(q, k - 1) /\ ~(q = poll /\ k - 1 = b)
    BY <1>1, <1>2 DEF Handled
  <2> QED
    BY <1>2, <1>4, <2>1, <2>2 DEF IInv, Raw
<1>8. CASE b >= used[poll]
  <2>1. Seam'
    BY <1>1, <1>2, <1>8 DEF Seam, hardware
  <2>2. DeltasExact'
    <3> SUFFICES ASSUME NEW p \in EnergyPolls, NEW k \in Ops(p), Managed(p, k)'
                 PROVE  /\ msrdata'[p][k] - msrdata'[p][0] = first[p][k] - first[p][0]
                        /\ msrdata2'[p][k] - msrdata'[p][0] = last[p][k] - first[p][0]
      BY <1>1 DEF DeltasExact, hardware
    <3>1. p \in Polls /\ 0 \in Ops(p) /\ k < used[p]
      BY <1>1, <1>2, RolloverAssumption DEF Managed, Ops, hardware
    <3>2. ~(p = poll /\ k = b) /\ ~(p = poll /\ 0 = b)
      <4>1. k \in Nat /\ used[p] \in Nat
        BY <1>2, <3>1
      <4> QED
        BY <1>1, <1>8, <3>1, <4>1
    <3>3. Managed(p, k)
      BY <1>1, <1>2, <3>1, <3>2 DEF Managed, hardware
    <3> QED
      BY <1>4, <3>1, <3>2, <3>3 DEF IInv, DeltasExact
  <2> QED
    BY <1>5, <1>6, <1>7, <2>1, <2>2 DEF IInv
<1>9. CASE b < used[poll]
  <2> DEFINE d == first[poll][b] - last[poll][b - 1]
             d2 == last[poll][b] - first[poll][b]
             r == msrdata[poll][b]
             r2 == msrdata2[poll][b]
             before == msrdata2[poll][b - 1] - cumulative_adjustment
  <2>1. /\ r \in Nat /\ r2 \in Nat /\ r < Turn /\ r2 < Turn
        /\ d2 \in Nat /\ d2 < Turn
        /\ Moved(d2, r, r2)
    <3>1. ~Handled(poll, b)
      BY <1>1 DEF Handled
    <3> QED
      BY <1>1, <1>2, <1>9, <3>1 DEF IInv, Raw, Forward
  <2>2. b > 0 => /\ b - 1 \in Ops(poll)
                 /\ d \in Nat /\ d + d2 < Turn
                 /\ before \in Nat /\ before < Turn
                 /\ Moved(d, before, r)
                 /\ msrdata2[poll][b - 1] \in Nat
    BY <1>1, <1>2, <1>9 DEF IInv, Seam, Forward
  <2>3. /\ WithinOp <=> r2 < r
        /\ b > 0 => (BetweenOps <=> r < before)
        /\ b = 0 => ~BetweenOps
    BY <1>1, <1>2, <2>1, <2>2 DEF WithinOp, BetweenOps, Adjusted, Adjusted2
  <2>4. x = r + cumulative_adjustment + e /\ x2 = r2 + cumulative_adjustment + e2
    BY DEF x, x2, Adjusted, Adjusted2
  <2> HIDE DEF r, r2
  <2>5. x2 - x = d2
    BY <1>1, <2>1, <2>2, <2>3, <2>4 DEF Moved
  <2>6. b > 0 => x - msrdata2[poll][b - 1] = d
    BY <1>1, <2>1, <2>2, <2>3, <2>4 DEF Moved
  <2>7. Seam'
    <3> SUFFICES ASSUME b + 1 < used[poll]
                 PROVE  LET past == msrdata2'[poll][b] - (cumulative_adjustment + e2)
                        IN  /\ past >= 0 /\ past < Turn
                            /\ Moved(first[poll][b + 1] - last[poll][b], past,
                                     msrdata'[poll][b + 1])
      BY <1>1 DEF Seam, Moved, hardware
    <3>1. b + 1 \in Ops(poll)
      BY <1>1, RolloverAssumption DEF IInv, TypeOK, Ops
    <3>2. msrdata2'[poll][b] - (cumulative_adjustment + e2) = r2
      BY <1>1, <1>4, <2>1, <2>4
    <3>3. msrdata'[poll][b + 1] = msrdata[poll][b + 1]
      BY <1>1, <1>4, <3>1
    <3>4. ~Handled(poll, b + 1) /\ ~Handled(poll, (b + 1) - 1) /\ (b + 1) - 1 = b
          /\ b + 1 > 0
      BY <1>1 DEF Handled
    <3>5. Moved(first[poll][b + 1] - last[poll][b], r2, msrdata[poll][b + 1])
      BY <1>1, <3>1, <3>4 DEF IInv, Raw, r2
    <3> QED
      BY <2>1, <3>2, <3>3, <3>5
  <2>8. DeltasExact'
    <3> SUFFICES ASSUME NEW p \in EnergyPolls, NEW k \in Ops(p), Managed(p, k)'
                 PROVE  /\ msrdata'[p][k] - msrdata'[p][0] = first[p][k] - first[p][0]
                        /\ msrdata2'[p][k] - msrdata'[p][0] = last[p][k] - first[p][0]
      BY <1>1 DEF DeltasExact, hardware
    <3>1. p \in Polls /\ 0 \in Ops(p) /\ k < used[p] /\ k \in Nat
      BY <1>1, <1>2, RolloverAssumption DEF Managed, Ops, hardware
    <3>2. CASE p = poll /\ k = b
      <4>1. CASE b = 0
        <5>1. msrdata'[p][k] = x /\ msrdata2'[p][k] = x2 /\ k = 0
          BY <1>4, <3>1, <3>2, <4>1
        <5>2. first[p][k] \in Nat /\ last[p][k] \in Nat
          BY <1>2, <3>1
        <5> QED
          BY <1>3, <2>5, <3>2, <5>1, <5>2
      <4>2. CASE b > 0
        <5>1. Managed(poll, b - 1)
          BY <1>1, <1>2, <1>9 DEF Managed
        <5>2. msrdata2[poll][b - 1] - msrdata[poll][0]
                    = last[poll][b - 1] - first[poll][0]
          BY <1>1, <2>2, <4>2, <5>1 DEF IInv, DeltasExact
        <5>3. /\ msrdata'[p][k] = x /\ msrdata2'[p][k] = x2
              /\ msrdata'[p][0] = msrdata[p][0]
          BY <1>1, <1>4, <3>1, <3>2, <4>2
        <5>4. /\ msrdata[poll][0] \in Nat /\ first[poll][0] \in Nat
              /\ first[poll][b] \in Nat /\ last[poll][b] \in Nat
              /\ last[poll][b - 1] \in Nat
          BY <1>1, <1>2, <2>2, <3>1, <3>2, <4>2
        <5> QED
          <6> DEFINE f0 == first[poll][0]
                     m0 == msrdata[poll][0]
                     fb == first[poll][b]
                     lb == last[poll][b]
                     l1 == last[poll][b - 1]
                     m1 == msrdata2[poll][b - 1]
          <6>1. /\ f0 \in Nat /\ m0 \in Nat /\ fb \in Nat /\ lb \in Nat
                /\ l1 \in Nat /\ m1 \in Nat
                /\ m1 - m0 = l1 - f0
                /\ x2 - x = lb - fb
                /\ x - m1 = fb - l1
            BY <2>2, <2>5, <2>6, <4>2, <5>2, <5>4
          <6> HIDE DEF f0, m0, fb, lb, l1, m1
          <6>2. x - m0 = fb - f0 /\ x2 - m0 = lb - f0
            BY <1>3, <6>1
          <6> QED
            BY <3>2, <5>3, <6>2 DEF f0, m0, fb, lb
      <4> QED
        BY <1>1, <4>1, <4>2
    <3>3. CASE ~(p = poll /\ k = b)
      <4>1. Managed(p, k)
        BY <1>1, <1>2, <3>1, <3>3 DEF Managed, hardware
      <4>2. ~(p = poll /\ 0 = b)
        BY <1>1, <3>1, <4>1 DEF Managed
      <4> QED
        BY <1>4, <3>1, <3>3, <4>1, <4>2 DEF IInv, DeltasExact
    <3> QED
      BY <3>2, <3>3
  <2> QED
    BY <1>5, <1>6, <1>7, <2>7, <2>8 DEF IInv
<1>10. used[poll] \in Nat
  BY <1>1, <1>2
<1> QED
  BY <1>1, <1>8, <1>9, <1>10

-----------------------------------------------------------------------------
\* The next poll begins with what the one before has left behind.
LEMMA NextPollStep ==
    ASSUME IInv, NextPoll
    PROVE  IInv'
<1>1. /\ phase = "managing" /\ phase' = phase /\ UNCHANGED hardware
      /\ UNCHANGED <<msrdata, msrdata2, cumulative_adjustment>>
      /\ poll \in Polls /\ poll \in Nat /\ poll' = poll + 1 /\ b' = 0 /\ b \in Nat
      /\ poll \in EnergyPolls => b = TotalOps[poll]
  BY RolloverAssumption DEF NextPoll, IInv, TypeOK, Polls
<1>2. TypeOK'
  BY <1>1, RolloverAssumption, SMTT(30)
     DEF NextPoll, IInv, TypeOK, IsReading, Ops, Polls, hardware
<1>3. (LoopsStart /\ OnlyEnergy /\ Meters /\ Forward /\ Seam)'
  BY <1>1 DEF IInv, LoopsStart, OnlyEnergy, Meters, Forward, Seam, hardware, Ops
<1>4. ASSUME NEW p \in Polls, NEW k
      PROVE  Handled(p, k) => Handled(p, k)'
  BY <1>1 DEF Handled, Polls
<1>5. Raw'
  BY <1>1, <1>4 DEF IInv, Raw, hardware, Ops, Moved
<1>6. DeltasExact'
  <2>1. ASSUME NEW p \in EnergyPolls, NEW k \in Ops(p), Managed(p, k)'
        PROVE  Managed(p, k)
    BY <1>1, <2>1, RolloverAssumption DEF Managed, Ops, Polls, hardware
  <2> QED
    BY <1>1, <2>1 DEF IInv, DeltasExact, hardware, Ops
<1> QED
  BY <1>2, <1>3, <1>5, <1>6 DEF IInv

LEMMA PhaseStep ==
    ASSUME IInv, EndOfPolling \/ Finish \/ UNCHANGED vars
    PROVE  IInv'
<1>1. /\ UNCHANGED <<msrdata, msrdata2, loopVars, hardware>>
      /\ phase' \in {"polling", "managing", "done"}
      /\ phase' = "polling" => phase = "polling"
  BY DEF EndOfPolling, Finish, vars, IInv, TypeOK
<1> QED
  BY <1>1 DEF IInv, TypeOK, IsReading, LoopsStart, OnlyEnergy, Meters, Forward, Raw,
              Handled, Moved, Seam, DeltasExact, Managed, loopVars, hardware, Ops

\* The inductive invariant.
THEOREM Invariance == Spec => []IInv
<1>1. IInv /\ [Next]_vars => IInv'
  <2> SUFFICES ASSUME IInv, [Next]_vars PROVE IInv'
    OBVIOUS
  <2>1. CASE RolloverWithinOp
    BY <2>1, AdjustStep, RolloverAssumption DEF RolloverWithinOp
  <2>2. CASE RolloverBetweenOps
    BY <2>2, AdjustStep, RolloverAssumption DEF RolloverBetweenOps
  <2>3. CASE NoRollover
    BY <2>3, AdjustStep, RolloverAssumption DEF NoRollover
  <2> QED
    BY <2>1, <2>2, <2>3, SampleStep, NextPollStep, PhaseStep DEF Next, Done
<1> QED
  BY <1>1, InitHolds, PTL DEF Spec

\* Every variable keeps its type: the indices of the two loops of
\* manage_energy_rollover stay within the arrays.
THEOREM TypeCorrect == Spec => []TypeOK
<1>1. IInv => TypeOK
  BY DEF IInv
<1> QED
  BY <1>1, Invariance, PTL

\* After the pass the readings tell the energy that was used (msr_utils.c:647), for
\* any number of polls and ops, a register of any width, and any way the meters move,
\* as long as they move less than a turn from one op to the next.
THEOREM DeltasAreExact == Spec => []DeltasExact
<1>1. IInv => DeltasExact
  BY DEF IInv
<1> QED
  BY <1>1, Invariance, PTL

-----------------------------------------------------------------------------
(* Induction with a set for the predicate: on the naturals, and on the      *)
(* subsets of a finite set.                                                *)

LEMMA NaturalsBySteps ==
    ASSUME NEW G, 0 \in G, \A n \in Nat : n \in G => n + 1 \in G
    PROVE  \A n \in Nat : n \in G
<1> SUFFICES ASSUME Nat \ G # {} PROVE FALSE
  OBVIOUS
<1>1. PICK n \in Nat \ G : \A m \in Nat \ G : <<m, n>> \notin OpToRel(<, Nat)
  <2>1. Nat \ G \subseteq Nat
    OBVIOUS
  <2> QED
    BY <2>1, NatLessThanWellFounded, WFMin
<1>2. \A m \in Nat \ G : ~(m < n)
  BY <1>1 DEF OpToRel
<1>3. n # 0 /\ n - 1 \in Nat /\ (n - 1) + 1 = n
  OBVIOUS
<1>4. n - 1 \in G
  BY <1>2, <1>3
<1> QED
  BY <1>3, <1>4

LEMMA SubsetsByElements ==
    ASSUME NEW S, IsFiniteSet(S), NEW G,
           \A T \in SUBSET S : (\A x \in T : T \ {x} \in G) => T \in G
    PROVE  \A T \in SUBSET S : T \in G
<1> SUFFICES ASSUME (SUBSET S) \ G # {} PROVE FALSE
  OBVIOUS
<1>1. IsWellFoundedOn(StrictSubsetOrdering(S), SUBSET S)
  <2>1. FiniteSubsetsOf(S) = SUBSET S
    BY FS_FiniteSubsetsOfFinite
  <2>2. IsWellFoundedOn(StrictSubsetOrdering(S), FiniteSubsetsOf(S))
    BY FS_StrictSubsetOrderingWellFounded
  <2> QED
    BY <2>1, <2>2
<1>2. PICK T \in (SUBSET S) \ G :
        \A U \in (SUBSET S) \ G : <<U, T>> \notin StrictSubsetOrdering(S)
  <2>1. (SUBSET S) \ G \subseteq SUBSET S
    OBVIOUS
  <2> QED
    BY <1>1, <2>1, WFMin
<1>3. ASSUME NEW x \in T
      PROVE  T \ {x} \in G
  <2>1. <<T \ {x}, T>> \in StrictSubsetOrdering(S)
    BY DEF StrictSubsetOrdering
  <2> QED
    BY <1>2, <2>1
<1> QED
  BY <1>3

-----------------------------------------------------------------------------
(* Sums of the values of a function over a finite set.                     *)

Chosen(T) == CHOOSE x \in T : TRUE

SumsOver(g, fun, S) ==
    g = [T \in SUBSET S |->
            IF T = {} THEN 0 ELSE fun[Chosen(T)] + g[T \ {Chosen(T)}]]

LEMMA ChosenIsElement == \A T : T # {} => Chosen(T) \in T
  BY DEF Chosen

LEMMA SumsExist ==
    ASSUME NEW S, IsFiniteSet(S), NEW fun
    PROVE  \E g : SumsOver(g, fun, S)
<1> DEFINE Body(g, T) == IF T = {} THEN 0 ELSE fun[Chosen(T)] + g[T \ {Chosen(T)}]
           Holds(g, n) == \A T \in SUBSET S : Cardinality(T) <= n => g[T] = Body(g, T)
           G == {n \in Nat : \E g : Holds(g, n)}
<1>1. \A T \in SUBSET S : IsFiniteSet(T) /\ Cardinality(T) \in Nat
  BY FS_Subset, FS_CardinalityType
<1>2. 0 \in G
  <2>1. ASSUME NEW T \in SUBSET S, Cardinality(T) <= 0
        PROVE  T = {}
    BY <1>1, <2>1, FS_EmptySet
  <2>2. Holds([T \in SUBSET S |-> 0], 0)
    BY <2>1
  <2> QED
    BY <2>2
<1>3. ASSUME NEW n \in Nat, n \in G
      PROVE  n + 1 \in G
  <2>1. PICK g : Holds(g, n)
    BY <1>3
  <2> DEFINE h == [T \in SUBSET S |-> Body(g, T)]
  <2>2. ASSUME NEW T \in SUBSET S, Cardinality(T) <= n + 1, T # {}
        PROVE  h[T] = Body(h, T)
    <3> DEFINE U == T \ {Chosen(T)}
    <3>1. U \in SUBSET S /\ Cardinality(U) <= n
      BY <1>1, <2>2, FS_RemoveElement, ChosenIsElement
    <3>2. h[U] = g[U]
      BY <2>1, <3>1
    <3> QED
      BY <2>2, <3>2
  <2>3. Holds(h, n + 1)
    BY <2>2
  <2> HIDE DEF h, Holds
  <2> QED
    BY <2>3
<1> HIDE DEF G
<1>4. Cardinality(S) \in G
  BY <1>1, <1>2, <1>3, NaturalsBySteps
<1>5. PICK g : Holds(g, Cardinality(S))
  BY <1>4 DEF G
<1>6. \A T \in SUBSET S : g[T] = Body(g, T)
  <2>1. \A T \in SUBSET S : Cardinality(T) <= Cardinality(S)
    BY FS_Subset
  <2> QED
    BY <1>5, <2>1
<1> DEFINE h == [T \in SUBSET S |-> g[T]]
<1>7. \A T \in SUBSET S : Body(h, T) = Body(g, T)
  BY ChosenIsElement
<1>8. h = [T \in SUBSET S |-> Body(h, T)]
  BY <1>6, <1>7
<1> QED
  BY <1>8 DEF SumsOver

LEMMA SumIsOne ==
    ASSUME NEW S, IsFiniteSet(S), NEW fun
    PROVE  \E g : SumsOver(g, fun, S) /\ SumFunctionOnSet(fun, S) = g[S]
<1> DEFINE iter == CHOOSE g : SumsOver(g, fun, S)
<1>1. SumsOver(iter, fun, S)
  BY SumsExist
<1>2. SumFunctionOnSet(fun, S) = iter[S]
  BY DEF SumFunctionOnSet, FoldFunctionOnSet, MapThenFoldSet, SumsOver, Chosen
<1> QED
  BY <1>1, <1>2

LEMMA SumsAgree ==
    ASSUME NEW S, NEW T, IsFiniteSet(S), NEW f, NEW h, NEW g1, NEW g2,
           T \subseteq S, SumsOver(g1, f, S), SumsOver(g2, h, T),
           \A x \in T : f[x] = h[x]
    PROVE  g1[T] = g2[T]
<1> DEFINE G == {U \in SUBSET T : g1[U] = g2[U]}
<1>1. IsFiniteSet(T)
  BY FS_Subset
<1>2. ASSUME NEW U \in SUBSET T, \A x \in U : U \ {x} \in G
      PROVE  U \in G
  <2>1. CASE U = {}
    BY <2>1 DEF SumsOver
  <2>2. CASE U # {}
    <3> DEFINE c == Chosen(U)
    <3>1. c \in U /\ g1[U \ {c}] = g2[U \ {c}] /\ f[c] = h[c]
      BY <1>2, <2>2, ChosenIsElement
    <3>2. g1[U] = f[c] + g1[U \ {c}]
      BY <2>2 DEF SumsOver
    <3>3. g2[U] = h[c] + g2[U \ {c}]
      BY <2>2 DEF SumsOver
    <3> QED
      BY <3>1, <3>2, <3>3
  <2> QED
    BY <2>1, <2>2
<1> HIDE DEF G
<1>3. T \in G
  BY <1>1, <1>2, SubsetsByElements
<1> QED
  BY <1>3 DEF G

LEMMA SumOfNone == ASSUME NEW f PROVE SumFunctionOnSet(f, {}) = 0
<1>1. PICK g : SumsOver(g, f, {}) /\ SumFunctionOnSet(f, {}) = g[{}]
  BY SumIsOne, FS_EmptySet
<1> QED
  BY <1>1 DEF SumsOver

LEMMA SumAgrees ==
    ASSUME NEW S, IsFiniteSet(S), NEW f, NEW h, \A x \in S : f[x] = h[x]
    PROVE  SumFunctionOnSet(f, S) = SumFunctionOnSet(h, S)
<1>1. PICK g1 : SumsOver(g1, f, S) /\ SumFunctionOnSet(f, S) = g1[S]
  BY SumIsOne
<1>2. PICK g2 : SumsOver(g2, h, S) /\ SumFunctionOnSet(h, S) = g2[S]
  BY SumIsOne
<1> QED
  BY <1>1, <1>2, SumsAgree

LEMMA SumOfChosen ==
    ASSUME NEW S, IsFiniteSet(S), NEW f, S # {}
    PROVE  SumFunctionOnSet(f, S) = f[Chosen(S)] + SumFunctionOnSet(f, S \ {Chosen(S)})
<1> DEFINE T == S \ {Chosen(S)}
<1>1. IsFiniteSet(T)
  BY FS_Subset
<1>2. PICK g1 : SumsOver(g1, f, S) /\ SumFunctionOnSet(f, S) = g1[S]
  BY SumIsOne
<1>3. PICK g2 : SumsOver(g2, f, T) /\ SumFunctionOnSet(f, T) = g2[T]
  BY <1>1, SumIsOne
<1>4. g1[T] = g2[T]
  BY <1>2, <1>3, SumsAgree
<1>5. g1[S] = f[Chosen(S)] + g1[T]
  BY <1>2 DEF SumsOver
<1> QED
  BY <1>2, <1>3, <1>4, <1>5

LEMMA SumIsInt ==
    ASSUME NEW S, IsFiniteSet(S), NEW f, \A x \in S : f[x] \in Int
    PROVE  SumFunctionOnSet(f, S) \in Int
<1> DEFINE G == {T \in SUBSET S : SumFunctionOnSet(f, T) \in Int}
<1>1. ASSUME NEW T \in SUBSET S, \A x \in T : T \ {x} \in G
      PROVE  T \in G
  <2>1. CASE T = {}
    BY <2>1, SumOfNone
  <2>2. CASE T # {}
    <3>1. IsFiniteSet(T)
      BY FS_Subset
    <3>2. Chosen(T) \in T /\ SumFunctionOnSet(f, T \ {Chosen(T)}) \in Int
      BY <1>1, <2>2, ChosenIsElement
    <3>3. SumFunctionOnSet(f, T) = f[Chosen(T)] + SumFunctionOnSet(f, T \ {Chosen(T)})
      BY <2>2, <3>1, SumOfChosen
    <3> QED
      BY <3>2, <3>3
  <2> QED
    BY <2>1, <2>2
<1> HIDE DEF G
<1>2. \A T \in SUBSET S : T \in G
  BY <1>1, SubsetsByElements
<1> QED
  BY <1>2 DEF G

LEMMA SumOfZeroes ==
    ASSUME NEW S, IsFiniteSet(S), NEW f, \A x \in S : f[x] = 0
    PROVE  SumFunctionOnSet(f, S) = 0
<1> DEFINE G == {T \in SUBSET S : SumFunctionOnSet(f, T) = 0}
<1>1. ASSUME NEW T \in SUBSET S, \A x \in T : T \ {x} \in G
      PROVE  T \in G
  <2>1. CASE T = {}
    BY <2>1, SumOfNone
  <2>2. CASE T # {}
    <3>1. IsFiniteSet(T)
      BY FS_Subset
    <3>2. Chosen(T) \in T /\ SumFunctionOnSet(f, T \ {Chosen(T)}) = 0
      BY <1>1, <2>2, ChosenIsElement
    <3>3. SumFunctionOnSet(f, T) = f[Chosen(T)] + SumFunctionOnSet(f, T \ {Chosen(T)})
      BY <2>2, <3>1, SumOfChosen
    <3> QED
      BY <3>2, <3>3
  <2> QED
    BY <2>1, <2>2
<1> HIDE DEF G
<1>2. \A T \in SUBSET S : T \in G
  BY <1>1, SubsetsByElements
<1> QED
  BY <1>2 DEF G

\* It does not matter which element comes first.
LEMMA SumWithout ==
    ASSUME NEW S, IsFiniteSet(S), NEW f, \A x \in S : f[x] \in Int
    PROVE  \A x \in S :
            SumFunctionOnSet(f, S) = f[x] + SumFunctionOnSet(f, S \ {x})
<1> DEFINE Sum(T) == SumFunctionOnSet(f, T)
           G == {T \in SUBSET S : \A x \in T : Sum(T) = f[x] + Sum(T \ {x})}
<1>1. \A T \in SUBSET S : IsFiniteSet(T) /\ Sum(T) \in Int
  <2>1. \A T \in SUBSET S : IsFiniteSet(T)
    BY FS_Subset
  <2> QED
    BY <2>1, SumIsInt
<1>2. \A T \in SUBSET S : T # {} => Sum(T) = f[Chosen(T)] + Sum(T \ {Chosen(T)})
  BY <1>1, SumOfChosen
<1> HIDE DEF Sum
<1>3. ASSUME NEW T \in SUBSET S, \A x \in T : T \ {x} \in G
      PROVE  T \in G
  <2> SUFFICES ASSUME NEW x \in T
               PROVE  Sum(T) = f[x] + Sum(T \ {x})
    OBVIOUS
  <2> DEFINE c == Chosen(T)
  <2>1. c \in T /\ Sum(T) = f[c] + Sum(T \ {c})
    BY <1>2, ChosenIsElement
  <2> HIDE DEF c
  <2>2. CASE x # c
    <3>1. Sum(T \ {c}) = f[x] + Sum((T \ {c}) \ {x})
      BY <1>3, <2>1, <2>2
    <3>2. Sum(T \ {x}) = f[c] + Sum((T \ {c}) \ {x})
      <4>1. (T \ {x}) \ {c} = (T \ {c}) \ {x}
        OBVIOUS
      <4> QED
        BY <1>3, <2>1, <2>2, <4>1
    <3>3. Sum((T \ {c}) \ {x}) \in Int /\ f[x] \in Int /\ f[c] \in Int
      BY <1>1, <2>1
    <3> DEFINE rest == Sum((T \ {c}) \ {x})
    <3>4. Sum(T) = f[c] + (f[x] + rest) /\ Sum(T \ {x}) = f[c] + rest
      BY <2>1, <3>1, <3>2
    <3> HIDE DEF rest
    <3>5. f[c] + (f[x] + rest) = f[x] + (f[c] + rest)
      BY <3>3 DEF rest
    <3> QED
      BY <3>4, <3>5
  <2>3. CASE x = c
    BY <2>1, <2>3
  <2> QED
    BY <2>2, <2>3
<1> HIDE DEF G
<1>4. \A T \in SUBSET S : T \in G
  BY <1>3, SubsetsByElements
<1> QED
  BY <1>4 DEF G, Sum

\* Raising the values of some elements by the same amount.
Raised(h, f, S, E, n) ==
    \A x \in S : f[x] \in Int /\ h[x] = IF x \in E THEN f[x] + n ELSE f[x]

LEMMA SumRaised ==
    ASSUME NEW S, IsFiniteSet(S), NEW f, NEW h, NEW E, NEW n \in Int,
           Raised(h, f, S, E, n)
    PROVE  SumFunctionOnSet(h, S)
            = SumFunctionOnSet(f, S) + Cardinality(S \cap E) * n
<1> USE DEF Raised
<1> DEFINE Sum(fun, T) == SumFunctionOnSet(fun, T)
           G == {T \in SUBSET S : Sum(h, T) = Sum(f, T) + Cardinality(T \cap E) * n}
<1>1. \A T \in SUBSET S : IsFiniteSet(T)
  BY FS_Subset
<1>2. \A x \in S : h[x] \in Int
  OBVIOUS
<1>3. ASSUME NEW T \in SUBSET S
      PROVE  /\ Sum(f, T) \in Int
             /\ \A x \in T : /\ Sum(f, T) = f[x] + Sum(f, T \ {x})
                             /\ Sum(h, T) = h[x] + Sum(h, T \ {x})
             /\ IsFiniteSet(T \cap E) /\ Cardinality(T \cap E) \in Nat
  <2>1. IsFiniteSet(T)
    BY <1>1
  <2>2. IsFiniteSet(T \cap E)
    BY <1>1
  <2>3. Cardinality(T \cap E) \in Nat
    BY <2>2, FS_CardinalityType
  <2>4. Sum(f, T) \in Int /\ \A x \in T : Sum(f, T) = f[x] + Sum(f, T \ {x})
    BY <2>1, SumIsInt, SumWithout
  <2>5. \A x \in T : Sum(h, T) = h[x] + Sum(h, T \ {x})
    BY <1>2, <2>1, SumWithout
  <2> QED
    BY <2>2, <2>3, <2>4, <2>5
<1>4. Sum(f, {}) = 0 /\ Sum(h, {}) = 0
  BY SumOfNone
<1> HIDE DEF Sum
<1>5. ASSUME NEW T \in SUBSET S, \A x \in T : T \ {x} \in G
      PROVE  T \in G
  <2>1. CASE T = {}
    <3>1. T \cap E = {} /\ Cardinality({}) = 0
      BY <2>1, FS_EmptySet
    <3> QED
      BY <1>4, <2>1, <3>1
  <2>2. CASE T # {}
    <3>1. PICK x \in T : TRUE
      BY <2>2
    <3> DEFINE U == T \ {x}
               k == Cardinality(U \cap E)
    <3>2. Sum(h, U) = Sum(f, U) + k * n
      BY <1>5
    <3>3. Sum(f, T) = f[x] + Sum(f, U) /\ Sum(h, T) = h[x] + Sum(h, U)
      BY <1>3
    <3>4. k \in Nat /\ Sum(f, U) \in Int /\ f[x] \in Int /\ IsFiniteSet(U \cap E)
      BY <1>3
    <3>5. Cardinality(T \cap E) = IF x \in E THEN k + 1 ELSE k
      <4>1. CASE x \in E
        <5>1. T \cap E = (U \cap E) \cup {x} /\ x \notin U \cap E
          BY <4>1
        <5> QED
          BY <3>4, <4>1, <5>1, FS_AddElement
      <4>2. CASE x \notin E
        <5>1. T \cap E = U \cap E
          BY <4>2
        <5> QED
          BY <4>2, <5>1
      <4> QED
        BY <4>1, <4>2
    <3> HIDE DEF U, k
    <3>6. (k + 1) * n = k * n + n /\ k * n \in Int
      BY <3>4
    <3>7. Sum(h, T) = Sum(f, T) + Cardinality(T \cap E) * n
      <4>1. CASE x \in E
        <5>1. h[x] = f[x] + n
          BY <4>1
        <5> QED
          BY <3>2, <3>3, <3>4, <3>5, <3>6, <4>1, <5>1
      <4>2. CASE x \notin E
        <5>1. h[x] = f[x]
          BY <4>2
        <5> QED
          BY <3>2, <3>3, <3>4, <3>5, <3>6, <4>2, <5>1
      <4> QED
        BY <4>1, <4>2
    <3> QED
      BY <3>7
  <2> QED
    BY <2>1, <2>2
<1> HIDE DEF G
<1>6. \A T \in SUBSET S : T \in G
  BY <1>5, SubsetsByElements
<1> QED
  BY <1>6 DEF G, Sum

-----------------------------------------------------------------------------
(* Dump.  Every step of it is a step of Rollover, or leaves its state alone. *)

allVars == <<vars, dumpVars>>

LEMMA RolloverStep ==
    ASSUME [DumpNext]_allVars
    PROVE  [Next]_vars
BY DEF DumpNext, allVars, Begin, SkipInvalid, Vote, VoteWeighing, EndVote, CloseVote,
       OpenRows, Row, RowAfter, CloseRows, Over

\* dump_batches writes what the pass over the energy readings has left, and changes
\* none of it (msr_utils.c:737-915): Dump implements Rollover.
THEOREM DumpIsRollover == DumpSpec => Spec
<1>1. DumpInit => Init
  BY DEF DumpInit
<1> QED
  BY <1>1, RolloverStep, PTL DEF DumpSpec, Spec, allVars

AllManaged == phase = "done" => poll = PollCount

LEMMA AllAreManaged == Spec => []AllManaged
<1>1. Init => AllManaged
  BY DEF Init, AllManaged
<1>2. AllManaged /\ [Next]_vars => AllManaged'
  BY DEF AllManaged, vars, loopVars, Next, Sample, EndOfPolling, NextPoll, Visiting,
         RolloverWithinOp, RolloverBetweenOps, NoRollover, AdjustBy, Finish, Done
<1> QED
  BY <1>1, <1>2, PTL DEF Spec

-----------------------------------------------------------------------------
(* The inductive invariant of Dump, over that of Rollover.                 *)

DumpTypeOK ==
    /\ dpc \in {"wait", "vote", "voted", "poll", "rows", "aborted"}
    /\ i \in 0 .. PollCount /\ o \in Nat
    /\ v \in [Bits -> Int] /\ shown.vote \in [Bits -> Int] /\ shown.op \in Int

\* The dump begins when the pass is over.
AfterThePass ==
    /\ dpc # "wait" => phase = "done"
    /\ dpc = "wait" =>
        i = 0 /\ o = 0 /\ v = NoVotes /\ spoilt = {} /\ shown = None /\ counted = {}

\* The votes are forgotten before the rows.
NoneLeft == dpc \in {"poll", "rows"} => counted = {} /\ shown = None

\* The ops behind the vote, and behind the last line of the file, are used ones
\* that the vote has passed.
Passed ==
    /\ \A op \in counted : op \in Nat /\ op < o /\ op < used[0]
    /\ shown.op < o

Votes ==
    /\ LowerVotes(v) = Parts * EnergyUpTo(TotalOps[0])
    /\ LowerVotes(shown.vote) = Parts * EnergyUpTo(shown.op)
    /\ \A j \in spoilt : j >= CountedBits

\* The rows written so far go from the first op to this one.
UpTo == IF used[i] < o THEN used[i] - 1 ELSE o - 1

Rows ==
    dpc = "rows" =>
        /\ i < PollCount /\ o >= 1 /\ o <= TotalOps[i]
        /\ therm \in Nat /\ therm0 \in Nat /\ delta \in Int
        /\ warming = therm \div 2 - therm0 \div 2
        /\ used[i] > 0 => delta = msrdata[i][UpTo] - msrdata[i][0]

DInv == DumpTypeOK /\ AfterThePass /\ NoneLeft /\ Passed /\ Votes /\ Rows

-----------------------------------------------------------------------------
LEMMA LowerBits ==
    /\ IsFiniteSet(0 .. CountedBits - 1) /\ Cardinality(0 .. CountedBits - 1) = CountedBits
    /\ 0 .. CountedBits - 1 \subseteq Bits
    /\ CountedBits \in Nat \ {0} /\ OutputBits \in Nat
<1>1. CountedBits \in Nat \ {0} /\ OutputBits \in Nat /\ CountedBits <= OutputBits
  BY DumpAssumption
<1>2. 0 .. CountedBits - 1 \subseteq Bits
  BY <1>1 DEF Bits
<1>3. IsFiniteSet(0 .. CountedBits - 1)
  BY <1>1, FS_Interval
<1>4. Cardinality(0 .. CountedBits - 1) = CountedBits
  BY <1>1, FS_Interval
<1> QED
  BY <1>1, <1>2, <1>3, <1>4

LEMMA EnergyOfNone ==
    ASSUME NEW n, counted = {}
    PROVE  EnergyUpTo(n) = 0
<1>1. EnergyUpTo(n)
        = SumFunctionOnSet([op \in {} |-> last[0][op] - first[0][op]], {})
  BY DEF EnergyUpTo, SumFunction
<1> QED
  BY <1>1, SumOfNone

\* Without votes there is no energy to account for.
Blank == v = NoVotes /\ spoilt = {} /\ shown = None /\ counted = {} /\ o \in Nat

LEMMA NothingVoted == Blank => Passed /\ Votes
<1> SUFFICES ASSUME Blank PROVE Passed /\ Votes
  OBVIOUS
<1> USE DEF Blank
<1>1. /\ shown.vote = NoVotes /\ shown.op = -1
      /\ \A j \in Bits : NoVotes[j] = 0
  BY DEF NoVotes, None
<1>2. LowerVotes(NoVotes) = 0
  BY <1>1, LowerBits, SumOfZeroes DEF LowerVotes
<1>3. Parts \in Nat
  BY DumpAssumption
<1>4. Passed
  BY <1>1 DEF Passed
<1> QED
  BY <1>1, <1>2, <1>3, <1>4, EnergyOfNone DEF Votes

LEMMA DumpInitHolds == DumpInit => DInv
<1> SUFFICES ASSUME DumpInit PROVE DInv
  OBVIOUS
<1>1. PollCount \in Nat
  BY RolloverAssumption
<1>2. DumpTypeOK /\ AfterThePass /\ NoneLeft /\ Rows
  BY <1>1 DEF DumpInit, DumpTypeOK, AfterThePass, NoneLeft, Rows, NoVotes, None
<1>3. Passed /\ Votes
  BY NothingVoted DEF DumpInit, Blank
<1> QED
  BY <1>2, <1>3 DEF DInv

-----------------------------------------------------------------------------
\* Before the dump.
LEMMA RolloverStepHolds ==
    ASSUME DInv, Next, phase # "done", UNCHANGED dumpVars
    PROVE  DInv'
<1>1. /\ dpc = "wait" /\ UNCHANGED <<dpc, i, o, v, spoilt, shown, counted>>
  BY DEF DInv, AfterThePass, dumpVars, voteVars
<1>2. DumpTypeOK' /\ AfterThePass' /\ NoneLeft' /\ Rows'
  BY <1>1 DEF DInv, DumpTypeOK, AfterThePass, NoneLeft, Rows, NoVotes, None
<1>3. Blank /\ Blank'
  BY <1>1 DEF DInv, DumpTypeOK, AfterThePass, Blank, NoVotes, None
<1>4. Blank' => Passed' /\ Votes'
  BY NothingVoted, PTL
<1> QED
  BY <1>2, <1>3, <1>4 DEF DInv

-----------------------------------------------------------------------------
(* The vote.                                                               *)

\* What an op adds to the energy of those that have voted.
LEMMA EnergyOfOneMore ==
    ASSUME IInv, DInv, Used(0, o), UNCHANGED vars, counted' = counted \cup {o}
    PROVE  /\ EnergyUpTo(TotalOps[0]) \in Int
           /\ EnergyUpTo(TotalOps[0])'
                = EnergyUpTo(TotalOps[0]) + (last[0][o] - first[0][o])
           /\ \A n \in Int : n >= o => EnergyUpTo(n)' = EnergyUpTo(TotalOps[0])'
           /\ \A n \in Int : n < o => EnergyUpTo(n)' = EnergyUpTo(n)
<1> DEFINE e == [op \in Ops(0) |-> last[0][op] - first[0][op]]
<1>1. 0 \in Polls /\ TotalOps[0] \in Nat /\ o \in Nat /\ o \in Ops(0) /\ o < TotalOps[0]
      /\ used[0] \in Nat /\ used[0] <= TotalOps[0]
  BY RolloverAssumption, DumpAssumption DEF Polls, DInv, DumpTypeOK, Used, Ops, IInv, TypeOK
<1>2. counted \subseteq Ops(0) /\ \A op \in counted : op < o /\ op \in Nat
  BY <1>1 DEF DInv, Passed, Ops
<1>3. \A op \in Ops(0) : e[op] = last[0][op] - first[0][op] /\ e[op] \in Int
  BY <1>1 DEF IInv, TypeOK, IsReading
<1>4. IsFiniteSet(Ops(0))
  <2>1. TotalOps[0] - 1 \in Int
    BY <1>1
  <2> QED
    BY <2>1, FS_Interval DEF Ops
<1> HIDE DEF e
<1>5. ASSUME NEW C \in SUBSET Ops(0)
      PROVE  SumFunction([op \in C |-> last[0][op] - first[0][op]]) = SumFunctionOnSet(e, C)
  <2> DEFINE f == [op \in C |-> last[0][op] - first[0][op]]
  <2>1. IsFiniteSet(C)
    BY <1>4, FS_Subset
  <2>2. DOMAIN f = C /\ \A op \in C : f[op] = e[op]
    BY <1>3
  <2> HIDE DEF f
  <2>3. SumFunctionOnSet(f, C) = SumFunctionOnSet(e, C)
    BY <2>1, <2>2, SumAgrees
  <2> QED
    BY <2>2, <2>3 DEF SumFunction, f
<1> DEFINE Upto(C, n) == {op \in C : op <= n}
<1>6. ASSUME NEW n
      PROVE  /\ EnergyUpTo(n) = SumFunctionOnSet(e, Upto(counted, n))
             /\ EnergyUpTo(n)' = SumFunctionOnSet(e, Upto(counted \cup {o}, n))
  <2>1. Upto(counted, n) \in SUBSET Ops(0) /\ Upto(counted \cup {o}, n) \in SUBSET Ops(0)
    BY <1>1, <1>2
  <2>2. EnergyUpTo(n) = SumFunction([op \in Upto(counted, n) |-> last[0][op] - first[0][op]])
    BY DEF EnergyUpTo
  <2>3. EnergyUpTo(n)'
          = SumFunction([op \in Upto(counted \cup {o}, n) |-> last[0][op] - first[0][op]])
    BY DEF EnergyUpTo, vars, hardware
  <2> QED
    BY <1>5, <2>1, <2>2, <2>3
<1>7. /\ Upto(counted, TotalOps[0]) = counted
      /\ Upto(counted \cup {o}, TotalOps[0]) = counted \cup {o}
      /\ \A n \in Int : n >= o => Upto(counted \cup {o}, n) = counted \cup {o}
      /\ \A n \in Int : n < o => Upto(counted \cup {o}, n) = Upto(counted, n)
  <2>1. \A op \in counted \cup {o} : op <= o /\ op <= TotalOps[0]
    BY <1>1, <1>2
  <2>2. \A n \in Int : n < o => ~(o <= n)
    BY <1>1
  <2>3. \A n \in Int : n >= o => \A op \in counted \cup {o} : op <= n
    BY <1>1, <1>2
  <2> QED
    BY <2>1, <2>2, <2>3
<1>8. SumFunctionOnSet(e, counted) \in Int
  <2>1. IsFiniteSet(counted) /\ \A op \in counted : e[op] \in Int
    BY <1>2, <1>3, <1>4, FS_Subset
  <2> QED
    BY <2>1, SumIsInt
<1>9. SumFunctionOnSet(e, counted \cup {o})
        = SumFunctionOnSet(e, counted) + (last[0][o] - first[0][o])
  <2> DEFINE S == counted \cup {o}
  <2>1. IsFiniteSet(S) /\ \A op \in S : e[op] \in Int
    BY <1>1, <1>2, <1>3, <1>4, FS_Subset
  <2>2. S \ {o} = counted /\ o \in S
    BY <1>2, <1>1
  <2>3. SumFunctionOnSet(e, S) = e[o] + SumFunctionOnSet(e, S \ {o})
    BY <2>1, <2>2, SumWithout
  <2>5. e[o] = last[0][o] - first[0][o] /\ last[0][o] \in Nat /\ first[0][o] \in Nat
    BY <1>1, <1>3 DEF IInv, TypeOK, IsReading
  <2>6. SumFunctionOnSet(e, S) = e[o] + SumFunctionOnSet(e, counted)
    BY <2>2, <2>3
  <2> HIDE DEF S
  <2>7. SumFunctionOnSet(e, S) = SumFunctionOnSet(e, counted) + (last[0][o] - first[0][o])
    BY <1>8, <2>5, <2>6
  <2> QED
    BY <2>7 DEF S
<1> HIDE DEF Upto
<1>10. \A n \in Int : n < o => EnergyUpTo(n)' = EnergyUpTo(n)
  BY <1>6, <1>7
<1>11. \A n \in Int : n >= o => EnergyUpTo(n)' = SumFunctionOnSet(e, counted \cup {o})
  BY <1>6, <1>7
<1>12. EnergyUpTo(TotalOps[0])' = SumFunctionOnSet(e, counted \cup {o})
  BY <1>6, <1>7
<1>13. EnergyUpTo(TotalOps[0]) = SumFunctionOnSet(e, counted)
  BY <1>6, <1>7
<1> QED
  BY <1>9, <1>10, <1>11, <1>12, <1>13, <1>8

LEMMA MultipleDivided ==
    ASSUME NEW a \in Nat, NEW w \in Nat \ {0}
    PROVE  (w * a) \div w = a
<1>1. (w * a) \div w \in Int /\ w * a \in Int
  BY SMT
<1> QED
  BY <1>1, SMT

\* The votes of an output are worth the energy of its op.
LEMMA VotesOfOneMore ==
    ASSUME IInv, DInv, Used(0, o), phase = "done", AllManaged,
           NEW enc \in Encodings, Weight(enc) # 0,
           v' = [j \in Bits |-> IF j \in enc THEN v[j] + fJ(0, o) * (Parts \div Weight(enc))
                                ELSE v[j]]
    PROVE  /\ v' \in [Bits -> Int]
           /\ LowerVotes(v') = LowerVotes(v) + Parts * (last[0][o] - first[0][o])
           /\ LowerVotes(v) \in Int /\ last[0][o] - first[0][o] \in Int
<1> DEFINE S == 0 .. CountedBits - 1
           w == Weight(enc)
           n == fJ(0, o)
<1>1. n = last[0][o] - first[0][o] /\ n \in Int
  <2>1. 0 \in EnergyPolls /\ 0 \in Polls /\ o \in Ops(0) /\ 0 \in Ops(0) /\ o < used[0]
    BY RolloverAssumption, DumpAssumption
       DEF Polls, DInv, DumpTypeOK, Used, Ops, IInv, TypeOK
  <2>2. Managed(0, o)
    BY <2>1, RolloverAssumption, DumpAssumption DEF AllManaged, Managed
  <2>3. /\ msrdata[0][o] - msrdata[0][0] = first[0][o] - first[0][0]
        /\ msrdata2[0][o] - msrdata[0][0] = last[0][o] - first[0][0]
    BY <2>1, <2>2 DEF IInv, DeltasExact
  <2>4. /\ msrdata[0][o] \in Nat /\ msrdata[0][0] \in Nat /\ msrdata2[0][o] \in Nat
        /\ first[0][o] \in Nat /\ first[0][0] \in Nat /\ last[0][o] \in Nat
    BY <2>1 DEF IInv, TypeOK, IsReading
  <2>5. msrdata2[0][o] - msrdata[0][o] = last[0][o] - first[0][o]
    BY <2>3, <2>4
  <2> QED
    BY <2>4, <2>5 DEF fJ
<1>2. enc \subseteq Bits /\ S \cap enc = Counted(enc)
  <2>1. enc \subseteq Bits
    BY DumpAssumption
  <2> QED
    <3>1. \A j \in Bits : j < CountedBits <=> j \in 0 .. CountedBits - 1
      BY LowerBits DEF Bits
    <3> QED
      BY <2>1, <3>1, LowerBits DEF Counted
<1>3. w \in 1 .. CountedBits
  <2>1. w = Cardinality(S \cap enc)
    BY <1>2 DEF Weight
  <2>2. IsFiniteSet(S \cap enc) /\ Cardinality(S \cap enc) <= CountedBits
    BY LowerBits, FS_Subset
  <2>3. Cardinality(S \cap enc) \in Nat
    BY <2>2, FS_CardinalityType
  <2> QED
    BY <2>1, <2>2, <2>3, LowerBits
<1>4. PICK share \in Nat : Parts = w * share /\ Parts \div w = share
  <2>1. PICK share \in 1 .. Parts : Parts = w * share
    BY <1>3, DumpAssumption
  <2>2. (w * share) \div w = share
    BY <1>3, <2>1, DumpAssumption, LowerBits, MultipleDivided
  <2> QED
    BY <2>1, <2>2, DumpAssumption
<1> HIDE DEF w, n
<1>5. PICK m \in Int : m = n * share
  BY <1>1, <1>4
<1>6. v' = [j \in Bits |-> IF j \in enc THEN v[j] + m ELSE v[j]]
  BY <1>4, <1>5 DEF w, n
<1>7. \A j \in Bits : v[j] \in Int
  BY DEF DInv, DumpTypeOK
<1>8. SumFunctionOnSet(v', S)
        = SumFunctionOnSet(v, S) + Cardinality(S \cap enc) * m
  <2>1. Raised(v', v, S, enc, m)
    BY <1>6, <1>7, LowerBits DEF Raised
  <2>2. IsFiniteSet(S)
    BY LowerBits
  <2> HIDE DEF S
  <2> QED
    BY <2>1, <2>2, SumRaised
<1>9. Cardinality(S \cap enc) = w
  BY <1>2 DEF Weight, w
<1>10. w * m = Parts * n
  <2>1. w \in Nat
    BY <1>3, LowerBits
  <2> QED
    BY <1>1, <1>4, <1>5, <2>1
<1>11. v' \in [Bits -> Int]
  BY <1>5, <1>6, <1>7
<1>12. LowerVotes(v) \in Int
  BY <1>7, LowerBits, SumIsInt DEF LowerVotes
<1> QED
  BY <1>1, <1>8, <1>9, <1>10, <1>11, <1>12 DEF LowerVotes

\* An output whose lower half is empty is divided by 0, and its op is not counted.
LEMMA VoteStep ==
    ASSUME IInv, AllManaged, DInv, Vote
    PROVE  DInv'
<1>1. PICK enc \in Encodings :
        /\ IF Weight(enc) = 0
           THEN /\ spoilt' = spoilt \cup enc
                /\ v' = v
           ELSE /\ v' = [j \in Bits |->
                          IF j \in enc THEN v[j] + fJ(0, o) * (Parts \div Weight(enc))
                          ELSE v[j]]
                /\ spoilt' = spoilt
        /\ counted' = IF Counted(enc) # {} THEN counted \cup {o} ELSE counted
  BY DEF Vote, VoteWeighing
<1>2. /\ dpc = "vote" /\ dpc' = dpc /\ Used(0, o) /\ o' = o + 1
      /\ shown' = IF o % Lines = 0 THEN [op |-> o, vote |-> v'] ELSE shown
      /\ UNCHANGED <<vars, i, rowVars>>
      /\ phase = "done" /\ phase' = phase
      /\ used' = used /\ o \in Nat /\ o < used[0]
  BY DEF Vote, VoteWeighing, Used, vars, hardware, DInv, AfterThePass, DumpTypeOK
<1>3. TotalOps[0] \in Nat /\ o <= TotalOps[0] /\ Parts \in Nat
      /\ shown.op \in Int /\ shown.op < o
  BY <1>2, RolloverAssumption, DumpAssumption
     DEF Used, DInv, DumpTypeOK, Passed, Polls
<1>4. enc \subseteq Bits
  BY DumpAssumption
<1>5. CASE Weight(enc) = 0
  <2>1. Counted(enc) = {}
    <3>1. IsFiniteSet(Counted(enc))
      <4>1. Counted(enc) \subseteq 0 .. CountedBits - 1
        <5>1. \A j \in Bits : j < CountedBits => j \in 0 .. CountedBits - 1
          BY LowerBits DEF Bits
        <5> QED
          BY <1>4, <5>1 DEF Counted
      <4> QED
        BY <4>1, LowerBits, FS_Subset
    <3> QED
      BY <1>5, <3>1, FS_EmptySet DEF Weight
  <2>2. v' = v /\ counted' = counted
    BY <1>1, <1>5, <2>1
  <2>3. \A n : EnergyUpTo(n)' = EnergyUpTo(n)
    BY <1>2, <2>2 DEF EnergyUpTo, vars, hardware
  <2>4. \A n \in Int : n >= o => EnergyUpTo(n) = EnergyUpTo(TotalOps[0])
    <3>1. ASSUME NEW n \in Int, n >= o
          PROVE  {op \in counted : op <= n} = {op \in counted : op <= TotalOps[0]}
      BY <1>2, <1>3, <3>1 DEF DInv, Passed
    <3> QED
      BY <3>1 DEF EnergyUpTo
  <2>5. Votes'
    <3>1. \A j \in spoilt' : j >= CountedBits
      <4>1. \A j \in enc : j >= CountedBits
        BY <1>4, <2>1, LowerBits DEF Counted, Bits
      <4> QED
        BY <1>1, <1>5, <4>1 DEF DInv, Votes
    <3>2. LowerVotes(v)' = Parts * EnergyUpTo(TotalOps[0])'
      BY <2>2, <2>3 DEF DInv, Votes, LowerVotes
    <3>3. LowerVotes(shown.vote)' = Parts * EnergyUpTo(shown.op)'
      <4>1. CASE shown' = shown
        BY <2>3, <4>1 DEF DInv, Votes, LowerVotes
      <4>2. CASE shown' = [op |-> o, vote |-> v']
        <5>1. shown'.op = o /\ shown'.vote = v
          BY <2>2, <4>2
        <5>2. EnergyUpTo(shown.op)' = EnergyUpTo(o)
          BY <1>2, <2>2, <5>1 DEF EnergyUpTo, vars, hardware
        <5> QED
          BY <1>2, <2>4, <5>1, <5>2 DEF DInv, Votes, LowerVotes
      <4> QED
        BY <1>2, <4>1, <4>2
    <3> QED
      BY <3>1, <3>2, <3>3 DEF Votes
  <2>6. DumpTypeOK'
    BY <1>2, <2>2 DEF DInv, DumpTypeOK
  <2>7. Passed'
    BY <1>2, <1>3, <2>2 DEF DInv, Passed
  <2> QED
    BY <1>2, <2>5, <2>6, <2>7 DEF DInv, AfterThePass, NoneLeft, Rows
<1>6. CASE Weight(enc) # 0
  <2>1. counted' = counted \cup {o} /\ spoilt' = spoilt
    <3>1. Counted(enc) # {}
      BY <1>6, FS_EmptySet DEF Weight
    <3> QED
      BY <1>1, <1>6, <3>1
  <2>2. /\ v' \in [Bits -> Int]
        /\ LowerVotes(v') = LowerVotes(v) + Parts * (last[0][o] - first[0][o])
        /\ LowerVotes(v) \in Int /\ last[0][o] - first[0][o] \in Int
    BY <1>1, <1>2, <1>6, VotesOfOneMore
  <2>3. /\ EnergyUpTo(TotalOps[0]) \in Int
        /\ EnergyUpTo(TotalOps[0])'
                = EnergyUpTo(TotalOps[0]) + (last[0][o] - first[0][o])
        /\ \A n \in Int : n >= o => EnergyUpTo(n)' = EnergyUpTo(TotalOps[0])'
        /\ \A n \in Int : n < o => EnergyUpTo(n)' = EnergyUpTo(n)
    BY <1>2, <2>1, EnergyOfOneMore
  <2>4. LowerVotes(v)' = Parts * EnergyUpTo(TotalOps[0])'
    <3>1. PICK total \in Int : total = EnergyUpTo(TotalOps[0])
      BY <2>3
    <3>2. PICK more \in Int : more = last[0][o] - first[0][o]
      BY <2>2
    <3>3. LowerVotes(v)' = Parts * total + Parts * more
      BY <2>2, <3>1, <3>2 DEF DInv, Votes, LowerVotes
    <3>4. Parts * total + Parts * more = Parts * (total + more)
      BY <1>3, <3>1, <3>2
    <3> QED
      BY <2>3, <3>1, <3>2, <3>3, <3>4
  <2>5. Votes'
    <3>1. LowerVotes(shown.vote)' = Parts * EnergyUpTo(shown.op)'
      <4>1. CASE shown' = shown
        <5>1. PICK n \in Int : n = shown.op /\ n < o
          BY <1>3
        <5>2. EnergyUpTo(n)' = EnergyUpTo(n)
          BY <2>3, <5>1
        <5>3. EnergyUpTo(shown.op)' = EnergyUpTo(n)'
          BY <4>1, <5>1
        <5>4. LowerVotes(shown.vote)' = LowerVotes(shown.vote)
          BY <4>1 DEF LowerVotes
        <5> QED
          BY <5>1, <5>2, <5>3, <5>4 DEF DInv, Votes
      <4>2. CASE shown' = [op |-> o, vote |-> v']
        <5>1. PICK n \in Int : n = o
          BY <1>2
        <5>2. EnergyUpTo(shown.op)' = EnergyUpTo(n)'
          BY <4>2, <5>1
        <5>3. EnergyUpTo(n)' = EnergyUpTo(TotalOps[0])'
          BY <2>3, <5>1
        <5>4. LowerVotes(shown.vote)' = LowerVotes(v)'
          BY <4>2 DEF LowerVotes
        <5> QED
          BY <2>4, <5>2, <5>3, <5>4
      <4> QED
        BY <1>2, <4>1, <4>2
    <3> QED
      BY <2>1, <2>4, <3>1 DEF DInv, Votes
  <2>6. DumpTypeOK'
    BY <1>2, <2>2 DEF DInv, DumpTypeOK
  <2>7. Passed'
    BY <1>2, <1>3, <2>1 DEF DInv, Passed
  <2> QED
    BY <1>2, <2>5, <2>6, <2>7 DEF DInv, AfterThePass, NoneLeft, Rows
<1> QED
  BY <1>5, <1>6

LEMMA SkipInvalidStep ==
    ASSUME IInv, DInv, SkipInvalid
    PROVE  DInv'
<1>1. /\ dpc = "vote" /\ dpc' = dpc /\ o' = o + 1 /\ o \in Nat
      /\ UNCHANGED <<vars, i, v, spoilt, shown, counted>>
      /\ used' = used /\ phase' = phase
  BY DEF SkipInvalid, DInv, DumpTypeOK, vars, hardware, voteVars
<1>2. Votes'
  BY <1>1 DEF DInv, Votes, LowerVotes, EnergyUpTo, vars, hardware
<1>3. Passed'
  BY <1>1 DEF DInv, DumpTypeOK, Passed
<1> QED
  BY <1>1, <1>2, <1>3 DEF DInv, DumpTypeOK, AfterThePass, NoneLeft, Rows

LEMMA CloseVoteStep ==
    ASSUME DInv, CloseVote
    PROVE  DInv'
<1>1. Blank' /\ dpc' = "poll" /\ i' = i /\ dpc = "voted" /\ phase' = phase
  BY DEF CloseVote, Blank, vars, NoVotes, None
<1>2. Blank' => Passed' /\ Votes'
  BY NothingVoted, PTL
<1>3. DumpTypeOK' /\ AfterThePass' /\ NoneLeft' /\ Rows'
  BY <1>1
     DEF DInv, DumpTypeOK, AfterThePass, NoneLeft, Rows, Blank, NoVotes, None
<1> QED
  BY <1>1, <1>2, <1>3 DEF DInv

\* Begin and EndVote leave the vote as it is.
LEMMA TurnOfTheVote ==
    ASSUME DInv, Begin \/ EndVote
    PROVE  DInv'
<1>1. /\ UNCHANGED <<vars, i, o, v, spoilt, shown, counted>>
      /\ phase = "done" /\ phase' = phase /\ dpc' \in {"vote", "voted"}
  BY DEF Begin, EndVote, DInv, AfterThePass, vars, voteVars
<1>2. Votes' /\ Passed'
  BY <1>1 DEF DInv, Votes, Passed, LowerVotes, EnergyUpTo, vars, hardware
<1> QED
  BY <1>1, <1>2 DEF DInv, DumpTypeOK, AfterThePass, NoneLeft, Rows

-----------------------------------------------------------------------------
(* The rows, which leave the votes as they are: there are none any more.   *)

LEMMA RowsLeaveVotes ==
    ASSUME DInv, dpc \in {"poll", "rows"}, UNCHANGED vars, UNCHANGED voteVars,
           o' \in Nat, i' \in 0 .. PollCount, dpc' \in {"poll", "rows", "aborted"}
    PROVE  DumpTypeOK' /\ AfterThePass' /\ NoneLeft' /\ Passed' /\ Votes'
<1>1. phase = "done" /\ phase' = phase /\ counted = {} /\ shown = None
  BY DEF DInv, AfterThePass, NoneLeft, vars
<1>2. UNCHANGED <<v, spoilt, shown, counted>>
  BY DEF voteVars
<1>3. Votes'
  BY <1>2 DEF DInv, Votes, LowerVotes, EnergyUpTo, vars, hardware
<1>4. Passed'
  BY <1>1, <1>2 DEF Passed, None
<1> QED
  BY <1>1, <1>2, <1>3, <1>4 DEF DInv, DumpTypeOK, AfterThePass, NoneLeft, None, NoVotes

LEMMA RowStep ==
    ASSUME IInv, DInv, OpenRows \/ Row \/ CloseRows
    PROVE  DInv'
<1>1. /\ PollCount \in Nat /\ i \in 0 .. PollCount /\ o \in Nat
      /\ i < PollCount => i \in Polls /\ TotalOps[i] \in Nat /\ used[i] \in Nat
                          /\ used[i] <= TotalOps[i]
      /\ \A reading \in Celsius : reading \in Nat
  BY RolloverAssumption, DumpAssumption DEF DInv, DumpTypeOK, IInv, TypeOK, Polls
<1>2. UNCHANGED vars /\ UNCHANGED voteVars /\ used' = used /\ msrdata' = msrdata
  BY DEF OpenRows, Row, RowAfter, CloseRows, vars, hardware
<1>3. CASE OpenRows
  <2>1. /\ dpc = "poll" /\ dpc' \in {"rows", "aborted"} /\ o' \in Nat /\ i' = i
        /\ i < PollCount
    BY <1>1, <1>3 DEF OpenRows
  <2>2. Rows'
    <3>1. CASE TotalOps[i] > 2
      <4>1. PICK reading \in Celsius :
                dpc' = "rows" /\ o' = 1 /\ therm' = reading /\ therm0' = reading
        BY <1>3, <3>1 DEF OpenRows
      <4>2. delta' = 0 /\ warming' = 0
        BY <1>3 DEF OpenRows
      <4>3. ASSUME used[i] > 0
            PROVE  UpTo' = 0 /\ msrdata[i][0] \in Nat
        <5>1. UpTo' = 0
          BY <1>1, <1>2, <2>1, <4>1, <4>3 DEF UpTo
        <5>2. i \in Polls /\ 0 \in Ops(i)
          BY <1>1, <2>1, <4>3 DEF Ops
        <5>3. msrdata[i][0] \in Nat
          BY <5>2 DEF IInv, TypeOK, IsReading
        <5> QED
          BY <5>1, <5>3
      <4> QED
        BY <1>1, <1>2, <2>1, <3>1, <4>1, <4>2, <4>3 DEF Rows
    <3>2. CASE ~(TotalOps[i] > 2)
      BY <1>3, <3>2 DEF OpenRows, Rows
    <3> QED
      BY <3>1, <3>2
  <2> QED
    BY <1>1, <1>2, <2>1, <2>2, RowsLeaveVotes DEF DInv
<1>4. CASE Row
  <2>1. /\ dpc = "rows" /\ dpc' = dpc /\ o' = o + 1 /\ i' = i /\ o < TotalOps[i]
        /\ therm0' = therm0
    BY <1>4 DEF Row, RowAfter
  <2>2. /\ i < PollCount /\ o >= 1
        /\ therm \in Nat /\ therm0 \in Nat /\ delta \in Int
        /\ warming = therm \div 2 - therm0 \div 2
        /\ used[i] > 0 => delta = msrdata[i][UpTo] - msrdata[i][0]
    BY <2>1 DEF DInv, Rows
  <2>3. Rows'
    <3>1. CASE Used(i, o)
      <4>1. o < used[i]
        BY <3>1 DEF Used
      <4>2. PICK reading \in Celsius :
                /\ delta' = delta + msrdata[i][o] - msrdata[i][o - 1]
                /\ warming' = warming + reading \div 2 - therm \div 2
                /\ therm' = reading
        BY <1>4, <3>1 DEF Row, RowAfter, get_temperature
      <4>3. UpTo = o - 1 /\ UpTo' = o
        BY <1>1, <1>2, <2>1, <2>2, <4>1 DEF UpTo
      <4>4. /\ msrdata[i][o] \in Nat /\ msrdata[i][o - 1] \in Nat /\ msrdata[i][0] \in Nat
        <5>1. i \in Polls /\ o \in Ops(i) /\ o - 1 \in Ops(i) /\ 0 \in Ops(i)
          BY <1>1, <2>1, <2>2, <4>1 DEF Ops
        <5> QED
          BY <5>1 DEF IInv, TypeOK, IsReading
      <4>5. delta' = msrdata[i][o] - msrdata[i][0] /\ delta' \in Int
        BY <1>1, <2>2, <4>1, <4>2, <4>3, <4>4
      <4>6. warming' = therm' \div 2 - therm0 \div 2
        BY <1>1, <2>2, <4>2
      <4>7. (used[i] > 0 => delta = msrdata[i][UpTo] - msrdata[i][0])'
        BY <1>2, <2>1, <4>3, <4>5
      <4> QED
        BY <1>1, <1>2, <2>1, <2>2, <4>2, <4>5, <4>6, <4>7 DEF Rows
    <3>2. CASE ~Used(i, o)
      <4>1. used[i] <= o /\ UNCHANGED <<delta, warming, therm>>
        BY <1>1, <1>4, <2>1, <2>2, <3>2 DEF Row, RowAfter, Used
      <4>2. UpTo = used[i] - 1 /\ UpTo' = used[i] - 1
        BY <1>1, <1>2, <2>1, <2>2, <4>1 DEF UpTo
      <4> QED
        BY <1>1, <1>2, <2>1, <2>2, <4>1, <4>2 DEF Rows
    <3> QED
      BY <3>1, <3>2
  <2> QED
    BY <1>1, <1>2, <2>1, <2>3, RowsLeaveVotes DEF DInv
<1>5. CASE CloseRows
  <2>1. /\ dpc = "rows" /\ dpc' = "poll" /\ i' = i + 1 /\ o' = o /\ i < PollCount
    BY <1>5 DEF CloseRows, DInv, Rows
  <2> QED
    BY <1>1, <1>2, <2>1, RowsLeaveVotes DEF DInv, Rows
<1> QED
  BY <1>3, <1>4, <1>5

-----------------------------------------------------------------------------
LEMMA DumpStutter ==
    ASSUME DInv, UNCHANGED allVars
    PROVE  DInv'
<1>1. /\ UNCHANGED <<dpc, i, o, v, spoilt, shown, counted, delta, warming, therm, therm0>>
      /\ UNCHANGED <<phase, used, msrdata, first, last>>
  BY DEF allVars, dumpVars, voteVars, rowVars, vars, hardware
<1> QED
  BY <1>1 DEF DInv, DumpTypeOK, AfterThePass, NoneLeft, Passed, Votes, Rows, UpTo,
              LowerVotes, EnergyUpTo, NoVotes, None

\* The inductive invariant of Dump, over that of Rollover.
THEOREM DumpInvariance == DumpSpec => [](IInv /\ AllManaged /\ DInv)
<1>1. ASSUME IInv, AllManaged, DInv, [DumpNext]_allVars
      PROVE  DInv'
  <2>1. CASE Next /\ phase # "done" /\ UNCHANGED dumpVars
    BY <1>1, <2>1, RolloverStepHolds
  <2>2. CASE Begin \/ EndVote
    BY <1>1, <2>2, TurnOfTheVote
  <2>3. CASE Over
    BY <1>1, <2>3, DumpStutter DEF Over, allVars
  <2> QED
    BY <1>1, <2>1, <2>2, <2>3, SkipInvalidStep, VoteStep, CloseVoteStep, RowStep,
       DumpStutter DEF DumpNext
<1>2. IInv /\ AllManaged /\ DInv /\ [DumpNext]_allVars => DInv'
  BY <1>1
<1>3. DumpSpec => []IInv /\ []AllManaged
  BY DumpIsRollover, Invariance, AllAreManaged, PTL
<1> QED
  BY <1>2, <1>3, DumpInitHolds, PTL DEF DumpSpec, allVars

\* The votes of the lower bits, also those on the last line of the file, add up to
\* what the meter saw while the outputs that have any were computed (msr_utils.c:
\* 778-783): for any outputs, any tags, any number of ops and any turns of the register.
THEOREM VotesAreEnergy == DumpSpec => []EnergyShared
<1>1. DInv => EnergyShared
  BY DEF DInv, Votes, EnergyShared
<1> QED
  BY <1>1, DumpInvariance, PTL

\* The rows of a poll add up to the energy between its first sample and this one, and
\* to half of the change in temperature (msr_utils.c:899): for any readings.
THEOREM RowsTellDifferences == DumpSpec => []RowsAddUp
<1>1. ASSUME IInv, AllManaged, DInv
      PROVE  RowsAddUp
  <2> SUFFICES ASSUME dpc = "rows", o > 1, used[i] > 0
               PROVE  /\ i \in EnergyPolls => delta = first[i][UpTo] - first[i][0]
                      /\ 2 * warming - (therm - therm0) \in -1 .. 1
    BY DEF RowsAddUp, UpTo
  <2>1. /\ phase = "done" /\ i < PollCount /\ o >= 1 /\ o <= TotalOps[i]
        /\ therm \in Nat /\ therm0 \in Nat
        /\ warming = therm \div 2 - therm0 \div 2
        /\ delta = msrdata[i][UpTo] - msrdata[i][0]
    BY <1>1 DEF DInv, AfterThePass, Rows
  <2>2. 2 * warming - (therm - therm0) \in -1 .. 1
    BY <2>1
  <2>3. ASSUME i \in EnergyPolls
        PROVE  delta = first[i][UpTo] - first[i][0]
    <3>1. /\ i \in Polls /\ used[i] \in Nat /\ o \in Nat /\ used[i] <= TotalOps[i]
          /\ TotalOps[i] \in Nat /\ i \in Nat /\ PollCount \in Nat
      BY <1>1, <2>3, RolloverAssumption DEF IInv, TypeOK, DInv, DumpTypeOK, Polls
    <3>2. UpTo \in Ops(i) /\ UpTo < used[i]
      BY <2>1, <3>1 DEF UpTo, Ops
    <3>3. Managed(i, UpTo)
      BY <1>1, <2>1, <3>1, <3>2 DEF Managed, AllManaged
    <3> QED
      BY <1>1, <2>1, <2>3, <3>2, <3>3 DEF IInv, DeltasExact
  <2> QED
    BY <2>2, <2>3
<1> QED
  BY <1>1, DumpInvariance, PTL
=============================================================================
