----------------------------- MODULE AbxorProofs ------------------------------
(***************************************************************************)
(* Proofs about Abxor, for any number of threads, any table, any widths of *)
(* windows and any number of changes of the workload.                      *)
(***************************************************************************)
EXTENDS Abxor, TLAPS

-----------------------------------------------------------------------------
(* The inductive invariant.                                                *)

\* A flip that t has seen, or will see at its next comparison.
Pending(t) ==
    \/ pc[t] = "notice"
    \/ pc[t] \notin {"key", "start"} /\ local_ab_selector[t] # ab_selector

Lag ==
    \A t \in Threads :
        /\ moves[t] <= flips
        /\ Pending(t) => moves[t] + 1 <= flips

\* Is local as good as private?
Private == job.build = "-O2" \/ Single

\* The register of t holds the entries of its window up to i, or all of them and
\* the key; where it is about to be loaded, local holds the same.
Encoding ==
    Private => \A t \in job.threads : Param1[t] < NR =>
        /\ pc[t] \in {"load", "xor"} =>
                register[t] = Ridx[t] .. Ridx[t] + i[t] - 1
        /\ pc[t] = "load" => job.build # "-O2" /\ local = register[t]
        /\ pc[t] = "output" => register[t] = Window(t, Ridx[t]) \cup {0}

IInv ==
    /\ TypeOK
    /\ WindowInBounds
    /\ Lag
    /\ Encoding
    /\ OutputIsWhole

-----------------------------------------------------------------------------
\* A thread can only do one of ten things.
LEMMA Steps ==
    ASSUME TypeOK, [Next]_vars
    PROVE \/ UNCHANGED vars
          \/ Flip
          \/ RingTheBell
          \/ \E t \in Threads : t \in job.threads /\ Thread(t)
  BY AbxorAssumption DEF Next, AllReturned, TypeOK

\* The window after this one is a window of the table.
LEMMA NextInBounds ==
    ASSUME TypeOK, WindowInBounds, NEW t \in Threads
    PROVE /\ NextWindow(t) \in 0 .. SizeValues - 1
          /\ Param1[t] < NR =>
                NextWindow(t) >= 1 /\ NextWindow(t) + Param1[t] <= NR
<1>1. /\ NR \in Nat /\ NR >= 1 /\ SizeValues \in Nat /\ NR < SizeValues
      /\ Param1[t] \in Nat /\ Param1[t] < SizeValues
      /\ Ridx[t] \in Nat /\ Ridx[t] < SizeValues
  BY AbxorAssumption DEF TypeOK
<1>2. Plus(Ridx[t], Param1[t]) \in 0 .. SizeValues - 1
  BY <1>1 DEF Plus
<1>3. CASE Param1[t] < NR
  <2>1. Minus(NR, Param1[t]) = NR - Param1[t]
    BY <1>1, <1>3 DEF Minus
  <2>2. Plus(Ridx[t], Param1[t]) = Ridx[t] + Param1[t]
    BY <1>1, <1>3 DEF Plus, WindowInBounds
  <2> QED
    BY <1>1, <1>2, <1>3, <2>1, <2>2
    DEF NextWindow, NextWindowBelow, WindowInBounds
<1> QED
  BY <1>1, <1>2, <1>3 DEF NextWindow, NextWindowBelow

-----------------------------------------------------------------------------
\* Every step preserves the types.
LEMMA TypeStep ==
    ASSUME TypeOK, WindowInBounds, [Next]_vars
    PROVE TypeOK'
<1> USE AbxorAssumption DEF TypeOK, shared, results
<1>1. CASE UNCHANGED vars
  BY <1>1 DEF vars
<1>2. CASE Flip
  BY <1>2 DEF Flip, Workload
<1>3. CASE RingTheBell
  BY <1>3 DEF RingTheBell
<1>4. ASSUME NEW t \in Threads, t \in job.threads, Thread(t)
      PROVE TypeOK'
  <2> USE DEF Goto
  <2>1. CASE TakeKey(t)
    BY <2>1 DEF TakeKey, Labels, Value
  <2>2. CASE Start(t)
    BY <2>2 DEF Start, Labels
  <2>3. CASE Test(t)
    BY <2>3 DEF Test, Labels
  <2>4. CASE Compare(t)
    BY <2>4 DEF Compare, Labels
  <2>5. CASE Notice(t)
    BY <2>5, NextInBounds DEF Notice, NoticeAs, Labels
  <2>6. CASE Zero(t)
    <3>1. pc' \in [Threads -> Labels]
      BY <2>6 DEF Zero, ZeroTo, Xor, Labels
    <3>2. local' \in Value /\ register' \in [Threads -> Value]
      BY <2>6 DEF Zero, ZeroTo, SetLocal, Value
    <3>3. i' \in [Threads -> Nat] /\ \A u \in Threads : i'[u] <= Param1[u]
      BY <2>6 DEF Zero, ZeroTo
    <3> QED
      BY <2>6, <3>1, <3>2, <3>3 DEF Zero, ZeroTo
  <2>7. CASE Load(t)
    BY <2>7 DEF Load, Labels
  <2>8. CASE XorEntry(t)
    <3>1. pc' \in [Threads -> Labels]
      BY <2>8 DEF XorEntry, Xor, Labels
    <3>2. SymmetricDifference(register[t], {Entry(t)}) \in Value
      BY DEF SymmetricDifference, Entry, Value
    <3>3. local' \in Value /\ register' \in [Threads -> Value]
      BY <2>8, <3>2 DEF XorEntry, SetLocal
    <3>4. i' \in [Threads -> Nat] /\ \A u \in Threads : i'[u] <= Param1[u]
      BY <2>8 DEF XorEntry
    <3> QED
      BY <2>8, <3>1, <3>3, <3>4 DEF XorEntry
  <2>9. CASE Output(t)
    <3>1. pc' \in [Threads -> Labels]
      BY <2>9 DEF Output, OutputThen, Labels
    <3>2. repeat' \in [Threads -> 0 .. Repeats - 1]
      BY <2>9 DEF Output, OutputThen
    <3>3. accumulator' \in [Threads -> Loops]
      <4>1. /\ accumulator[t] \in [Workload -> Nat]
            /\ local_ab_selector[t] \in Workload
        BY DEF Loops
      <4>2. [accumulator[t] EXCEPT ![local_ab_selector[t]] = @ + 1]
                \in [Workload -> Nat]
        BY <4>1
      <4>3. \/ accumulator' = accumulator
            \/ accumulator' = [accumulator EXCEPT ![t] =
                    [accumulator[t] EXCEPT ![local_ab_selector[t]] = @ + 1]]
        BY <2>9 DEF Output, OutputThen
      <4> QED
        BY <4>2, <4>3 DEF Loops
    <3>4. single_output' \in [Threads -> Value]
      BY <2>9 DEF Output, OutputThen
    <3> QED
      BY <2>9, <3>1, <3>2, <3>3, <3>4 DEF Output, OutputThen
  <2>10. CASE Return(t)
    BY <2>10 DEF Return, Labels
  <2> QED
    BY <1>4, <2>1, <2>2, <2>3, <2>4, <2>5, <2>6, <2>7, <2>8, <2>9, <2>10
    DEF Thread
<1> QED
  BY <1>1, <1>2, <1>3, <1>4, Steps

\* Only Notice moves a window.
LEMMA WindowStep ==
    ASSUME TypeOK, WindowInBounds, [Next]_vars
    PROVE WindowInBounds'
<1>1. CASE Ridx' = Ridx
  BY <1>1 DEF WindowInBounds
<1>2. ASSUME NEW t \in Threads, Notice(t)
      PROVE WindowInBounds'
  <2>1. Ridx' = [Ridx EXCEPT ![t] = NextWindow(t)]
    BY <1>2 DEF Notice, NoticeAs
  <2> QED
    BY <2>1, NextInBounds DEF WindowInBounds, TypeOK
<1>3. ASSUME NEW t \in Threads, Thread(t), ~Notice(t)
      PROVE Ridx' = Ridx
  BY <1>3 DEF Thread, TakeKey, Start, Test, Compare, Zero, ZeroTo, Load,
              XorEntry, Output, OutputThen, Return
<1> QED
  BY <1>1, <1>2, <1>3, Steps DEF vars, Flip, RingTheBell

-----------------------------------------------------------------------------
\* A move uses up the flip that caused it.
LEMMA LagStep ==
    ASSUME TypeOK, Lag, [Next]_vars
    PROVE Lag'
<1> USE DEF shared
<1>0. flips \in Nat /\ \A t \in Threads : moves[t] \in Nat
  BY DEF TypeOK
<1>1. CASE UNCHANGED vars
  BY <1>1 DEF vars, Lag, Pending
<1>2. CASE Flip
  BY <1>0, <1>2 DEF Flip, Lag, Pending
<1>3. CASE RingTheBell
  BY <1>3 DEF RingTheBell, Lag, Pending
<1>4. ASSUME NEW t \in Threads, Thread(t)
      PROVE Lag'
  <2>1. ab_selector' = ab_selector /\ flips' = flips
    BY <1>4 DEF Thread, TakeKey, Start, Test, Compare, Notice, NoticeAs, Zero,
                ZeroTo, Load, XorEntry, Output, OutputThen, Return
  <2>2. ASSUME NEW u \in Threads, u # t
        PROVE /\ pc'[u] = pc[u] /\ moves'[u] = moves[u]
              /\ local_ab_selector'[u] = local_ab_selector[u]
    BY <1>4, <2>2
    DEF Thread, TakeKey, Start, Test, Compare, Notice, NoticeAs, Zero, ZeroTo,
        Load, XorEntry, Output, OutputThen, Return, Goto, TypeOK
  <2>3. CASE Notice(t)
    <3>1. /\ pc[t] = "notice" /\ pc'[t] = "zero"
          /\ local_ab_selector'[t] = ab_selector
          /\ moves'[t] = moves[t] + 1
      BY <2>3 DEF Notice, NoticeAs, Goto, TypeOK
    <3> QED
      BY <1>0, <2>1, <2>2, <3>1 DEF Lag, Pending
  <2>4. CASE Start(t)
    <3>1. /\ local_ab_selector'[t] = ab_selector /\ moves' = moves
          /\ pc'[t] = "test"
      BY <2>4 DEF Start, Goto, TypeOK
    <3> QED
      BY <1>0, <2>1, <2>2, <3>1 DEF Lag, Pending
  <2>5. CASE TakeKey(t)
    <3>1. moves' = moves /\ pc'[t] = "start"
      BY <2>5 DEF TakeKey, Goto, TypeOK
    <3> QED
      BY <1>0, <2>1, <2>2, <3>1 DEF Lag, Pending
  <2>6. CASE Compare(t)
    <3>1. /\ moves' = moves /\ local_ab_selector' = local_ab_selector
          /\ pc[t] = "compare"
          /\ pc'[t] = "notice" => local_ab_selector[t] # ab_selector
      BY <2>6 DEF Compare, Goto, TypeOK
    <3> QED
      BY <1>0, <2>1, <2>2, <3>1 DEF Lag, Pending
  <2>7. CASE Test(t) \/ Zero(t) \/ Load(t) \/ XorEntry(t) \/ Output(t)
             \/ Return(t)
    <3>1. /\ moves' = moves /\ local_ab_selector' = local_ab_selector
          /\ pc[t] \notin {"key", "start"} /\ pc'[t] # "notice"
      BY <2>7 DEF Test, Zero, ZeroTo, Xor, Load, XorEntry, Output, OutputThen,
                  Return, Goto, TypeOK
    <3> QED
      BY <1>0, <2>1, <2>2, <3>1 DEF Lag, Pending
  <2> QED
    BY <1>4, <2>3, <2>4, <2>5, <2>6, <2>7 DEF Thread
<1> QED
  BY <1>1, <1>2, <1>3, <1>4, Steps

-----------------------------------------------------------------------------
\* What the loop over the window does to the set of entries.
LEMMA NextEntry ==
    ASSUME NEW r \in Nat, NEW n \in Nat
    PROVE SymmetricDifference(r .. r + n - 1, {r + n}) = r .. r + (n + 1) - 1
  BY DEF SymmetricDifference

LEMMA KeyLast ==
    ASSUME NEW r \in Nat \ {0}, NEW n \in Nat
    PROVE SymmetricDifference(r .. r + n - 1, {0}) = (r .. r + n - 1) \cup {0}
  BY DEF SymmetricDifference

\* An encoding in progress is disturbed by nobody but its thread.
LEMMA EncodingStep ==
    ASSUME TypeOK, WindowInBounds, Encoding, [Next]_vars
    PROVE Encoding'
<1> SUFFICES ASSUME Private', NEW t \in job'.threads, Param1[t] < NR
             PROVE /\ pc'[t] \in {"load", "xor"} =>
                        register'[t] = Ridx'[t] .. Ridx'[t] + i'[t] - 1
                   /\ pc'[t] = "load" => job'.build # "-O2" /\ local' = register'[t]
                   /\ pc'[t] = "output" =>
                        register'[t] = (Ridx'[t] .. Ridx'[t] + Param1[t] - 1) \cup {0}
  BY DEF Encoding, Window
<1> USE DEF shared
<1>1. job' = job
  BY Steps
  DEF vars, Flip, RingTheBell, Thread, TakeKey, Start, Test, Compare, Notice,
      NoticeAs, Zero, ZeroTo, Load, XorEntry, Output, OutputThen, Return
<1>2. Private /\ t \in job.threads /\ t \in Threads
  BY <1>1, AbxorAssumption DEF Private, Single, TypeOK
<1>3. /\ pc[t] \in {"load", "xor"} =>
            register[t] = Ridx[t] .. Ridx[t] + i[t] - 1
      /\ pc[t] = "load" => job.build # "-O2" /\ local = register[t]
      /\ pc[t] = "output" =>
            register[t] = (Ridx[t] .. Ridx[t] + Param1[t] - 1) \cup {0}
  BY <1>2 DEF Encoding, Window
<1>4. CASE UNCHANGED vars \/ Flip \/ RingTheBell
  BY <1>1, <1>3, <1>4 DEF vars, Flip, RingTheBell
<1>5. ASSUME NEW u \in Threads, u \in job.threads, u # t, Thread(u)
      PROVE /\ pc'[t] = pc[t] /\ register'[t] = register[t]
            /\ Ridx'[t] = Ridx[t] /\ i'[t] = i[t]
            /\ pc[t] # "load"
  <2>1. pc[t] # "load"
    BY <1>2, <1>3, <1>5 DEF Private, Single
  <2> QED
    BY <1>2, <1>5, <2>1
    DEF Thread, TakeKey, Start, Test, Compare, Notice, NoticeAs, Zero, ZeroTo,
        SetLocal, Load, XorEntry, Output, OutputThen, Return, Goto, TypeOK
<1>6. CASE Thread(t)
  <2> USE DEF Goto
  <2>0. /\ Ridx[t] \in Nat \ {0} /\ i[t] \in Nat /\ i[t] <= Param1[t]
        /\ Param1[t] \in Nat
    BY <1>2, AbxorAssumption DEF TypeOK, WindowInBounds
  <2>1. CASE TakeKey(t) \/ Start(t) \/ Test(t) \/ Compare(t) \/ Notice(t)
             \/ Output(t) \/ Return(t)
    <3>1. pc'[t] \notin {"load", "xor", "output"}
      BY <1>2, <2>1 DEF TakeKey, Start, Test, Compare, Notice, NoticeAs, Output,
                        OutputThen, Return, TypeOK
    <3> QED
      BY <3>1
  <2>2. CASE Zero(t)
    <3>1. /\ register'[t] = {} /\ local' = {} /\ i'[t] = 0
          /\ Ridx'[t] = Ridx[t]
          /\ pc'[t] = Xor
      BY <1>2, <2>2 DEF Zero, ZeroTo, SetLocal, TypeOK
    <3>2. Ridx[t] .. Ridx[t] + 0 - 1 = {}
      BY <2>0
    <3> QED
      BY <1>1, <3>1, <3>2 DEF Xor
  <2>3. CASE Load(t)
    <3>1. /\ pc[t] = "load" /\ pc'[t] = "xor"
          /\ register'[t] = local /\ i' = i /\ Ridx' = Ridx
      BY <1>2, <2>3 DEF Load, TypeOK
    <3> QED
      BY <1>3, <3>1
  <2>4. CASE XorEntry(t) /\ i[t] < Param1[t]
    <3>1. /\ pc[t] = "xor" /\ pc'[t] = Xor
          /\ register'[t] = SymmetricDifference(register[t], {Ridx[t] + i[t]})
          /\ local' = register'[t]
          /\ i'[t] = i[t] + 1 /\ Ridx'[t] = Ridx[t]
      BY <1>2, <2>4 DEF XorEntry, SetLocal, Entry, TypeOK
    <3>2. register'[t] = Ridx'[t] .. Ridx'[t] + i'[t] - 1
      BY <1>3, <2>0, <3>1, NextEntry
    <3> QED
      BY <1>1, <3>1, <3>2 DEF Xor
  <2>5. CASE XorEntry(t) /\ ~(i[t] < Param1[t])
    <3>1. /\ pc[t] = "xor" /\ pc'[t] = "output"
          /\ register'[t] = SymmetricDifference(register[t], {0})
          /\ Ridx'[t] = Ridx[t]
      BY <1>2, <2>5 DEF XorEntry, SetLocal, Entry, TypeOK
    <3>2. i[t] = Param1[t]
      BY <2>0, <2>5
    <3> QED
      BY <1>3, <2>0, <3>1, <3>2, KeyLast
  <2> QED
    BY <1>6, <2>1, <2>2, <2>3, <2>4, <2>5 DEF Thread
<1>7. CASE \E u \in Threads : u \in job.threads /\ u # t /\ Thread(u)
  BY <1>3, <1>5, <1>7
<1> QED
  BY <1>2, <1>4, <1>6, <1>7, Steps

-----------------------------------------------------------------------------
\* What is stored in single_output is the encoding just finished.
LEMMA OutputStep ==
    ASSUME TypeOK, WindowInBounds, Encoding, OutputIsWhole, [Next]_vars
    PROVE OutputIsWhole'
<1> SUFFICES ASSUME Private', NEW t \in Threads
             PROVE Whole(t)'
  BY DEF OutputIsWhole, Private
<1> USE DEF shared, results
<1>1. job' = job
  BY Steps
  DEF vars, Flip, RingTheBell, Thread, TakeKey, Start, Test, Compare, Notice,
      NoticeAs, Zero, ZeroTo, Load, XorEntry, Output, OutputThen, Return
<1>2. Private /\ Whole(t)
  BY <1>1 DEF Private, Single, OutputIsWhole
<1>3. CASE /\ single_output'[t] = single_output[t]
           /\ accumulator'[t] = accumulator[t] /\ repeat'[t] = repeat[t]
  BY <1>2, <1>3 DEF Whole, Window, Passes
<1>4. CASE t \in job.threads /\ Output(t)
  <2>1. pc[t] = "output" /\ single_output'[t] = register[t]
    BY <1>4 DEF Output, OutputThen, Goto, TypeOK
  <2>2. Param1[t] < NR => Ridx[t] \in 1 .. NR
    BY AbxorAssumption DEF TypeOK, WindowInBounds
  <2>3. Param1[t] < NR => register[t] = Window(t, Ridx[t]) \cup {0}
    BY <1>2, <1>4, <2>1 DEF Encoding
  <2> QED
    BY <2>1, <2>2, <2>3 DEF Whole, Window
<1>5. ASSUME NEW u \in Threads, Output(u), u # t
      PROVE /\ single_output'[t] = single_output[t]
            /\ accumulator'[t] = accumulator[t] /\ repeat'[t] = repeat[t]
  BY <1>5 DEF Output, OutputThen, TypeOK
<1>6. ASSUME NEW u \in Threads, Thread(u), ~Output(u)
      PROVE UNCHANGED <<single_output, accumulator, repeat>>
  BY <1>6 DEF Thread, TakeKey, Start, Test, Compare, Notice, NoticeAs, Zero,
              ZeroTo, Load, XorEntry, Return
<1> QED
  BY <1>3, <1>4, <1>5, <1>6, Steps DEF vars, Flip, RingTheBell

-----------------------------------------------------------------------------
LEMMA Start0 == Init => IInv
<1> SUFFICES ASSUME Init PROVE IInv
  OBVIOUS
<1> USE AbxorAssumption DEF Init
<1>1. TypeOK
  <2>1. /\ job \in Jobs /\ halt \in BOOLEAN /\ ab_selector \in Workload
        /\ local \in Value
    BY DEF Value
  <2>2. /\ flips \in Nat /\ moves \in [Threads -> Nat]
        /\ local_ab_selector \in [Threads -> Workload]
    BY DEF Workload
  <2>3. pc \in [Threads -> Labels]
    BY DEF Labels
  <2>4. /\ Ridx \in [Threads -> 0 .. SizeValues - 1]
        /\ i \in [Threads -> Nat] /\ \A t \in Threads : i[t] <= Param1[t]
        /\ repeat \in [Threads -> 0 .. Repeats - 1]
    OBVIOUS
  <2>5. /\ register \in [Threads -> Value] /\ key \in [Threads -> Value]
        /\ single_output \in [Threads -> Value]
    BY DEF Value
  <2>6. None \in Loops
    BY DEF None, Loops
  <2>7. accumulator \in [Threads -> Loops] /\ executed_loops \in [Threads -> Loops]
    BY <2>6
  <2> QED
    BY <2>1, <2>2, <2>3, <2>4, <2>5, <2>7 DEF TypeOK
<1>2. WindowInBounds
  BY DEF WindowInBounds
<1>3. Lag
  <2> SUFFICES ASSUME NEW t \in Threads
               PROVE /\ moves[t] <= flips
                     /\ Pending(t) => moves[t] + 1 <= flips
    BY Zenon DEF Lag
  <2>1. pc[t] = "key" /\ moves[t] = 0 /\ flips = 0
    OBVIOUS
  <2> QED
    BY <2>1 DEF Pending
<1>4. Encoding
  BY DEF Encoding
<1>5. OutputIsWhole
  BY DEF OutputIsWhole, Whole, Passes, None, Workload
<1> QED
  BY <1>1, <1>2, <1>3, <1>4, <1>5 DEF IInv

\* The inductive invariant holds in every reachable state.
THEOREM Invariance == Spec => []IInv
<1>1. IInv /\ [Next]_vars => IInv'
  BY TypeStep, WindowStep, LagStep, EncodingStep, OutputStep DEF IInv
<1> QED
  BY Start0, <1>1, PTL DEF Spec

\* Every variable of run_abxor keeps its type: in particular i stays in the
\* window and Ridx in size_t.
THEOREM TypeCorrect == Spec => []TypeOK
<1>1. IInv => TypeOK
  BY DEF IInv
<1> QED
  BY Invariance, <1>1, PTL

\* spin.c:63-67: no window leaves the table, whatever its width below NR.
THEOREM WindowsInBounds == Spec => []WindowInBounds
<1>1. IInv => WindowInBounds
  BY DEF IInv
<1> QED
  BY Invariance, <1>1, PTL

\* spin.c:61-62: no thread takes more windows than there were flips.
THEOREM MovesBounded == Spec => []MovesFollowFlips
<1>1. IInv => MovesFollowFlips
  BY DEF IInv, Lag, MovesFollowFlips
<1> QED
  BY Invariance, <1>1, PTL

\* spin.c:69-76: what a poll may copy is always one whole encoding, for any number
\* of threads of the production build, and for one thread of the debug build.
THEOREM OutputsWhole == Spec => []OutputIsWhole
<1>1. IInv => OutputIsWhole
  BY DEF IInv
<1> QED
  BY Invariance, <1>1, PTL
=============================================================================
