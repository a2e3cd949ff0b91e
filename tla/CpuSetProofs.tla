----------------------------- MODULE CpuSetProofs -----------------------------
(***************************************************************************)
(* Proofs about CpuSet, for any sizes and any fields: which cpus the       *)
(* threads of a benchmark are given, and which are shown in job.out.       *)
(***************************************************************************)
EXTENDS CpuSet, FiniteSetTheorems, SequenceTheorems, TLAPS

-----------------------------------------------------------------------------
(* The minimum that get_next_cpu returns.                                  *)

Below == {ss \in Nat \X Nat : ss[1] < ss[2]}

LEMMA MinIsLeast ==
    ASSUME NEW S \in SUBSET Nat, S # {}
    PROVE  Min(S) \in S /\ \A y \in S : Min(S) <= y
<1>1. IsWellFoundedOn(Below, Nat)
  BY NatLessThanWellFounded, Zenon DEF OpToRel, Below
<1>2. PICK x \in S : \A y \in S : ~ (<<y, x>> \in Below)
  BY <1>1, WFMin, Zenon
<1>3. \A y \in S : <<y, x>> \in Below <=> y < x
  BY DEF Below
<1>4. ASSUME NEW y \in S PROVE x <= y
  <2>1. ~(y < x) /\ x \in Nat /\ y \in Nat
    BY <1>2, <1>3
  <2> QED
    BY <2>1
<1> QED
  BY <1>4 DEF Min

LEMMA MaxIsGreatest ==
    ASSUME NEW S \in SUBSET Nat, S # {}, NEW n \in Nat, \A x \in S : x <= n
    PROVE  Max(S) \in S /\ \A y \in S : y <= Max(S)
<1> DEFINE R == {n - x : x \in S}
<1>1. R \in SUBSET Nat /\ R # {}
  <2>1. \A x \in S : n - x \in Nat
    OBVIOUS
  <2> QED
    BY <2>1
<1>2. Min(R) \in R /\ \A y \in R : Min(R) <= y
  BY <1>1, MinIsLeast
<1>3. PICK x \in S : Min(R) = n - x
  BY <1>2
<1>4. ASSUME NEW y \in S PROVE y <= x
  <2>1. n - y \in R
    OBVIOUS
  <2>2. n - x <= n - y
    BY <1>2, <1>3, <2>1
  <2> QED
    BY <2>2
<1> QED
  BY <1>4 DEF Max

-----------------------------------------------------------------------------
(* The inductive invariant.                                                *)

Types ==
    /\ field \in Seq(Token) /\ given \in Seq(Token)
    /\ all_cpus \subseteq 0 .. CPU_SETSIZE - 1
    /\ current_cpu \in Nat
    /\ pinned \in Seq(Nat)
    /\ lo_cpu \in Nat /\ hi_cpu \in 0 .. CPU_SETSIZE - 1 /\ count \in Nat
    /\ shown \in Seq(Nat)

\* What the tokens not parsed yet will add is what is missing.
Named(tokens) == UNION {t.lo .. t.hi : t \in {tokens[i] : i \in DOMAIN tokens}}
Parsed ==
    /\ phase # "exited" => Asked = all_cpus \cup Named(field)
    /\ phase \notin {"parsing", "exited"} => field = <<>>
    /\ phase = "parsing" => /\ pinned = <<>> /\ current_cpu = 0
                            /\ shown = <<>> /\ lo_cpu = 0

\* The search meets no cpu that it cannot reach: it begins below MaxCpu, or where
\* it has come to without a gap.
NothingElse ==
    /\ Cpus \subseteq Reachable \cup {0}
    /\ current_cpu >= MaxCpu => MaxCpu - 1 .. current_cpu - 1 \subseteq all_cpus

\* The cpus below current_cpu have their thread, in order, or all that can be
\* reached have one, but some cannot, and the search has begun again.
Ascends ==
    /\ \A i \in DOMAIN pinned : pinned[i] \in Reachable /\ pinned[i] < current_cpu
    /\ \A c \in Reachable : c < current_cpu => c \in Cpus
    /\ \A i, j \in DOMAIN pinned : i < j => pinned[i] < pinned[j]
Wrapped ==
    /\ Reachable # all_cpus
    /\ Reachable \subseteq Cpus
    /\ 0 \in Cpus

\* The loop of cpuset2str stands in the middle of short runs only.
Shows ==
    phase = "showing" =>
        /\ count = Cardinality({c \in all_cpus : c >= lo_cpu})
        /\ {shown[i] : i \in DOMAIN shown} =
                {c \in Asked : /\ c < lo_cpu
                               /\ c = Min(RunOf(c)) \/ Cardinality(RunOf(c)) < 4}
        /\ \A i, j \in DOMAIN shown : i < j => shown[i] < shown[j]
        /\ lo_cpu \in all_cpus /\ lo_cpu - 1 \in all_cpus =>
                Cardinality(RunOf(lo_cpu)) < 4

IInv == Types /\ Parsed /\ NothingElse /\ (Ascends \/ Wrapped) /\ Shows

-----------------------------------------------------------------------------
(* The threads of a benchmark.                                             *)

\* Fewer threads than cpus: a cpu is left.
LEMMA OneIsLeft ==
    ASSUME Types, Len(pinned) < Cardinality(all_cpus)
    PROVE  \E c \in all_cpus : c \notin Cpus
<1>1. /\ pinned \in Seq(Nat) /\ Len(pinned) \in Nat
      /\ DOMAIN pinned = 1 .. Len(pinned)
      /\ IsFiniteSet(1 .. Len(pinned)) /\ Cardinality(1 .. Len(pinned)) = Len(pinned)
  <2>1. pinned \in Seq(Nat) /\ Len(pinned) \in Nat /\ DOMAIN pinned = 1 .. Len(pinned)
    BY DEF Types
  <2> QED
    BY <2>1, FS_Interval, SMTT(30)
<1>2. pinned \in Surjection(1 .. Len(pinned), Cpus)
  BY <1>1 DEF Cpus, Surjection
<1>3. IsFiniteSet(Cpus) /\ Cardinality(Cpus) <= Len(pinned)
  BY <1>1, <1>2, FS_Surjection
<1>4. ASSUME all_cpus \subseteq Cpus PROVE FALSE
  <2>1. Cardinality(all_cpus) <= Cardinality(Cpus)
    BY <1>3, <1>4, FS_Subset
  <2>2. Cardinality(all_cpus) \in Nat /\ Cardinality(Cpus) \in Nat
    BY <1>3, <1>4, FS_Subset, FS_CardinalityType
  <2> QED
    BY <1>3, <2>1, <2>2 DEF Types
<1> QED
  BY <1>4

\* As many threads as cpus, no two of them on the same: none is left.
LEMMA NoneIsLeft ==
    ASSUME Types, Ascends, Len(pinned) = Cardinality(all_cpus)
    PROVE  Cpus = all_cpus
<1>1. /\ pinned \in Seq(Nat) /\ Len(pinned) \in Nat
      /\ DOMAIN pinned = 1 .. Len(pinned)
      /\ IsFiniteSet(1 .. Len(pinned)) /\ Cardinality(1 .. Len(pinned)) = Len(pinned)
  <2>1. pinned \in Seq(Nat) /\ Len(pinned) \in Nat /\ DOMAIN pinned = 1 .. Len(pinned)
    BY DEF Types
  <2> QED
    BY <2>1, FS_Interval
<1>2. pinned \in Surjection(1 .. Len(pinned), Cpus)
  BY <1>1 DEF Cpus, Surjection
<1>3. pinned \in Injection(1 .. Len(pinned), Cpus)
  <2>1. pinned \in [1 .. Len(pinned) -> Cpus]
    BY <1>2 DEF Surjection
  <2>2. ASSUME NEW i \in 1 .. Len(pinned), NEW j \in 1 .. Len(pinned),
               pinned[i] = pinned[j]
        PROVE  i = j
    <3>1. pinned[i] \in Nat /\ ~(pinned[i] < pinned[j]) /\ ~(pinned[j] < pinned[i])
      BY <1>1, <2>2
    <3>2. ~(i < j) /\ ~(j < i)
      BY <1>1, <3>1 DEF Ascends
    <3> QED
      BY <3>2
  <2> QED
    BY <2>1, <2>2 DEF Injection, IsInjective
<1>4. IsFiniteSet(Cpus) /\ Cardinality(Cpus) = Len(pinned)
  BY <1>1, <1>2, <1>3, FS_Surjection
<1>5. Cpus \subseteq all_cpus
  BY <1>1 DEF Cpus, Ascends, Reachable
<1>6. IsFiniteSet(all_cpus)
  <2>1. CPU_SETSIZE - 1 \in Int /\ all_cpus \in SUBSET (0 .. CPU_SETSIZE - 1)
    BY CpuSetAssumption DEF Types
  <2>2. IsFiniteSet(0 .. CPU_SETSIZE - 1)
    BY <2>1, FS_Interval
  <2> QED
    BY <2>1, <2>2, FS_Subset
<1> QED
  BY <1>4, <1>5, <1>6, FS_Subset

\* What get_next_cpu finds is the next that can be reached, if there is one.
LEMMA NextReachable ==
    ASSUME Types, NothingElse
    PROVE  LET cpu == get_next_cpu(current_cpu, MaxCpu, all_cpus)
           IN  /\ cpu \in Nat
               /\ \/ /\ cpu \in Reachable /\ cpu >= current_cpu
                     /\ \A c \in Reachable : current_cpu <= c => cpu <= c
                  \/ /\ cpu = 0
                     /\ \A c \in Reachable : c < current_cpu
<1> DEFINE F == Found(current_cpu, MaxCpu, all_cpus)
<1>1. /\ current_cpu \in Nat /\ MaxCpu \in Nat \ {0, 1} /\ CPU_SETSIZE \in Nat \ {0}
      /\ all_cpus \subseteq Nat /\ \A c \in all_cpus : c < CPU_SETSIZE
      /\ Reachable \subseteq all_cpus
  BY CpuSetAssumption DEF Types, Reachable
<1>2. ASSUME NEW c \in Reachable, c >= current_cpu
      PROVE  F # {}
  <2>1. CASE c < MaxCpu
    <3>1. c \in F
      BY <1>1, <1>2, <2>1 DEF Found
    <3> QED
      BY <3>1
  <2>2. CASE c >= MaxCpu
    <3>1. MaxCpu - 1 .. c \subseteq all_cpus
      BY <1>1, <1>2, <2>2 DEF Reachable
    <3>2. CASE current_cpu <= MaxCpu - 1
      <4>1. MaxCpu - 1 \in F
        BY <1>1, <2>2, <3>1, <3>2 DEF Found
      <4> QED
        BY <4>1
    <3>3. CASE current_cpu > MaxCpu - 1
      <4>1. current_cpu \in F
        BY <1>1, <1>2, <3>1, <3>3 DEF Found
      <4> QED
        BY <4>1
    <3> QED
      BY <1>1, <3>2, <3>3
  <2> QED
    BY <1>1, <2>1, <2>2
<1>3. CASE F = {}
  <2>1. get_next_cpu(current_cpu, MaxCpu, all_cpus) = 0
    BY <1>3 DEF get_next_cpu
  <2>2. \A c \in Reachable : c < current_cpu
    BY <1>1, <1>2, <1>3
  <2> QED
    BY <2>1, <2>2
<1>4. CASE F # {}
  <2>1. F \subseteq Nat
    BY <1>1 DEF Found
  <2>2. PICK m \in Nat : /\ m \in F /\ \A y \in F : m <= y
                         /\ get_next_cpu(current_cpu, MaxCpu, all_cpus) = m
    BY <1>4, <2>1, MinIsLeast DEF get_next_cpu
  <2>3. m \in all_cpus /\ (m = current_cpu \/ (current_cpu < m /\ m < MaxCpu))
    BY <2>2 DEF Found
  <2>4. \A d \in all_cpus :
            d = current_cpu \/ (current_cpu < d /\ d < MaxCpu) => m <= d
    BY <1>1, <2>2 DEF Found
  <2> HIDE DEF F
  <2>5. m \in Reachable
    <3>1. CASE m < MaxCpu
      BY <2>3, <3>1 DEF Reachable
    <3>2. CASE m >= MaxCpu
      <4>1. m = current_cpu /\ MaxCpu - 1 .. current_cpu - 1 \subseteq all_cpus
        BY <1>1, <2>3, <3>2 DEF NothingElse
      <4>2. MaxCpu - 1 .. current_cpu \subseteq all_cpus
        BY <1>1, <2>3, <4>1
      <4> QED
        BY <2>3, <4>1, <4>2 DEF Reachable
    <3> QED
      BY <1>1, <3>1, <3>2
  <2>6. ASSUME NEW d \in Reachable, current_cpu <= d
        PROVE  m <= d
    <3>1. CASE d < MaxCpu
      BY <1>1, <2>4, <2>6, <3>1
    <3>2. CASE d >= MaxCpu
      BY <1>1, <2>3, <2>6, <3>2
    <3> QED
      BY <1>1, <3>1, <3>2
  <2>7. m >= current_cpu
    BY <1>1, <2>3
  <2> QED
    BY <2>2, <2>5, <2>6, <2>7
<1> QED
  BY <1>3, <1>4

LEMMA PinHolds ==
    ASSUME IInv, Pin
    PROVE  IInv'
<1>1. PICK cpu \in Nat :
        /\ pinned' = Append(pinned, cpu) /\ current_cpu' = cpu + 1
        /\ \/ /\ cpu \in Reachable /\ cpu >= current_cpu
              /\ \A c \in Reachable : current_cpu <= c => cpu <= c
           \/ /\ cpu = 0
              /\ \A c \in Reachable : c < current_cpu
  BY NextReachable DEF IInv, Pin, PinAdvancing
<1>2. /\ phase = "pinning" /\ Len(pinned) < Cardinality(all_cpus)
      /\ UNCHANGED <<phase, field, all_cpus, showVars, given>>
  BY DEF Pin, PinAdvancing
<1>3. /\ Reachable \subseteq all_cpus /\ Reachable' = Reachable
      /\ all_cpus \subseteq Nat /\ current_cpu \in Nat
      /\ MaxCpu \in Nat \ {0, 1}
  <2>1. Reachable \subseteq all_cpus /\ Reachable' = Reachable
    BY <1>2 DEF Reachable
  <2>2. all_cpus \subseteq Nat /\ current_cpu \in Nat /\ MaxCpu \in Nat \ {0, 1}
    BY CpuSetAssumption DEF IInv, Types
  <2> QED
    BY <2>1, <2>2
<1>4. /\ pinned \in Seq(Nat)
      /\ Len(pinned) \in Nat /\ DOMAIN pinned = 1 .. Len(pinned)
      /\ DOMAIN pinned' = 1 .. Len(pinned) + 1
      /\ \A i \in 1 .. Len(pinned) : pinned'[i] = pinned[i]
      /\ pinned'[Len(pinned) + 1] = cpu
  BY <1>1, <1>3 DEF IInv, Types
<1>5. Cpus' = Cpus \cup {cpu}
  <2>1. Cpus' \subseteq Cpus \cup {cpu}
    BY <1>4 DEF Cpus
  <2>2. Cpus \subseteq Cpus' /\ cpu \in Cpus'
    BY <1>4 DEF Cpus
  <2> QED
    BY <2>1, <2>2
<1>6. Types' /\ Parsed'
  <2>1. Types'
    BY <1>1, <1>2 DEF IInv, Types, showVars
  <2>2. Parsed'
    BY <1>2 DEF IInv, Parsed, Asked
  <2> QED
    BY <2>1, <2>2
<1>7. NothingElse'
  <2>1. Cpus' \subseteq Reachable \cup {0}
    BY <1>1, <1>5 DEF IInv, NothingElse
  <2>2. ASSUME cpu + 1 >= MaxCpu
        PROVE  MaxCpu - 1 .. cpu \subseteq all_cpus
    <3>1. cpu \in Reachable
      BY <1>1, <1>3, <2>2
    <3>2. cpu < MaxCpu => MaxCpu - 1 .. cpu = {cpu}
      BY <1>3, <2>2
    <3> QED
      BY <1>3, <3>1, <3>2 DEF Reachable
  <2> QED
    BY <1>1, <1>2, <1>3, <2>1, <2>2 DEF NothingElse
<1>8. (Ascends \/ Wrapped)'
  <2>1. CASE Wrapped
    BY <1>1, <1>2, <1>3, <1>5, <2>1 DEF Wrapped
  <2>2. CASE Ascends /\ \A c \in Reachable : c < current_cpu
    <3>1. Reachable \subseteq Cpus
      BY <2>2 DEF Ascends
    <3>2. Reachable # all_cpus
      BY <1>1, <1>2, <3>1, OneIsLeft DEF IInv
    <3>3. CASE cpu = 0
      BY <1>1, <1>2, <1>3, <1>5, <3>1, <3>2, <3>3 DEF Wrapped
    <3>4. CASE cpu # 0
      BY <1>1, <1>3, <2>2, <3>4
    <3> QED
      BY <3>3, <3>4
  <2>3. CASE /\ Ascends
             /\ cpu \in Reachable /\ cpu >= current_cpu
             /\ \A c \in Reachable : current_cpu <= c => cpu <= c
    <3>1. \A i \in 1 .. Len(pinned) : /\ pinned[i] \in Reachable
                                      /\ pinned[i] < current_cpu
                                      /\ pinned[i] < cpu
      BY <1>3, <1>4, <2>3 DEF Ascends
    <3>2. ASSUME NEW i \in 1 .. Len(pinned) + 1
          PROVE  pinned'[i] \in Reachable /\ pinned'[i] < cpu + 1
      BY <1>3, <1>4, <2>3, <3>1
    <3>3. ASSUME NEW i \in 1 .. Len(pinned) + 1, NEW j \in 1 .. Len(pinned) + 1, i < j
          PROVE  pinned'[i] < pinned'[j]
      <4>1. i \in 1 .. Len(pinned) /\ pinned'[i] = pinned[i]
        BY <1>4, <3>3
      <4>2. CASE j = Len(pinned) + 1
        BY <1>4, <3>1, <4>1, <4>2
      <4>3. CASE j \in 1 .. Len(pinned)
        BY <1>4, <2>3, <3>3, <4>1, <4>3 DEF Ascends
      <4> QED
        BY <1>4, <4>2, <4>3
    <3>4. ASSUME NEW c \in Reachable, c < cpu + 1
          PROVE  c \in Cpus'
      <4>1. CASE c = cpu
        BY <1>5, <4>1
      <4>2. CASE c # cpu
        <5>1. c < current_cpu
          BY <1>3, <2>3, <3>4, <4>2
        <5> QED
          BY <1>5, <2>3, <5>1 DEF Ascends
      <4> QED
        BY <4>1, <4>2
    <3> QED
      BY <1>1, <1>2, <1>3, <1>4, <3>2, <3>3, <3>4 DEF Ascends
  <2> QED
    BY <1>1, <2>1, <2>2, <2>3 DEF IInv
<1>9. Shows'
  BY <1>2 DEF Shows
<1> QED
  BY <1>6, <1>7, <1>8, <1>9 DEF IInv

-----------------------------------------------------------------------------
(* What cpuset2str shows.                                                  *)

LEMMA CpusAreNaturals ==
    ASSUME Types
    PROVE  /\ all_cpus \subseteq Nat /\ CPU_SETSIZE \in Nat \ {0}
           /\ \A c \in all_cpus : c <= CPU_SETSIZE - 1
           /\ IsFiniteSet(all_cpus)
<1>1. /\ all_cpus \subseteq Nat /\ CPU_SETSIZE \in Nat \ {0}
      /\ \A c \in all_cpus : c <= CPU_SETSIZE - 1
  BY CpuSetAssumption DEF Types
<1> QED
  BY <1>1, FS_BoundedSetOfNaturals

\* Consecutive cpus with a gap on both sides are the run of each of them.
LEMMA RunBetweenGaps ==
    ASSUME Types, Asked = all_cpus,
           NEW m \in Nat, NEW h \in Nat, m .. h \subseteq all_cpus,
           m - 1 \notin all_cpus, h + 1 \notin all_cpus,
           NEW c \in m .. h
    PROVE  /\ RunOf(c) = m .. h
           /\ Cardinality(RunOf(c)) = h - m + 1
           /\ Min(RunOf(c)) = m
<1>1. all_cpus \subseteq Nat
  BY CpusAreNaturals
<1>2. ASSUME NEW d \in RunOf(c) PROVE d \in m .. h
  <2>1. d \in Nat /\ (c .. d) \cup (d .. c) \subseteq all_cpus
    BY <1>1, <1>2 DEF RunOf
  <2>2. m - 1 \notin d .. c /\ h + 1 \notin c .. d
    BY <2>1
  <2>3. ~(d < m)
    BY <2>1, <2>2
  <2>4. ~(d > h)
    BY <2>1, <2>2
  <2> QED
    BY <2>1, <2>3, <2>4
<1>3. ASSUME NEW d \in m .. h PROVE d \in RunOf(c)
  <2>1. (c .. d) \cup (d .. c) \subseteq m .. h
    BY <1>3
  <2> QED
    BY <1>3, <2>1 DEF RunOf
<1>4. RunOf(c) = m .. h
  BY <1>2, <1>3
<1>5. Cardinality(m .. h) = h - m + 1
  BY FS_Interval
<1>6. m .. h \in SUBSET Nat /\ m \in m .. h
  OBVIOUS
<1>7. Min(m .. h) \in m .. h /\ Min(m .. h) <= m
  BY <1>6, MinIsLeast
<1>8. Min(m .. h) = m
  BY <1>7
<1> QED
  BY <1>4, <1>5, <1>8

\* Every cpu is in a run, and the inner loop of cpuset2str finds its end.
LEMMA RunExists ==
    ASSUME Types, Asked = all_cpus, NEW c \in all_cpus
    PROVE  \E m, h \in Nat :
            /\ m <= c /\ c <= h /\ m .. h \subseteq all_cpus
            /\ m - 1 \notin all_cpus /\ h + 1 \notin all_cpus
            /\ h = Max({d \in all_cpus : c .. d \subseteq all_cpus})
<1> DEFINE L == {d \in all_cpus : d .. c \subseteq all_cpus}
           H == {d \in all_cpus : c .. d \subseteq all_cpus}
<1>1. /\ all_cpus \subseteq Nat /\ c \in Nat /\ CPU_SETSIZE \in Nat \ {0}
      /\ \A d \in all_cpus : d <= CPU_SETSIZE - 1
  BY CpusAreNaturals
<1>2. c .. c = {c}
  BY <1>1
<1>3. L \in SUBSET Nat /\ H \in SUBSET Nat /\ c \in L /\ c \in H
  BY <1>1, <1>2
<1>4. PICK m \in Nat : m \in L /\ \A d \in L : m <= d
  BY <1>3, MinIsLeast
<1>5. PICK h \in Nat : h \in H /\ (\A d \in H : d <= h) /\ h = Max(H)
  <2>1. CPU_SETSIZE - 1 \in Nat /\ \A d \in H : d <= CPU_SETSIZE - 1
    BY <1>1
  <2> QED
    BY <1>3, <2>1, MaxIsGreatest
<1>6. m <= c /\ c <= h
  BY <1>3, <1>4, <1>5
<1>7. m .. h \subseteq all_cpus
  <2>1. m .. c \subseteq all_cpus /\ c .. h \subseteq all_cpus
    BY <1>4, <1>5
  <2> QED
    BY <1>1, <1>6, <2>1
<1>8. ASSUME m - 1 \in all_cpus PROVE FALSE
  <2>1. m - 1 \in Nat /\ m - 1 .. c \subseteq {m - 1} \cup (m .. c)
    BY <1>1, <1>6, <1>8
  <2>2. m - 1 \in L
    BY <1>4, <1>8, <2>1
  <2> QED
    BY <1>4, <2>2
<1>9. ASSUME h + 1 \in all_cpus PROVE FALSE
  <2>1. c .. h + 1 \subseteq {h + 1} \cup (c .. h)
    BY <1>1, <1>6
  <2>2. h + 1 \in H
    BY <1>5, <1>9, <2>1
  <2> QED
    BY <1>5, <2>2
<1> QED
  BY <1>5, <1>6, <1>7, <1>8, <1>9

\* One more cpu on the list, behind the others.
LEMMA OneMoreShown ==
    ASSUME shown \in Seq(Nat), lo_cpu \in Nat, shown' = Append(shown, lo_cpu),
           \A i \in DOMAIN shown : shown[i] < lo_cpu,
           \A i, j \in DOMAIN shown : i < j => shown[i] < shown[j]
    PROVE  /\ {shown'[i] : i \in DOMAIN shown'}
                = {shown[i] : i \in DOMAIN shown} \cup {lo_cpu}
           /\ \A i, j \in DOMAIN shown' : i < j => shown'[i] < shown'[j]
<1>1. /\ Len(shown) \in Nat /\ DOMAIN shown = 1 .. Len(shown)
      /\ DOMAIN shown' = 1 .. Len(shown) + 1
      /\ \A i \in 1 .. Len(shown) : shown'[i] = shown[i]
      /\ shown'[Len(shown) + 1] = lo_cpu
  OBVIOUS
<1>2. {shown'[i] : i \in DOMAIN shown'} \subseteq
            {shown[i] : i \in DOMAIN shown} \cup {lo_cpu}
  BY <1>1
<1>3. {shown[i] : i \in DOMAIN shown} \cup {lo_cpu} \subseteq
            {shown'[i] : i \in DOMAIN shown'}
  BY <1>1
<1>4. ASSUME NEW i \in 1 .. Len(shown) + 1, NEW j \in 1 .. Len(shown) + 1, i < j
      PROVE  shown'[i] < shown'[j]
  <2>1. i \in 1 .. Len(shown) /\ shown'[i] = shown[i]
    BY <1>1, <1>4
  <2>2. CASE j = Len(shown) + 1
    BY <1>1, <2>1, <2>2
  <2>3. CASE j \in 1 .. Len(shown)
    BY <1>1, <1>4, <2>1, <2>3
  <2> QED
    BY <1>1, <2>2, <2>3
<1> QED
  BY <1>1, <1>2, <1>3, <1>4

\* All that cpuset2str leaves alone.
LEMMA OthersHold ==
    ASSUME IInv, phase # "parsing", phase' = phase,
           UNCHANGED <<field, all_cpus, pinVars, given>>
    PROVE  Parsed' /\ NothingElse' /\ (Ascends \/ Wrapped)'
<1>1. Parsed'
  BY DEF IInv, Parsed, Asked, pinVars
<1>2. NothingElse'
  BY DEF IInv, NothingElse, Cpus, Reachable, pinVars
<1>3. Ascends => Ascends'
  BY DEF Ascends, Cpus, Reachable, pinVars
<1>4. Wrapped => Wrapped'
  BY DEF Wrapped, Cpus, Reachable, pinVars
<1> QED
  BY <1>1, <1>2, <1>3, <1>4 DEF IInv

LEMMA ShowHolds ==
    ASSUME IInv, Show
    PROVE  IInv'
<1> DEFINE Left(n) == {c \in all_cpus : c >= n}
           Listed(n) == {c \in Asked : /\ c < n
                                       /\ c = Min(RunOf(c)) \/ Cardinality(RunOf(c)) < 4}
<1>1. /\ phase = "showing" /\ count > 0 /\ lo_cpu \in all_cpus
      /\ UNCHANGED <<phase, field, all_cpus, pinVars, given>>
      /\ shown' = Append(shown, lo_cpu)
  BY DEF Show, ShowPassing
<1>2. /\ Types /\ Asked = all_cpus /\ field = <<>>
      /\ all_cpus \subseteq Nat /\ lo_cpu \in Nat /\ hi_cpu \in Nat
      /\ shown \in Seq(Nat) /\ hi_cpu <= CPU_SETSIZE - 1 /\ CPU_SETSIZE \in Nat \ {0}
      /\ \A c \in all_cpus : c <= CPU_SETSIZE - 1
      /\ IsFiniteSet(all_cpus)
  <2>1. Asked = all_cpus \cup Named(field) /\ field = <<>>
    BY <1>1 DEF IInv, Parsed
  <2>2. Named(field) = {}
    BY <2>1 DEF Named
  <2> QED
    BY <2>1, <2>2, CpusAreNaturals DEF IInv, Types
<1>3. /\ count = Cardinality(Left(lo_cpu))
      /\ {shown[i] : i \in DOMAIN shown} = Listed(lo_cpu)
      /\ \A i, j \in DOMAIN shown : i < j => shown[i] < shown[j]
      /\ lo_cpu - 1 \in all_cpus => Cardinality(RunOf(lo_cpu)) < 4
  BY <1>1 DEF IInv, Shows
<1>4. PICK m \in Nat, h \in Nat :
            /\ m <= lo_cpu /\ lo_cpu <= h /\ m .. h \subseteq all_cpus
            /\ m - 1 \notin all_cpus /\ h + 1 \notin all_cpus
            /\ h = EndOfRun
  BY <1>1, <1>2, RunExists DEF EndOfRun
<1>5. \A c \in m .. h : /\ RunOf(c) = m .. h
                        /\ Cardinality(RunOf(c)) = h - m + 1
                        /\ Min(RunOf(c)) = m
  BY <1>2, <1>4, RunBetweenGaps
<1>6. /\ hi_cpu' \in Nat /\ hi_cpu' <= CPU_SETSIZE - 1
      /\ hi_cpu' = IF lo_cpu < CPU_SETSIZE - 2 THEN h ELSE hi_cpu
  <2>1. h \in all_cpus
    BY <1>2, <1>4
  <2> QED
    BY <1>2, <1>4, <2>1 DEF Show, ShowPassing
<1>7. /\ {shown'[i] : i \in DOMAIN shown'} = Listed(lo_cpu) \cup {lo_cpu}
      /\ \A i, j \in DOMAIN shown' : i < j => shown'[i] < shown'[j]
  <2>1. \A i \in DOMAIN shown : shown[i] \in Listed(lo_cpu)
    BY <1>3
  <2>2. \A i \in DOMAIN shown : shown[i] < lo_cpu
    BY <2>1
  <2> QED
    BY <1>1, <1>2, <1>3, <2>2, OneMoreShown
<1>8. /\ Asked' = Asked
      /\ \A n : {c \in Asked' : /\ c < n
                                /\ c = Min(RunOf(c))' \/ Cardinality(RunOf(c))' < 4}
                    = Listed(n)
      /\ \A n : RunOf(n)' = RunOf(n)
  BY <1>1 DEF Asked, RunOf
<1>9. CASE hi_cpu' - lo_cpu > 2
  <2>1. hi_cpu' = h /\ lo_cpu < CPU_SETSIZE - 2
    BY <1>2, <1>6, <1>9
  <2>2. count' = count - (h - lo_cpu + 1) /\ lo_cpu' = h + 2
    BY <1>9, <2>1 DEF Show, ShowPassing
  <2>3. m = lo_cpu
    <3>1. ASSUME m # lo_cpu PROVE FALSE
      <4>1. lo_cpu - 1 \in m .. h /\ lo_cpu \in m .. h
        BY <1>2, <1>4, <3>1
      <4>2. Cardinality(RunOf(lo_cpu)) = h - m + 1 /\ h - m + 1 < 4
        BY <1>3, <1>4, <1>5, <4>1
      <4> QED
        BY <1>2, <1>4, <1>9, <2>1, <4>2
    <3> QED
      BY <3>1
  <2>4. Listed(h + 2) = Listed(lo_cpu) \cup {lo_cpu}
    <3>1. ASSUME NEW c \in Listed(h + 2), c \notin Listed(lo_cpu)
          PROVE  c = lo_cpu
      <4>1. c \in all_cpus /\ c >= lo_cpu /\ c < h + 2 /\ c # h + 1 /\ c \in Nat
        BY <1>2, <1>4, <3>1
      <4>2. c \in m .. h
        BY <1>2, <2>3, <4>1
      <4>3. ~(h - m + 1 < 4)
        BY <1>2, <1>9, <2>1, <2>3
      <4> QED
        BY <1>5, <2>3, <3>1, <4>2, <4>3
    <3>2. ASSUME NEW c \in Listed(lo_cpu) PROVE c \in Listed(h + 2)
      <4>1. c \in Nat /\ c < lo_cpu
        BY <1>2, <3>2
      <4> QED
        BY <1>2, <1>4, <3>2, <4>1
    <3>3. lo_cpu \in Listed(h + 2)
      <4>1. lo_cpu \in m .. h /\ lo_cpu < h + 2
        BY <1>2, <1>4
      <4> QED
        BY <1>1, <1>2, <1>5, <2>3, <4>1
    <3> QED
      BY <3>1, <3>2, <3>3
  <2>5. count' = Cardinality(Left(h + 2)) /\ count' \in Nat
    <3>1. Left(lo_cpu) = (lo_cpu .. h) \cup Left(h + 2)
      <4>1. ASSUME NEW c \in Left(lo_cpu) PROVE c \in (lo_cpu .. h) \cup Left(h + 2)
        <5>1. c \in Nat /\ c \in all_cpus /\ c >= lo_cpu /\ c # h + 1
          BY <1>2, <1>4, <4>1
        <5> QED
          BY <1>2, <5>1
      <4>2. ASSUME NEW c \in lo_cpu .. h PROVE c \in Left(lo_cpu)
        BY <1>2, <1>4, <2>3, <4>2
      <4>3. ASSUME NEW c \in Left(h + 2) PROVE c \in Left(lo_cpu)
        BY <1>2, <1>4, <4>3
      <4> QED
        BY <4>1, <4>2, <4>3
    <3>2. (lo_cpu .. h) \cap Left(h + 2) = {}
      BY <1>2
    <3>3. /\ IsFiniteSet(Left(h + 2)) /\ IsFiniteSet(lo_cpu .. h)
          /\ Cardinality(Left(h + 2)) \in Nat
          /\ Cardinality(lo_cpu .. h) = h - lo_cpu + 1
      <4>1. IsFiniteSet(Left(h + 2))
        BY <1>2, FS_Subset
      <4>2. Cardinality(Left(h + 2)) \in Nat
        BY <4>1, FS_CardinalityType
      <4>3. /\ IsFiniteSet(lo_cpu .. h)
            /\ Cardinality(lo_cpu .. h) = IF lo_cpu > h THEN 0 ELSE h - lo_cpu + 1
        BY <1>2, FS_Interval
      <4> QED
        BY <1>2, <1>4, <4>1, <4>2, <4>3
    <3>4. Cardinality(Left(lo_cpu))
            = Cardinality(lo_cpu .. h) + Cardinality(Left(h + 2)) - Cardinality({})
      <4> HIDE DEF Left
      <4> QED
        BY <3>1, <3>2, <3>3, FS_Union
    <3>5. Cardinality({}) = 0
      BY FS_EmptySet
    <3> QED
      BY <1>2, <1>3, <1>4, <2>2, <3>3, <3>4, <3>5
  <2>6. lo_cpu' - 1 \notin all_cpus
    BY <1>4, <2>2
  <2> HIDE DEF Left
  <2>7. Shows'
    <3>1. Left(h + 2) = {c \in all_cpus' : c >= lo_cpu'}
      BY <1>1, <2>2 DEF Left
    <3> HIDE DEF Listed
    <3> QED
      BY <1>1, <1>7, <1>8, <2>2, <2>4, <2>5, <2>6, <3>1 DEF Shows, Listed
  <2>8. Types'
    BY <1>1, <1>2, <1>4, <1>6, <2>2, <2>5 DEF Types, pinVars
  <2> QED
    BY <1>1, <2>7, <2>8, OthersHold DEF IInv
<1>10. CASE ~(hi_cpu' - lo_cpu > 2)
  <2>1. count' = count - 1 /\ lo_cpu' = lo_cpu + 1
    BY <1>10 DEF Show, ShowPassing
  <2>2. lo_cpu \in m .. h
    BY <1>2, <1>4
  <2>3. lo_cpu = m \/ h - m + 1 < 4
    <3>1. lo_cpu # m => lo_cpu - 1 \in m .. h
      BY <1>2, <1>4
    <3> QED
      BY <1>3, <1>4, <1>5, <2>2, <3>1
  <2>4. Listed(lo_cpu + 1) = Listed(lo_cpu) \cup {lo_cpu}
    <3>1. ASSUME NEW c \in Listed(lo_cpu + 1), c \notin Listed(lo_cpu)
          PROVE  c = lo_cpu
      <4>1. c \in Nat /\ c < lo_cpu + 1 /\ ~(c < lo_cpu)
        BY <1>2, <3>1
      <4> QED
        BY <1>2, <4>1
    <3>2. ASSUME NEW c \in Listed(lo_cpu) PROVE c \in Listed(lo_cpu + 1)
      <4>1. c \in Nat /\ c < lo_cpu
        BY <1>2, <3>2
      <4> QED
        BY <1>2, <3>2, <4>1
    <3>3. lo_cpu \in Listed(lo_cpu + 1)
      BY <1>1, <1>2, <1>5, <2>2, <2>3
    <3> QED
      BY <3>1, <3>2, <3>3
  <2>5. count' = Cardinality(Left(lo_cpu + 1)) /\ count' \in Nat
    <3>1. Left(lo_cpu) = Left(lo_cpu + 1) \cup {lo_cpu}
      <4>1. \A c \in Nat : c >= lo_cpu <=> c >= lo_cpu + 1 \/ c = lo_cpu
        BY <1>2
      <4> QED
        BY <1>1, <1>2, <4>1
    <3>2. lo_cpu \notin Left(lo_cpu + 1)
      BY <1>2
    <3>3. IsFiniteSet(Left(lo_cpu + 1)) /\ Cardinality(Left(lo_cpu + 1)) \in Nat
      BY <1>2, FS_Subset, FS_CardinalityType
    <3>4. Cardinality(Left(lo_cpu)) = Cardinality(Left(lo_cpu + 1)) + 1
      <4> HIDE DEF Left
      <4> QED
        BY <3>1, <3>2, <3>3, FS_AddElement
    <3> QED
      BY <1>3, <2>1, <3>3, <3>4
  <2>6. lo_cpu + 1 \in all_cpus => Cardinality(RunOf(lo_cpu + 1)) < 4
    <3>1. ASSUME lo_cpu + 1 \in all_cpus
          PROVE  lo_cpu + 1 \in m .. h
      BY <1>2, <1>4, <3>1
    <3>2. h - m + 1 < 4
      <4>1. CASE lo_cpu = m
        <5>1. h \in all_cpus
          BY <1>2, <1>4
        <5> QED
          BY <1>2, <1>4, <1>6, <1>10, <4>1, <5>1
      <4> QED
        BY <2>3, <4>1
    <3> QED
      BY <1>5, <3>1, <3>2
  <2> HIDE DEF Left
  <2>7. Shows'
    <3>1. Left(lo_cpu + 1) = {c \in all_cpus' : c >= lo_cpu'}
      BY <1>1, <2>1 DEF Left
    <3> HIDE DEF Listed
    <3> QED
      BY <1>1, <1>7, <1>8, <2>1, <2>4, <2>5, <2>6, <3>1 DEF Shows, Listed
  <2>8. Types'
    BY <1>1, <1>2, <1>6, <2>1, <2>5 DEF Types, pinVars
  <2> QED
    BY <1>1, <2>7, <2>8, OthersHold DEF IInv
<1> QED
  BY <1>9, <1>10

LEMMA SkipHolds ==
    ASSUME IInv, Skip
    PROVE  IInv'
<1>1. /\ phase = "showing" /\ lo_cpu \notin all_cpus
      /\ lo_cpu' = lo_cpu + 1
      /\ UNCHANGED <<phase, field, all_cpus, pinVars, hi_cpu, count, shown, given>>
  BY DEF Skip
<1>2. all_cpus \subseteq Nat /\ lo_cpu \in Nat /\ Asked = all_cpus
  <2>1. Asked = all_cpus \cup Named(field) /\ field = <<>>
    BY <1>1 DEF IInv, Parsed
  <2> QED
    BY <2>1, CpusAreNaturals DEF IInv, Types, Named
<1>3. \A c \in all_cpus : /\ c >= lo_cpu <=> c >= lo_cpu + 1
                          /\ c < lo_cpu <=> c < lo_cpu + 1
  BY <1>1, <1>2
<1>4. lo_cpu' - 1 = lo_cpu
  BY <1>1, <1>2
<1>5. Asked' = Asked /\ \A c : RunOf(c)' = RunOf(c)
  BY <1>1 DEF Asked, RunOf
<1>6. {c \in all_cpus' : c >= lo_cpu'} = {c \in all_cpus : c >= lo_cpu}
  BY <1>1, <1>3
<1>7. {c \in Asked' : /\ c < lo_cpu'
                      /\ c = Min(RunOf(c))' \/ Cardinality(RunOf(c))' < 4}
        = {c \in Asked : /\ c < lo_cpu
                         /\ c = Min(RunOf(c)) \/ Cardinality(RunOf(c)) < 4}
  BY <1>1, <1>2, <1>3, <1>5
<1>8. Shows'
  <2>1. /\ count = Cardinality({c \in all_cpus : c >= lo_cpu})
        /\ {shown[i] : i \in DOMAIN shown} =
                {c \in Asked : /\ c < lo_cpu
                               /\ c = Min(RunOf(c)) \/ Cardinality(RunOf(c)) < 4}
        /\ \A i, j \in DOMAIN shown : i < j => shown[i] < shown[j]
    BY <1>1 DEF IInv, Shows
  <2>2. lo_cpu' - 1 \notin all_cpus'
    BY <1>1, <1>4
  <2> QED
    BY <1>1, <1>6, <1>7, <2>1, <2>2 DEF Shows
<1>9. Types'
  BY <1>1, <1>2 DEF IInv, Types, pinVars
<1> QED
  BY <1>1, <1>8, <1>9, OthersHold DEF IInv

-----------------------------------------------------------------------------
(* str2cpuset.                                                             *)

LEMMA AcceptHolds ==
    ASSUME IInv, Accept
    PROVE  IInv'
<1> DEFINE t == Head(field)
<1>1. /\ phase = "parsing" /\ phase' = phase /\ field # <<>>
      /\ field' = Tail(field)
      /\ UNCHANGED <<current_cpu, pinned, lo_cpu, hi_cpu, count, shown, given>>
      /\ all_cpus' = all_cpus \cup (t.lo .. t.hi)
      /\ ~Rejected(t)
  BY DEF Accept, AcceptUpTo, pinVars, showVars
<1>2. t.lo \in Nat /\ t.hi \in Nat /\ t.lo < CPU_SETSIZE /\ t.hi < CPU_SETSIZE
  <2>1. t \in Token
    BY <1>1 DEF IInv, Types
  <2> QED
    BY <1>1, <2>1, CpuSetAssumption DEF Rejected, Token
<1>3. Types'
  <2>1. t.lo .. t.hi \subseteq 0 .. CPU_SETSIZE - 1
    BY <1>2, CpuSetAssumption
  <2>2. all_cpus' \subseteq 0 .. CPU_SETSIZE - 1
    BY <1>1, <2>1 DEF IInv, Types
  <2> QED
    BY <1>1, <2>2 DEF IInv, Types
<1>4. Parsed'
  <2>1. {field[i] : i \in DOMAIN field} = {t} \cup {Tail(field)[i] : i \in DOMAIN Tail(field)}
    <3>1. /\ field \in Seq(Token) /\ Len(field) \in Nat \ {0}
          /\ DOMAIN field = 1 .. Len(field)
          /\ DOMAIN Tail(field) = 1 .. Len(field) - 1
          /\ \A i \in 1 .. Len(field) - 1 : Tail(field)[i] = field[i + 1]
          /\ t = field[1]
      BY <1>1 DEF IInv, Types
    <3>2. ASSUME NEW i \in DOMAIN field, i # 1
          PROVE  i - 1 \in DOMAIN Tail(field) /\ Tail(field)[i - 1] = field[i]
      BY <3>1, <3>2
    <3>3. ASSUME NEW i \in DOMAIN Tail(field)
          PROVE  i + 1 \in DOMAIN field /\ Tail(field)[i] = field[i + 1]
      BY <3>1, <3>3
    <3>4. 1 \in DOMAIN field
      BY <3>1
    <3> HIDE DEF t
    <3>5. ASSUME NEW i \in DOMAIN field
          PROVE  field[i] \in {t} \cup {Tail(field)[j] : j \in DOMAIN Tail(field)}
      BY <3>1, <3>2
    <3>6. t \in {field[i] : i \in DOMAIN field}
      BY <3>1, <3>4
    <3>7. ASSUME NEW i \in DOMAIN Tail(field)
          PROVE  Tail(field)[i] \in {field[j] : j \in DOMAIN field}
      BY <3>3
    <3> QED
      BY <3>5, <3>6, <3>7
  <2>2. Named(field) = (t.lo .. t.hi) \cup Named(Tail(field))
    <3> HIDE DEF t
    <3> QED
      BY <2>1 DEF Named
  <2>3. Asked = all_cpus \cup Named(field) /\ Asked' = Asked
    BY <1>1 DEF IInv, Parsed, Asked
  <2>4. Asked' = all_cpus' \cup Named(field')
    BY <1>1, <2>2, <2>3
  <2> QED
    BY <1>1, <2>4 DEF IInv, Parsed
<1>5. pinned' = <<>> /\ current_cpu' = 0 /\ all_cpus' \subseteq Nat /\ MaxCpu \in Nat \ {0, 1}
  BY <1>1, <1>3, CpuSetAssumption DEF IInv, Types, Parsed
<1>6. NothingElse'
  BY <1>5 DEF NothingElse, Cpus
<1>7. Ascends'
  <2>1. Reachable' \subseteq Nat
    BY <1>5 DEF Reachable
  <2> QED
    BY <1>5, <2>1 DEF Ascends
<1>8. Shows'
  BY <1>1 DEF Shows
<1> QED
  BY <1>3, <1>4, <1>6, <1>7, <1>8 DEF IInv

LEMMA EndOfFieldHolds ==
    ASSUME IInv, EndOfField
    PROVE  IInv'
<1>1. /\ phase = "parsing" /\ field = <<>> /\ phase' \in {"pinning", "showing"}
      /\ count' = Cardinality(all_cpus)
      /\ UNCHANGED <<field, all_cpus, current_cpu, pinned, lo_cpu, hi_cpu, shown, given>>
  BY DEF EndOfField, pinVars
<1>2. /\ all_cpus \subseteq Nat /\ IsFiniteSet(all_cpus)
      /\ lo_cpu = 0 /\ shown = <<>> /\ Asked = all_cpus
  <2>1. Asked = all_cpus \cup Named(field) /\ lo_cpu = 0 /\ shown = <<>>
    BY <1>1 DEF IInv, Parsed
  <2> QED
    BY <1>1, <2>1, CpusAreNaturals DEF IInv, Types, Named
<1>3. count' \in Nat
  BY <1>1, <1>2, FS_CardinalityType
<1>4. Types'
  BY <1>1, <1>3 DEF IInv, Types
<1>5. Parsed'
  BY <1>1 DEF IInv, Parsed, Asked
<1>6. NothingElse' /\ (Ascends \/ Wrapped)'
  BY <1>1 DEF IInv, NothingElse, Ascends, Wrapped, Cpus, Reachable
<1>7. Shows'
  <2>1. {c \in all_cpus' : c >= lo_cpu'} = all_cpus
    <3>1. \A c \in all_cpus : c >= 0
      BY <1>2
    <3> QED
      BY <1>1, <1>2, <3>1
  <2>2. {c \in Asked' : /\ c < lo_cpu'
                        /\ c = Min(RunOf(c))' \/ Cardinality(RunOf(c))' < 4} = {}
    <3>1. Asked' = all_cpus /\ lo_cpu' = 0
      BY <1>1, <1>2 DEF Asked
    <3>2. \A c \in Asked' : ~(c < lo_cpu')
      BY <1>2, <3>1
    <3> QED
      BY <3>2
  <2>3. {shown'[i] : i \in DOMAIN shown'} = {} /\ DOMAIN shown' = {}
    BY <1>1, <1>2
  <2>4. lo_cpu' - 1 \notin all_cpus'
    BY <1>1, <1>2
  <2> QED
    BY <1>1, <2>1, <2>2, <2>3, <2>4 DEF Shows
<1> QED
  BY <1>4, <1>5, <1>6, <1>7 DEF IInv

-----------------------------------------------------------------------------
(* The theorems.                                                           *)

\* The inductive invariant.
THEOREM Invariance == Spec => []IInv
<1>1. Init => IInv
  <2> SUFFICES ASSUME Init PROVE IInv
    OBVIOUS
  <2>1. Types
    BY CpuSetAssumption DEF Init, Types
  <2>2. Parsed
    BY DEF Init, Parsed, Asked, Named
  <2>3. NothingElse /\ Ascends /\ Shows
    BY CpuSetAssumption DEF Init, NothingElse, Ascends, Shows, Cpus, Reachable
  <2> QED
    BY <2>1, <2>2, <2>3 DEF IInv
<1>2. ASSUME IInv, UNCHANGED <<field, all_cpus, pinVars, showVars, given>>,
             phase' = phase \/ phase' \in {"done", "exited"},
             phase' # "exited" => phase' = phase \/ phase \notin {"parsing", "exited"}
      PROVE  IInv'
  <2>1. Types'
    BY <1>2 DEF IInv, Types, pinVars, showVars
  <2>2. Parsed'
    BY <1>2 DEF IInv, Parsed, Asked, pinVars, showVars
  <2>3. NothingElse' /\ (Ascends \/ Wrapped)'
    BY <1>2 DEF IInv, NothingElse, Ascends, Wrapped, Cpus, Reachable, pinVars
  <2>4. Shows'
    <3> SUFFICES ASSUME phase' = "showing" PROVE Shows'
      BY DEF Shows
    <3>1. phase = "showing" /\ Shows
      BY <1>2 DEF IInv
    <3>2. Asked' = Asked
      BY <1>2 DEF Asked
    <3>3. \A c : RunOf(c)' = RunOf(c)
      BY <3>2 DEF RunOf
    <3>4. all_cpus' = all_cpus /\ UNCHANGED showVars
      BY <1>2
    <3> QED
      BY <3>1, <3>2, <3>3, <3>4 DEF Shows, showVars
  <2> QED
    BY <2>1, <2>2, <2>3, <2>4 DEF IInv
<1>3. IInv /\ [Next]_vars => IInv'
  <2> SUFFICES ASSUME IInv, [Next]_vars PROVE IInv'
    OBVIOUS
  <2>1. CASE Reject \/ AllPinned \/ AllShown \/ UNCHANGED vars
    BY <1>2, <2>1 DEF Reject, AllPinned, AllShown, vars
  <2> QED
    BY <2>1, AcceptHolds, EndOfFieldHolds, PinHolds, SkipHolds, ShowHolds DEF Next, Ended
<1> QED
  BY <1>1, <1>3, PTL DEF Spec

\* The threads of a benchmark get cpus of their own, all of them asked for
\* (options.c:59), as long as the search of get_next_cpu can reach them, for
\* any field and any numbers of cpus.
THEOREM ThreadsApart == Spec => []OneThreadPerCpu
<1>1. ASSUME IInv PROVE OneThreadPerCpu
  <2> SUFFICES ASSUME all_cpus = Reachable
               PROVE  /\ Cpus \subseteq all_cpus
                      /\ \A i, j \in DOMAIN pinned : i < j => pinned[i] < pinned[j]
    BY DEF OneThreadPerCpu
  <2>1. Ascends
    BY <1>1 DEF IInv, Wrapped
  <2> QED
    BY <2>1 DEF Ascends, Cpus
<1> QED
  BY <1>1, Invariance, PTL

\* When the loop of parse_options has ended, each cpu asked for that can be reached
\* has a thread, and if there is one that cannot be, cpu 0 has one instead.
THEOREM AllPinnedOrCpuZero == Spec => []EveryCpuPinned
<1>1. ASSUME IInv PROVE EveryCpuPinned
  <2> SUFFICES ASSUME phase = "pinning", Len(pinned) = Cardinality(all_cpus)
               PROVE  /\ all_cpus = Asked
                      /\ Reachable \subseteq Cpus
                      /\ Cpus = IF Asked = Reachable THEN Asked ELSE Reachable \cup {0}
    BY DEF EveryCpuPinned
  <2>1. Asked = all_cpus
    <3>1. Asked = all_cpus \cup Named(field) /\ field = <<>>
      BY <1>1 DEF IInv, Parsed
    <3> QED
      BY <3>1 DEF Named
  <2>2. Cpus \subseteq Reachable \cup {0} /\ Reachable \subseteq all_cpus
    BY <1>1 DEF IInv, NothingElse, Reachable
  <2>3. CASE Ascends
    <3>1. Cpus = all_cpus /\ Cpus \subseteq Reachable
      BY <1>1, <2>3, NoneIsLeft DEF IInv, Ascends, Cpus
    <3> QED
      BY <2>1, <2>2, <3>1
  <2>4. CASE Wrapped
    BY <2>1, <2>2, <2>4 DEF Wrapped
  <2> QED
    BY <1>1, <2>3, <2>4 DEF IInv
<1> QED
  BY <1>1, Invariance, PTL

\* At every turn of the loop of cpuset2str, the cpus on the list are those below
\* lo_cpu that begin a run or are in one of less than four, and count is the number
\* of those it is yet to come to.
THEOREM RunsShownByTheirFirst == Spec => []ShownCpus
<1>1. IInv => ShownCpus
  <2> SUFFICES ASSUME IInv, phase = "showing" PROVE ShownCpus
    BY DEF ShownCpus
  <2>1. Asked = all_cpus
    <3>1. Asked = all_cpus \cup Named(field) /\ field = <<>>
      BY DEF IInv, Parsed
    <3> QED
      BY <3>1 DEF Named
  <2> QED
    BY <2>1 DEF IInv, Shows, ShownCpus
<1> QED
  BY <1>1, Invariance, PTL
==============================================================================
