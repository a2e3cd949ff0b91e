---------------------------- MODULE OptionsProofs ----------------------------
(***************************************************************************)
(* Proofs about Options.                                                   *)
(***************************************************************************)
EXTENDS Options, FiniteSetTheorems, TLAPS

-----------------------------------------------------------------------------
(* Division.                                                               *)

\* What \div and % return.
LEMMA Quotient ==
    ASSUME NEW a \in Nat, NEW n \in Nat \ {0}
    PROVE  /\ a \div n \in Nat /\ a % n \in 0 .. n - 1
           /\ a = n * (a \div n) + (a % n)
  OBVIOUS

\* A multiple larger than a smaller one is larger by the factor at least.
LEMMA MultiplesApart ==
    ASSUME NEW n \in Nat \ {0}, NEW q \in Int, NEW p \in Int, q < p
    PROVE  n * q + n <= n * p
<1>1. PICK d \in Nat : p = q + 1 + d
  <2>1. p - q - 1 \in Nat /\ p = q + 1 + (p - q - 1)
    OBVIOUS
  <2> QED
    BY <2>1
<1>2. n * p = n * q + n + n * d
  BY <1>1
<1>3. n * d >= 0
  OBVIOUS
<1> QED
  BY <1>2, <1>3

\* Nothing else divides like them.
LEMMA QuotientUnique ==
    ASSUME NEW n \in Nat \ {0}, NEW q \in Nat, NEW rest \in 0 .. n - 1
    PROVE  /\ (n * q + rest) \div n = q
           /\ (n * q + rest) % n = rest
<1> DEFINE a == n * q + rest
<1>1. a \in Nat
  OBVIOUS
<1>2. PICK p \in Nat, s \in 0 .. n - 1 : p = a \div n /\ s = a % n /\ a = n * p + s
  BY <1>1, Quotient
<1>3. ~(p < q)
  BY <1>2, MultiplesApart
<1>4. ~(q < p)
  BY <1>2, MultiplesApart
<1> QED
  BY <1>2, <1>3, <1>4

LEMMA ModOfSum ==
    ASSUME NEW n \in Nat \ {0}, NEW q \in Nat, NEW a \in Nat
    PROVE  (n * q + a) % n = a % n
<1>1. PICK p \in Nat, s \in 0 .. n - 1 : s = a % n /\ a = n * p + s
  BY Quotient
<1>2. n * q + a = n * (q + p) + s
  BY <1>1
<1>3. (n * (q + p) + s) % n = s
  <2>1. q + p \in Nat
    OBVIOUS
  <2> QED
    BY <2>1, QuotientUnique
<1> QED
  BY <1>1, <1>2, <1>3

\* A factor may be cut off before the product is.
LEMMA ModOfProduct ==
    ASSUME NEW n \in Nat \ {0}, NEW a \in Nat, NEW m \in Nat
    PROVE  ((a % n) * m) % n = (a * m) % n
<1>1. PICK p \in Nat, s \in 0 .. n - 1 : s = a % n /\ a = n * p + s
  BY Quotient
<1>2. a * m = n * (p * m) + s * m /\ p * m \in Nat /\ s * m \in Nat
  BY <1>1
<1>3. (n * (p * m) + s * m) % n = (s * m) % n
  BY <1>2, ModOfSum
<1> QED
  BY <1>1, <1>2, <1>3

\* What is counted in a unit and its rest is counted in full.
LEMMA WholeAndRest ==
    ASSUME NEW a \in Nat, NEW n \in Nat \ {0}, NEW m \in Nat
    PROVE  (a \div n) * (n * m) + (a % n) * m = a * m
<1>1. PICK p \in Nat, s \in 0 .. n - 1 : p = a \div n /\ s = a % n /\ a = n * p + s
  BY Quotient
<1>2. p * (n * m) + s * m = (n * p + s) * m
  OBVIOUS
<1> QED
  BY <1>1, <1>2

LEMMA QuotientBounds ==
    ASSUME NEW a \in Nat, NEW n \in Nat \ {0}
    PROVE  /\ (a \div n) * n <= a
           /\ a < (a \div n + 1) * n
<1>1. PICK p \in Nat, s \in 0 .. n - 1 : p = a \div n /\ a = n * p + s
  BY Quotient
<1> QED
  BY <1>1

-----------------------------------------------------------------------------
(* Times.                                                                  *)

Units == {"ns", "us", "ms", "s", "m", "h", "d"}

LEMMA Products ==
    ASSUME NEW a \in Nat \ {0}, NEW m \in Nat \ {0}
    PROVE  a * m \in Nat \ {0}
  OBVIOUS

LEMMA UnitsOfTime ==
    /\ NsPerSecond \in Nat \ {0}
    /\ Thousand * Thousand \in Nat \ {0}
    /\ DOMAIN NsPer = Units
    /\ \A u \in Units : NsPer[u] \in Nat \ {0}
<1>1. /\ Thousand \in Nat \ {0} /\ Sixty \in Nat \ {0} /\ TwentyFour \in Nat \ {0}
  BY OptionsAssumption
<1>2. Thousand * Thousand \in Nat \ {0} /\ Sixty * Sixty \in Nat \ {0}
  BY <1>1, Products
<1>3. NsPerSecond \in Nat \ {0} /\ Sixty * Sixty * TwentyFour \in Nat \ {0}
  BY <1>1, <1>2, Products DEF NsPerSecond
<1>4. /\ NsPerSecond * Sixty \in Nat \ {0} /\ NsPerSecond * (Sixty * Sixty) \in Nat \ {0}
      /\ NsPerSecond * (Sixty * Sixty * TwentyFour) \in Nat \ {0}
  BY <1>1, <1>2, <1>3, Products
<1>5. Seconds.h = Sixty * Sixty /\ Seconds.d = Sixty * Sixty * TwentyFour
  BY DEF Seconds
<1>6. DOMAIN NsPer = Units
  BY DEF NsPer, Units
<1>7. ASSUME NEW u \in Units
      PROVE  NsPer[u] \in Nat \ {0}
  BY <1>1, <1>2, <1>3, <1>4, <1>5 DEF NsPer, Units
<1> QED
  BY <1>2, <1>3, <1>6, <1>7

Timespec == [tv_sec : Nat, tv_nsec : Nat]

LEMMA NanosecondsTyped ==
    ASSUME NEW t \in Timespec
    PROVE  Nanoseconds(t) \in Nat
<1>1. t.tv_sec * NsPerSecond \in Nat
  BY UnitsOfTime DEF Timespec
<1>2. Word \in Nat \ {0}
  BY OptionsAssumption
<1> QED
  BY <1>1, <1>2, Quotient DEF Timespec, Nanoseconds

\* A timespec is the time if the seconds fit into a word.
Exactly(ts, ns) == /\ ts.tv_nsec \in 0 .. NsPerSecond - 1
                   /\ NsPerSecond * ts.tv_sec + ts.tv_nsec = ns

\* What is left of a time: what its nanoseconds are modulo 2^64.
LEMMA InNanoseconds ==
    ASSUME NEW t, IsTime(t)
    PROVE  /\ NsOf(t) \in Nat
           /\ str2timespec(t) \in Timespec
           /\ Nanoseconds(str2timespec(t)) = NsOf(t) % Word
           /\ NsOf(t) < NsPerSecond * Word => Exactly(str2timespec(t), NsOf(t))
<1>1. t.val \in Nat /\ t.unit \in Units
  BY UnitsOfTime DEF IsTime
<1>2. NsOf(t) \in Nat
  BY <1>1, UnitsOfTime DEF NsOf
<1>3. /\ Thousand \in Nat \ {0} /\ Sixty \in Nat \ {0} /\ TwentyFour \in Nat \ {0}
      /\ Word \in Nat \ {0}
  BY OptionsAssumption
<1>4. DOMAIN PerSecond = {"ns", "us", "ms", "s"}
  BY DEF PerSecond
<1>5. ASSUME t.unit \in DOMAIN PerSecond, PerSecond[t.unit] \in Nat \ {0},
             NsPerSecond = PerSecond[t.unit] * NsPer[t.unit]
      PROVE  /\ str2timespec(t) \in Timespec
             /\ Nanoseconds(str2timespec(t)) = NsOf(t) % Word
             /\ Exactly(str2timespec(t), NsOf(t))
  <2> PICK n \in Nat \ {0}, m \in Nat \ {0}, v \in Nat :
          /\ n = PerSecond[t.unit] /\ m = NsPer[t.unit] /\ v = t.val
          /\ NsPerSecond = n * m
    BY <1>1, <1>5, UnitsOfTime
  <2>1. NsPerSecond \div n = m
    <3>1. (n * m + 0) \div n = m
      BY QuotientUnique, SMTT(30)
    <3> QED
      BY <3>1
  <2>2. str2timespec(t) = [tv_sec |-> v \div n, tv_nsec |-> (v % n) * m]
    BY <1>5, <2>1 DEF str2timespec
  <2>3. v \div n \in Nat /\ v % n \in Nat
    <3>1. v \div n \in Nat /\ v % n \in 0 .. n - 1
      BY Quotient
    <3> QED
      BY <3>1
  <2>4. (v % n) * m \in Nat
    BY <2>3
  <2>5. (v \div n) * (n * m) + (v % n) * m = v * m
    BY WholeAndRest
  <2>6. str2timespec(t) \in Timespec /\ Nanoseconds(str2timespec(t)) = NsOf(t) % Word
    BY <1>5, <2>2, <2>3, <2>4, <2>5 DEF Timespec, Nanoseconds, NsOf
  <2>7. (v % n) * m \in 0 .. n * m - 1
    <3>1. v % n \in 0 .. n - 1
      BY Quotient
    <3>2. m * (v % n) + m <= m * n
      BY <3>1, MultiplesApart
    <3>3. (v % n) * m = m * (v % n) /\ n * m = m * n /\ m * (v % n) \in Nat
      BY <2>3
    <3> QED
      BY <2>4, <3>2, <3>3
  <2>8. (n * m) * (v \div n) + (v % n) * m = v * m
    <3>1. (n * m) * (v \div n) = (v \div n) * (n * m)
      BY <2>3
    <3> QED
      BY <2>5, <3>1
  <2>9. Exactly(str2timespec(t), NsOf(t))
    BY <2>2, <2>7, <2>8 DEF Exactly, NsOf
  <2> QED
    BY <2>6, <2>9
<1>6. CASE t.unit \in DOMAIN PerSecond
  <2>1. CASE t.unit = "ns"
    <3>1. PerSecond["ns"] = NsPerSecond /\ NsPer["ns"] = 1
      BY DEF PerSecond, NsPer
    <3> QED
      BY <1>2, <1>5, <1>6, <2>1, <3>1, UnitsOfTime
  <2>2. CASE t.unit = "us"
    <3>1. PerSecond["us"] = Thousand * Thousand /\ NsPer["us"] = Thousand
      BY DEF PerSecond, NsPer
    <3>2. NsPerSecond = (Thousand * Thousand) * Thousand
      BY <1>3 DEF NsPerSecond
    <3> QED
      BY <1>2, <1>3, <1>5, <1>6, <2>2, <3>1, <3>2, UnitsOfTime
  <2>3. CASE t.unit = "ms"
    <3>1. PerSecond["ms"] = Thousand /\ NsPer["ms"] = Thousand * Thousand
      BY DEF PerSecond, NsPer
    <3>2. NsPerSecond = Thousand * (Thousand * Thousand)
      BY <1>3 DEF NsPerSecond
    <3> QED
      BY <1>2, <1>3, <1>5, <1>6, <2>3, <3>1, <3>2, UnitsOfTime
  <2>4. CASE t.unit = "s"
    <3>1. PerSecond["s"] = 1 /\ NsPer["s"] = NsPerSecond
      BY DEF PerSecond, NsPer
    <3> QED
      BY <1>2, <1>5, <1>6, <2>4, <3>1, UnitsOfTime
  <2> QED
    BY <1>4, <1>6, <2>1, <2>2, <2>3, <2>4
<1>7. CASE t.unit \notin DOMAIN PerSecond
  <2>1. PICK m \in Nat \ {0} : m = Seconds[t.unit] /\ NsPer[t.unit] = m * NsPerSecond
    <3>1. Sixty * Sixty \in Nat \ {0}
      BY <1>3, Products
    <3>2. Sixty * Sixty * TwentyFour \in Nat \ {0}
      BY <1>3, <3>1, Products
    <3>3. /\ Seconds["m"] = Sixty /\ Seconds["h"] = Sixty * Sixty
          /\ Seconds["d"] = Sixty * Sixty * TwentyFour
      BY DEF Seconds
    <3>4. /\ NsPer["m"] = NsPerSecond * Seconds["m"]
          /\ NsPer["h"] = NsPerSecond * Seconds["h"]
          /\ NsPer["d"] = NsPerSecond * Seconds["d"]
      BY <3>3 DEF NsPer
    <3>5. t.unit \in {"m", "h", "d"}
      BY <1>1, <1>4, <1>7 DEF Units
    <3>6. Seconds[t.unit] \in Nat \ {0} /\ NsPer[t.unit] = NsPerSecond * Seconds[t.unit]
      BY <1>3, <3>1, <3>2, <3>3, <3>4, <3>5
    <3> QED
      BY <3>6, UnitsOfTime
  <2>2. str2timespec(t) = [tv_sec |-> (t.val * m) % Word, tv_nsec |-> 0]
    BY <1>7, <2>1 DEF str2timespec
  <2>3. t.val * m \in Nat /\ (t.val * m) % Word \in Nat
    <3>1. t.val * m \in Nat
      BY <1>1
    <3>2. (t.val * m) % Word \in 0 .. Word - 1
      BY <1>3, <3>1, Quotient
    <3> QED
      BY <1>3, <3>1, <3>2
  <2>4. Nanoseconds(str2timespec(t)) = (((t.val * m) % Word) * NsPerSecond) % Word
    <3>1. ((t.val * m) % Word) * NsPerSecond \in Nat
      BY <2>3, UnitsOfTime
    <3> QED
      BY <2>2, <3>1 DEF Nanoseconds
  <2>5. (((t.val * m) % Word) * NsPerSecond) % Word = ((t.val * m) * NsPerSecond) % Word
    BY <1>3, <2>3, UnitsOfTime, ModOfProduct
  <2>6. (t.val * m) * NsPerSecond = NsOf(t)
    BY <1>1, <2>1, UnitsOfTime DEF NsOf
  <2>7. ASSUME NsOf(t) < NsPerSecond * Word
        PROVE  Exactly(str2timespec(t), NsOf(t))
    <3> PICK a \in Nat, n \in Nat \ {0} : a = t.val * m /\ n = NsPerSecond
      BY <2>3, UnitsOfTime
    <3>1. n * a = NsOf(t)
      <4>1. n * a = a * n
        OBVIOUS
      <4> QED
        BY <2>6, <4>1
    <3>2. a < Word
      <4>1. ~(Word < a)
        <5>1. ASSUME Word < a
              PROVE  FALSE
          <6>1. n * Word + n <= n * a
            BY <1>3, <5>1, MultiplesApart
          <6>2. n * Word \in Nat
            BY <1>3
          <6> QED
            BY <2>7, <3>1, <6>1, <6>2
        <5> QED
          BY <5>1
      <4>2. Word # a
        BY <1>2, <2>7, <3>1
      <4> QED
        BY <1>3, <4>1, <4>2
    <3>3. a % Word = a
      <4>1. a \in 0 .. Word - 1 /\ (Word * 0 + a) % Word = a
        BY <1>3, <3>2, QuotientUnique
      <4> QED
        BY <1>3, <4>1
    <3>4. str2timespec(t) = [tv_sec |-> a, tv_nsec |-> 0]
      BY <2>2, <3>3
    <3>5. 0 \in 0 .. n - 1 /\ n * a + 0 = NsOf(t)
      BY <1>2, <3>1
    <3> QED
      BY <3>4, <3>5 DEF Exactly
  <2> QED
    BY <1>2, <2>2, <2>3, <2>4, <2>5, <2>6, <2>7 DEF Timespec
<1> QED
  BY <1>2, <1>6, <1>7

LEMMA SecondsAndRest ==
    ASSUME NEW ts \in Timespec, NEW ns \in Nat, Exactly(ts, ns)
    PROVE  /\ ts.tv_sec = ns \div NsPerSecond /\ ts.tv_nsec = ns % NsPerSecond
           /\ NsPerSecond * ts.tv_sec <= ns /\ ns < NsPerSecond * ts.tv_sec + NsPerSecond
<1> PICK n \in Nat \ {0} : n = NsPerSecond
  BY UnitsOfTime
<1> PICK q \in Nat, rest \in 0 .. n - 1 : q = ts.tv_sec /\ rest = ts.tv_nsec
  BY DEF Timespec, Exactly
<1>1. ns = n * q + rest /\ n * q \in Nat
  BY DEF Exactly
<1>2. (n * q + rest) \div n = q /\ (n * q + rest) % n = rest
  BY QuotientUnique
<1>3. n * q <= ns /\ ns < n * q + n
  BY <1>1
<1> QED
  BY <1>1, <1>2, <1>3

LEMMA GrowsByFactor ==
    ASSUME NEW a \in Nat \ {0}, NEW m \in Nat \ {0}
    PROVE  a <= a * m
<1>1. PICK n \in Nat : m = n + 1
  <2>1. m - 1 \in Nat /\ m = (m - 1) + 1
    OBVIOUS
  <2> QED
    BY <2>1
<1>2. a * m = a * n + a /\ a * n \in Nat
  BY <1>1
<1> QED
  BY <1>2

LEMMA UnitsGrow ==
    /\ NsPer["ns"] <= NsPer["us"] /\ NsPer["us"] <= NsPer["ms"]
    /\ NsPer["ms"] <= NsPer["s"] /\ NsPer["s"] <= NsPer["m"]
    /\ NsPer["m"] <= NsPer["h"] /\ NsPer["h"] <= NsPer["d"]
<1>1. /\ Thousand \in Nat \ {0} /\ Sixty \in Nat \ {0} /\ TwentyFour \in Nat \ {0}
      /\ Thousand * Thousand \in Nat \ {0} /\ NsPerSecond \in Nat \ {0}
  BY OptionsAssumption, UnitsOfTime
<1>2. NsPerSecond * Sixty \in Nat \ {0} /\ (NsPerSecond * Sixty) * Sixty \in Nat \ {0}
  BY <1>1, Products
<1>3. /\ NsPer["ns"] = 1 /\ NsPer["us"] = Thousand /\ NsPer["ms"] = Thousand * Thousand
      /\ NsPer["s"] = (Thousand * Thousand) * Thousand /\ NsPer["s"] = NsPerSecond
      /\ NsPer["m"] = NsPerSecond * Sixty
      /\ NsPer["h"] = (NsPerSecond * Sixty) * Sixty
      /\ NsPer["d"] = ((NsPerSecond * Sixty) * Sixty) * TwentyFour
  <2>1. /\ NsPer["h"] = NsPerSecond * (Sixty * Sixty)
        /\ NsPer["d"] = NsPerSecond * (Sixty * Sixty * TwentyFour)
    BY DEF NsPer, Seconds
  <2>2. /\ NsPerSecond * (Sixty * Sixty) = (NsPerSecond * Sixty) * Sixty
        /\ NsPerSecond * (Sixty * Sixty * TwentyFour)
                = ((NsPerSecond * Sixty) * Sixty) * TwentyFour
    BY <1>1
  <2>3. /\ NsPer["ns"] = 1 /\ NsPer["us"] = Thousand /\ NsPer["ms"] = Thousand * Thousand
        /\ NsPer["s"] = NsPerSecond /\ NsPer["m"] = NsPerSecond * Sixty
    BY DEF NsPer
  <2> QED
    BY <2>1, <2>2, <2>3 DEF NsPerSecond
<1>4. Thousand <= Thousand * Thousand
  BY <1>1, GrowsByFactor
<1>5. Thousand * Thousand <= (Thousand * Thousand) * Thousand
  BY <1>1, GrowsByFactor
<1>6. NsPerSecond <= NsPerSecond * Sixty
  BY <1>1, GrowsByFactor
<1>7. NsPerSecond * Sixty <= (NsPerSecond * Sixty) * Sixty
  BY <1>1, <1>2, GrowsByFactor
<1>8. (NsPerSecond * Sixty) * Sixty <= ((NsPerSecond * Sixty) * Sixty) * TwentyFour
  BY <1>1, <1>2, GrowsByFactor
<1> QED
  BY <1>1, <1>3, <1>4, <1>5, <1>6, <1>7, <1>8

LEMMA LargestUnitIsUnit ==
    ASSUME NEW ns \in Nat
    PROVE  LargestUnit(ns) \in Units
<1>1. \E u \in Units : /\ NsPer[u] <= ns \/ u = "ns"
                       /\ \A w \in Units : NsPer[w] <= ns => NsPer[w] <= NsPer[u]
  <2> USE UnitsGrow, UnitsOfTime DEF Units
  <2>1. CASE NsPer["d"] <= ns
    BY <2>1
  <2>2. CASE NsPer["h"] <= ns /\ ~(NsPer["d"] <= ns)
    BY <2>2
  <2>3. CASE NsPer["m"] <= ns /\ ~(NsPer["h"] <= ns)
    BY <2>3
  <2>4. CASE NsPer["s"] <= ns /\ ~(NsPer["m"] <= ns)
    BY <2>4
  <2>5. CASE NsPer["ms"] <= ns /\ ~(NsPer["s"] <= ns)
    BY <2>5
  <2>6. CASE NsPer["us"] <= ns /\ ~(NsPer["ms"] <= ns)
    BY <2>6
  <2>7. CASE ~(NsPer["us"] <= ns)
    BY <2>7
  <2> QED
    BY <2>1, <2>2, <2>3, <2>4, <2>5, <2>6, <2>7
<1> QED
  BY <1>1, UnitsOfTime DEF LargestUnit

LEMMA UnitsOfThousand ==
    ASSUME NEW u \in Units, u # "ns"
    PROVE  \E m \in Nat \ {0} : NsPer[u] = Thousand * m
<1>1. /\ Thousand \in Nat \ {0} /\ Sixty \in Nat \ {0} /\ TwentyFour \in Nat \ {0}
      /\ Thousand * Thousand \in Nat \ {0}
  BY OptionsAssumption, UnitsOfTime
<1>2. PICK h \in Nat \ {0}, d \in Nat \ {0} : h = Seconds.h /\ d = Seconds.d
  <2>1. Sixty * Sixty \in Nat \ {0}
    BY <1>1, Products
  <2>2. Sixty * Sixty * TwentyFour \in Nat \ {0}
    BY <1>1, <2>1, Products
  <2> QED
    BY <2>1, <2>2 DEF Seconds
<1>3. ASSUME NEW k \in Nat \ {0}
      PROVE  /\ NsPerSecond * k = Thousand * ((Thousand * Thousand) * k)
             /\ (Thousand * Thousand) * k \in Nat \ {0}
  <2>1. (Thousand * Thousand) * k \in Nat \ {0}
    BY <1>1, Products
  <2>2. ((Thousand * Thousand) * Thousand) * k = Thousand * ((Thousand * Thousand) * k)
    BY <1>1
  <2> QED
    BY <2>1, <2>2 DEF NsPerSecond
<1>4. /\ NsPer["us"] = Thousand /\ NsPer["ms"] = Thousand * Thousand
      /\ NsPer["s"] = NsPerSecond /\ NsPer["m"] = NsPerSecond * Sixty
      /\ NsPer["h"] = NsPerSecond * h /\ NsPer["d"] = NsPerSecond * d
  BY <1>2 DEF NsPer
<1>5. CASE u = "us"
  <2>1. NsPer[u] = Thousand * 1
    BY <1>1, <1>4, <1>5
  <2> QED
    BY <2>1
<1>6. CASE u = "ms"
  BY <1>1, <1>4, <1>6
<1>7. CASE u = "s"
  <2>1. NsPerSecond = Thousand * (Thousand * Thousand)
    BY <1>1 DEF NsPerSecond
  <2> QED
    BY <1>1, <1>4, <1>7, <2>1
<1>8. CASE u = "m"
  <2>1. PICK k \in Nat \ {0} : k = Sixty
    BY <1>1
  <2> QED
    BY <1>3, <1>4, <1>8, <2>1
<1>9. CASE u = "h"
  BY <1>3, <1>4, <1>9
<1>10. CASE u = "d"
  BY <1>3, <1>4, <1>10
<1> QED
  BY <1>5, <1>6, <1>7, <1>8, <1>9, <1>10 DEF Units

\* What print_options shows of a time is the time, to a thousandth of its unit.
LEMMA PaperTells ==
    ASSUME NEW t, NEW asked \in Nat, Nanoseconds(t) = asked % Word
    PROVE  Tells(timespec2str(t), asked)
<1> SUFFICES ASSUME Fits(asked)
             PROVE  Tells(timespec2str(t), asked)
  BY DEF Tells
<1>1. Nanoseconds(t) = asked
  <2>1. Word \in Nat \ {0} /\ asked \in 0 .. Word - 1
    BY OptionsAssumption DEF Fits
  <2>2. (Word * 0 + asked) % Word = asked
    BY <2>1, QuotientUnique
  <2> QED
    BY <2>1, <2>2
<1>2. PICK unit \in Units : unit = LargestUnit(asked)
  BY LargestUnitIsUnit
<1>3. Thousand \in Nat \ {0}
  BY OptionsAssumption
<1>4. PICK size \in Nat \ {0} : size = NsPer[unit]
  BY UnitsOfTime
<1>5. PICK whole \in Nat, left \in 0 .. size - 1 :
          /\ whole = asked \div size /\ left = asked % size
          /\ asked = size * whole + left
  BY Quotient
<1>6. PICK shown : shown = timespec2str(t)
  OBVIOUS
<1>7. /\ shown.whole = whole /\ shown.unit = unit
      /\ shown.part = IF unit = "ns" THEN 0 ELSE left \div (size \div Thousand)
  BY <1>1, <1>2, <1>4, <1>5, <1>6, UnitsOfTime DEF timespec2str, Shown
<1>8. CASE unit = "ns"
  <2>1. size = 1
    BY <1>4, <1>8 DEF NsPer
  <2>2. size \div Thousand \in Nat
    BY <1>3, Quotient
  <2>3. shown.part * (size \div Thousand) = 0
    BY <1>7, <1>8, <2>2
  <2>4. shown.whole * NsPer[shown.unit] + shown.part * (NsPer[shown.unit] \div Thousand)
            = asked
    <3>1. whole * size = asked
      BY <1>5, <2>1
    <3> QED
      BY <1>4, <1>7, <2>3, <3>1
  <2> QED
    BY <1>3, <1>6, <1>7, <1>8, <2>4 DEF Tells
<1>9. CASE unit # "ns"
  <2>1. PICK m \in Nat \ {0} : size = Thousand * m
    BY <1>4, <1>9, UnitsOfThousand
  <2>2. size \div Thousand = m
    <3>1. (Thousand * m + 0) \div Thousand = m
      BY <1>3, QuotientUnique
    <3> QED
      BY <1>3, <2>1, <3>1
  <2>3. PICK part \in Nat, rest \in 0 .. m - 1 : /\ part = left \div m
                                                 /\ left = m * part + rest
    <3>1. left \in Nat
      BY <1>5
    <3>2. left \div m \in Nat /\ left % m \in 0 .. m - 1 /\ left = m * (left \div m) + (left % m)
      BY <3>1, Quotient
    <3> QED
      BY <3>2
  <2>4. shown.part = part
    BY <1>7, <1>9, <2>2, <2>3
  <2>5. part < Thousand
    <3>1. CASE part = Thousand
      <4>1. m * part = size
        BY <1>3, <2>1, <3>1
      <4> QED
        BY <1>5, <2>3, <4>1
    <3>2. CASE Thousand < part
      <4>1. m * Thousand + m <= m * part
        BY <1>3, <3>2, MultiplesApart
      <4>2. m * Thousand = size
        BY <1>3, <2>1
      <4>3. m * part \in Nat
        OBVIOUS
      <4> QED
        BY <1>5, <2>3, <4>1, <4>2, <4>3
    <3> QED
      BY <1>3, <3>1, <3>2
  <2>6. PICK least \in Nat : least = whole * size + part * m
    OBVIOUS
  <2>7. Thousand * rest < size
    <3>1. Thousand * rest + Thousand <= Thousand * m
      BY <1>3, <2>3, MultiplesApart
    <3> QED
      BY <1>3, <2>1, <2>3, <3>1
  <2>8. asked - least = rest /\ least <= asked
    <3>1. whole * size = size * whole /\ part * m = m * part
      OBVIOUS
    <3>2. size * whole \in Nat /\ m * part \in Nat
      OBVIOUS
    <3> QED
      BY <1>5, <2>3, <2>6, <3>1, <3>2
  <2>9. shown.whole * NsPer[shown.unit] + shown.part * (NsPer[shown.unit] \div Thousand) = least
    BY <1>4, <1>7, <2>2, <2>4, <2>6
  <2> QED
    BY <1>4, <1>6, <1>7, <2>4, <2>5, <2>7, <2>8, <2>9 DEF Tells
<1> QED
  BY <1>8, <1>9

-----------------------------------------------------------------------------
(* The parameter of a benchmark.                                           *)

\* Of m + 1 bits, the first w are set, or all.
AllOrFirst(m, w) == IF w <= m THEN w ELSE m + 1

LEMMA FirstBitsCounted ==
    ASSUME NEW first \in Nat, NEW m \in Nat, NEW w \in Nat
    PROVE  /\ \A j : j \in FirstBits(first, first + 2 * m + 1, w) <=>
                \E k \in 0 .. AllOrFirst(m, w) - 1 : j = first + 2 * k
           /\ IsFiniteSet(FirstBits(first, first + 2 * m + 1, w))
           /\ Cardinality(FirstBits(first, first + 2 * m + 1, w)) = AllOrFirst(m, w)
<1> DEFINE bits == FirstBits(first, first + 2 * m + 1, w)
           n == AllOrFirst(m, w)
<1>1. n \in Nat
  BY DEF AllOrFirst
<1>2. ASSUME NEW j
      PROVE  j \in bits <=> \E k \in 0 .. n - 1 : j = first + 2 * k
  <2>1. ASSUME j \in bits
        PROVE  \E k \in 0 .. n - 1 : j = first + 2 * k
    <3>1. /\ j \in Int /\ first <= j /\ j <= first + 2 * m + 1
          /\ (j - first) % 2 = 0 /\ j - first < 2 * w
      BY <2>1 DEF FirstBits, EveryOther
    <3>2. (j - first) \div 2 \in 0 .. n - 1 /\ j = first + 2 * ((j - first) \div 2)
      BY <3>1 DEF AllOrFirst
    <3> QED
      BY <3>2
  <2>2. ASSUME NEW k \in 0 .. n - 1, j = first + 2 * k
        PROVE  j \in bits
    BY <1>1, <2>2 DEF FirstBits, EveryOther, AllOrFirst
  <2> QED
    BY <2>1, <2>2
<1>3. ExistsBijection(1 .. n, bits)
  <2> DEFINE f == [k \in 1 .. n |-> first + 2 * (k - 1)]
  <2>1. ASSUME NEW k \in 1 .. n
        PROVE  f[k] \in bits
    <3>1. k - 1 \in 0 .. n - 1 /\ f[k] = first + 2 * (k - 1)
      BY <1>1
    <3> QED
      BY <1>2, <3>1
  <2>2. f \in [1 .. n -> bits]
    BY <2>1
  <2>3. ASSUME NEW k \in 1 .. n, NEW l \in 1 .. n, f[k] = f[l]
        PROVE  k = l
    BY <1>1, <2>3
  <2>4. ASSUME NEW j \in bits
        PROVE  \E k \in 1 .. n : f[k] = j
    <3>1. PICK k \in 0 .. n - 1 : j = first + 2 * k
      BY <1>2
    <3>2. k + 1 \in 1 .. n /\ f[k + 1] = j
      BY <1>1, <3>1
    <3> QED
      BY <3>2
  <2> QED
    BY <2>2, <2>3, <2>4 DEF ExistsBijection, Bijection, Injection, IsInjective, Surjection
<1>4. Cardinality(bits) = n
  BY <1>1, <1>3, FS_CountingElements
<1>5. IsFiniteSet(bits)
  <2>1. IsFiniteSet(1 .. n)
    BY <1>1, FS_Interval
  <2> QED
    BY <1>3, <2>1, FS_Bijection
<1> QED
  BY <1>2, <1>4, <1>5

\* create_hw_param sets the bits of the hw lowest ranks.
LEMMA WeightByRank ==
    ASSUME NEW hw \in Nat
    PROVE  create_hw_param(hw) = {j \in 0 .. OutputBits - 1 : Rank(j) < hw}
<1>1. PICK m \in Nat : OutputBits = 2 * m + 4
  <2>1. OutputBits \div 2 - 2 \in Nat /\ OutputBits = 2 * (OutputBits \div 2 - 2) + 4
    BY OptionsAssumption
  <2> QED
    BY <2>1
<1> DEFINE odd == FirstBits(1, OutputBits - 2, hw)
           odds == AllOrFirst(m, hw)
           even == FirstBits(2, OutputBits - 1, hw - odds)
           evens == AllOrFirst(m, hw - odds)
           left == hw - odds - evens
<1>2. /\ odds \in Nat /\ hw - odds \in Nat /\ evens \in Nat /\ left \in Nat
      /\ OutputBits - 2 = 1 + 2 * m + 1 /\ OutputBits - 1 = 2 + 2 * m + 1
  BY <1>1 DEF AllOrFirst
<1>3. /\ \A j : j \in odd <=> \E k \in 0 .. odds - 1 : j = 1 + 2 * k
      /\ Cardinality(odd) = odds
  <2>1. PICK w \in Nat, last \in Nat :
            w = hw /\ last = 1 + 2 * m + 1 /\ odd = FirstBits(1, last, w)
    BY <1>2
  <2>2. /\ \A j : j \in FirstBits(1, 1 + 2 * m + 1, w) <=>
                \E k \in 0 .. AllOrFirst(m, w) - 1 : j = 1 + 2 * k
        /\ Cardinality(FirstBits(1, 1 + 2 * m + 1, w)) = AllOrFirst(m, w)
    BY FirstBitsCounted
  <2> QED
    BY <2>1, <2>2
<1>4. /\ \A j : j \in even <=> \E k \in 0 .. evens - 1 : j = 2 + 2 * k
      /\ Cardinality(even) = evens
  <2>1. PICK w \in Nat, last \in Nat :
            w = hw - odds /\ last = 2 + 2 * m + 1 /\ even = FirstBits(2, last, w)
    BY <1>2
  <2>2. /\ \A j : j \in FirstBits(2, 2 + 2 * m + 1, w) <=>
                \E k \in 0 .. AllOrFirst(m, w) - 1 : j = 2 + 2 * k
        /\ Cardinality(FirstBits(2, 2 + 2 * m + 1, w)) = AllOrFirst(m, w)
    BY FirstBitsCounted
  <2> QED
    BY <2>1, <2>2
<1>5. create_hw_param(hw) = odd \cup even \cup (IF left > 0 THEN {0} ELSE {})
                                \cup (IF left > 1 THEN {OutputBits - 1} ELSE {})
  BY <1>3, <1>4 DEF create_hw_param
<1> HIDE DEF odd, even
<1>6. ASSUME NEW j \in 0 .. OutputBits - 1
      PROVE  j \in create_hw_param(hw) <=> Rank(j) < hw
  <2>1. CASE j = 0
    BY <1>1, <1>2, <1>3, <1>4, <1>5, <2>1 DEF Rank, AllOrFirst
  <2>2. CASE j = OutputBits - 1
    BY <1>1, <1>2, <1>3, <1>4, <1>5, <2>2 DEF Rank, AllOrFirst
  <2>3. CASE j # OutputBits - 1 /\ j % 2 = 1
    <3>1. PICK k \in 0 .. m : j = 1 + 2 * k
      <4>1. (j - 1) \div 2 \in 0 .. m /\ j = 1 + 2 * ((j - 1) \div 2)
        BY <1>1, <2>3
      <4> QED
        BY <4>1
    <3>2. Rank(j) = k
      BY <1>1, <2>3, <3>1 DEF Rank
    <3>3. j \in create_hw_param(hw) <=> k \in 0 .. odds - 1
      BY <1>1, <1>2, <1>3, <1>4, <1>5, <2>3, <3>1
    <3> QED
      BY <3>2, <3>3 DEF AllOrFirst
  <2>4. CASE j # 0 /\ j % 2 = 0
    <3>1. PICK k \in 0 .. m : j = 2 + 2 * k
      <4>1. (j - 2) \div 2 \in 0 .. m /\ j = 2 + 2 * ((j - 2) \div 2)
        BY <1>1, <2>4
      <4> QED
        BY <4>1
    <3>2. Rank(j) = m + 1 + k
      BY <1>1, <2>4, <3>1 DEF Rank
    <3>3. j \in create_hw_param(hw) <=> k \in 0 .. evens - 1
      BY <1>1, <1>2, <1>3, <1>4, <1>5, <2>4, <3>1
    <3> QED
      BY <3>2, <3>3 DEF AllOrFirst
  <2> QED
    BY <1>1, <2>1, <2>2, <2>3, <2>4
<1>7. ASSUME NEW j \in create_hw_param(hw)
      PROVE  j \in 0 .. OutputBits - 1
  BY <1>1, <1>2, <1>3, <1>4, <1>5, <1>7 DEF AllOrFirst
<1> QED
  BY <1>6, <1>7

-----------------------------------------------------------------------------
(* The inductive invariant.                                                *)

\* The options parsed so far.
NextOption == Len(given) - Len(args) + 1
Read == 1 .. Len(given) - Len(args)
ReadOf(opt) == {k \in Read : given[k].opt = opt}

Phases == {"options", "allowlist", "batches", "run", "dump"} \cup Endings

\* args is the rest of the command line, and what has been parsed was accepted.
Parsing ==
    /\ given \in CommandLines
    /\ args \in Seq({given[k] : k \in DOMAIN given}) /\ Len(args) <= Len(given)
    /\ \A k \in 1 .. Len(args) : args[k] = given[Len(given) - Len(args) + k]
    /\ \A k \in Read : ~Exits(given[k])
    /\ msr_safe \in Drivers
    /\ phase \in Phases
    /\ phase \notin {"options", "exited"} => Len(args) = 0
    /\ phase = "exited" /\ Len(args) # 0 => Exits(given[NextOption])

\* The last of the options of a kind decides.
LastRead(opt, k) == k \in ReadOf(opt) /\ \A j \in ReadOf(opt) : j <= k
Overwritten(opt, value, default) ==
    IF ReadOf(opt) = {} THEN value = str2timespec(default)
    ELSE \E k \in ReadOf(opt) : LastRead(opt, k) /\ value = str2timespec(given[k].time)
MainCpuRead ==
    IF ReadOf("m") = {} THEN main_cpu = {}
    ELSE \E k \in ReadOf("m") : LastRead("m", k) /\ main_cpu = given[k].cpus
Values ==
    /\ Overwritten("t", duration, Default.duration)
    /\ Overwritten("T", ab_duration, Default.ab_duration)
    /\ MainCpuRead
    /\ ab_randomized <=> ReadOf("R") # {}

Kinds == {"t", "T", "R", "m", "p", "b", "l"}

\* The options of a kind are numbered without gaps.
Numbered ==
    \A opt \in Kinds : \A n \in 1 .. Cardinality(ReadOf(opt)) :
        \E k \in ReadOf(opt) : Number(k) = n

\* polls and longitudinals hold the options of their kinds, in their order.
Poll == [interval : Timespec, flags : SUBSET Flags,
         control_cpu : {given[k].control_cpus : k \in Places("p")}, total_ops : Nat]
PollsRead ==
    /\ polls \in Seq(Poll)
    /\ Len(polls) = Cardinality(ReadOf("p"))
    /\ \A k \in ReadOf("p") :
        /\ polls[Number(k)].interval = str2timespec(given[k].time)
        /\ polls[Number(k)].flags = given[k].flags \cap Flags
        /\ polls[Number(k)].control_cpu = given[k].control_cpus
LongitudinalsRead ==
    /\ longitudinals \in Seq({given[k].type : k \in Places("l")})
    /\ Len(longitudinals) = Cardinality(ReadOf("l"))
    /\ \A k \in ReadOf("l") : longitudinals[Number(k)] = given[k].type

\* benchmarks holds a parameter for each cpu of each option, execution_cpus them all.
BenchmarksRead ==
    /\ benchmarks \in Seq(SUBSET Int) /\ IsFiniteSet(ThreadsOf(ReadOf("b")))
    /\ Len(benchmarks) = Cardinality(ThreadsOf(ReadOf("b")))
    /\ \A k \in ReadOf("b") : \A c \in 1 .. Cardinality(given[k].cpus) :
        benchmarks[Before(k) + c] = create_hw_param(given[k].hw)
    /\ execution_cpus = UNION {given[k].cpus : k \in ReadOf("b")}

\* job.out shows the options that are parsed.
Printed ==
    jobout # <<>> =>
        /\ phase # "options" /\ Len(args) = 0
        /\ jobout.duration = timespec2str(duration)
        /\ jobout.ab_duration = timespec2str(ab_duration)
        /\ jobout.ab_randomized = ab_randomized
        /\ jobout.longitudinals = longitudinals
        /\ jobout.polls = [p \in 1 .. Len(polls) |->
                            [flags |-> polls[p].flags,
                             interval |-> timespec2str(polls[p].interval)]]

\* setup_polling_batches has been there.
Ready(p) ==
    /\ Nanoseconds(polls[p].interval) # 0
    /\ polls[p].total_ops = timespec_division(duration, polls[p].interval)
AllReady == \A p \in 1 .. Len(polls) : Ready(p)

Loaded == msr_safe \in Drivers \ {"no_allowlist", "write_fails"}
MayEnd == ThreadsPinned /\ msr_safe # "no_batch" /\ ABLoopEnds
CanFail == \E p \in 1 .. Len(polls) :
                CanPin(polls[p].control_cpu) /\ polls[p].total_ops > 0

\* Where the job is and how it has ended.
Ending ==
    /\ i \in Nat \ {0}
    /\ phase \in {"options", "allowlist"} => i = 1
    /\ phase \in {"batches", "killed", "run", "dump", "segv", "done"} => Loaded
    /\ phase = "batches" => \A p \in 1 .. Len(polls) : p < i => Ready(p)
    /\ phase \in {"run", "dump", "segv", "done"} => CanPin(main_cpu) /\ AllReady
    /\ phase = "run" => i = 1
    /\ phase \in {"dump", "segv", "done"} => MayEnd
    /\ phase = "dump" => \A p \in 1 .. Len(polls) : p < i => polls[p].total_ops > 2
    /\ phase \in {"segv", "done"} =>
        /\ \A p \in 1 .. Len(polls) : polls[p].total_ops > 2
        /\ phase = "segv" <=> Len(polls) = 0
    /\ phase = "killed" => \E p \in 1 .. Len(polls) : Nanoseconds(polls[p].interval) = 0
    /\ phase = "exited" /\ Len(args) = 0 =>
        \/ msr_safe = "write_fails"
        \/ msr_safe = "ioctl_fails" /\ CanPin(main_cpu) /\ AllReady /\ CanFail
    /\ phase = "aborted" =>
        \/ msr_safe = "no_allowlist"
        \/ /\ Loaded /\ AllReady
           /\ \/ ~CanPin(main_cpu)
              \/ CanPin(main_cpu) /\ (~ThreadsPinned \/ msr_safe = "no_batch")
              \/ /\ CanPin(main_cpu) /\ MayEnd
                 /\ \E p \in 1 .. Len(polls) : polls[p].total_ops <= 2

IInv ==
    /\ Parsing /\ Values /\ Numbered /\ PollsRead /\ LongitudinalsRead
    /\ BenchmarksRead /\ Printed /\ Ending

-----------------------------------------------------------------------------
(* What does not depend on the state but through the command line.         *)

LEMMA LineTyped ==
    ASSUME given \in CommandLines
    PROVE  /\ given \in Seq({given[k] : k \in DOMAIN given})
           /\ Len(given) \in Nat /\ DOMAIN given = 1 .. Len(given)
           /\ \A k \in 1 .. Len(given) : IsOption(given[k])
<1>1. /\ given \in Seq({given[k] : k \in DOMAIN given})
      /\ \A k \in DOMAIN given : IsOption(given[k])
  BY CommandLinesAssumption
<1> QED
  BY <1>1

LEMMA SameLine ==
    ASSUME given' = given
    PROVE  /\ \A opt : Places(opt)' = Places(opt)
           /\ \A k : Number(k)' = Number(k)
           /\ \A options : ThreadsOf(options)' = ThreadsOf(options)
           /\ \A k : Before(k)' = Before(k)
           /\ Poll' = Poll
<1>1. ASSUME NEW opt
      PROVE  Places(opt)' = Places(opt)
  BY DEF Places
<1>2. ASSUME NEW k
      PROVE  Number(k)' = Number(k)
  BY DEF Number
<1>3. ASSUME NEW options
      PROVE  ThreadsOf(options)' = ThreadsOf(options)
  BY DEF ThreadsOf
<1>4. ASSUME NEW k
      PROVE  Before(k)' = Before(k)
  BY DEF Before, Places, ThreadsOf
<1>5. Poll' = Poll
  <2>1. {given[k].control_cpus : k \in Places("p")}' = {given[k].control_cpus : k \in Places("p")}
    BY <1>1
  <2> QED
    BY <2>1 DEF Poll
<1> QED
  BY <1>1, <1>2, <1>3, <1>4, <1>5

\* What has been parsed changes with args only.
LEMMA SameRead ==
    ASSUME given' = given, args' = args
    PROVE  /\ Read' = Read /\ NextOption' = NextOption
           /\ \A opt : ReadOf(opt)' = ReadOf(opt)
  BY DEF Read, ReadOf, NextOption

LEMMA ReadFinite ==
    ASSUME Parsing
    PROVE  /\ Read \subseteq 1 .. Len(given) /\ IsFiniteSet(Read)
           /\ \A opt : /\ IsFiniteSet(ReadOf(opt)) /\ ReadOf(opt) \subseteq Read
                       /\ Cardinality(ReadOf(opt)) \in Nat
<1>1. Len(given) \in Nat /\ Len(args) \in Nat /\ Len(args) <= Len(given)
  BY LineTyped DEF Parsing
<1>2. Read \subseteq 1 .. Len(given) /\ IsFiniteSet(Read)
  <2>1. PICK n : n = Len(given) - Len(args)
    OBVIOUS
  <2> n \in Int
    BY <1>1, <2>1
  <2>2. IsFiniteSet(1 .. n)
    BY FS_Interval
  <2> QED
    BY <1>1, <2>1, <2>2 DEF Read
<1>3. ASSUME NEW opt
      PROVE  /\ IsFiniteSet(ReadOf(opt)) /\ ReadOf(opt) \subseteq Read
             /\ Cardinality(ReadOf(opt)) \in Nat
  <2>1. ReadOf(opt) \subseteq Read
    BY DEF ReadOf
  <2>2. IsFiniteSet(ReadOf(opt))
    BY <1>2, <2>1, FS_Subset
  <2> QED
    BY <2>1, <2>2, FS_CardinalityType
<1> QED
  BY <1>2, <1>3

\* An option that has been parsed is one of the first of its kind.
LEMMA NumbersInRange ==
    ASSUME Parsing, NEW opt, NEW k \in ReadOf(opt)
    PROVE  Number(k) \in 1 .. Cardinality(ReadOf(opt))
<1> DEFINE upto == {j \in 1 .. k : given[j].opt = given[k].opt}
<1>1. /\ k \in Read /\ given[k].opt = opt /\ Len(given) \in Nat /\ Len(args) \in Nat
      /\ k \in Nat /\ k \in upto
  BY LineTyped DEF Parsing, ReadOf, Read
<1>2. upto \subseteq ReadOf(opt)
  BY <1>1 DEF ReadOf, Read
<1>3. IsFiniteSet(ReadOf(opt)) /\ Cardinality(ReadOf(opt)) \in Nat
  BY ReadFinite
<1>4. /\ IsFiniteSet(upto) /\ Cardinality(upto) <= Cardinality(ReadOf(opt))
  BY <1>2, <1>3, FS_Subset
<1>5. Cardinality(upto) \in Nat /\ Cardinality(upto) # 0
  BY <1>1, <1>4, FS_CardinalityType, FS_EmptySet
<1> QED
  BY <1>3, <1>4, <1>5 DEF Number

-----------------------------------------------------------------------------
(* One more option is parsed.                                              *)

LEMMA OneMoreRead ==
    ASSUME Parsing, NEW opt, Parse(opt)
    PROVE  /\ given' = given /\ NextOption \in 1 .. Len(given) /\ NextOption \notin Read
           /\ Head(args) = given[NextOption] /\ given[NextOption].opt = opt
           /\ ~Exits(given[NextOption])
           /\ Read' = Read \cup {NextOption}
           /\ \A j \in Read : j < NextOption
           /\ \A j \in 1 .. NextOption : j \in Read \/ j = NextOption
           /\ ReadOf(opt)' = ReadOf(opt) \cup {NextOption}
           /\ \A other : other # opt => ReadOf(other)' = ReadOf(other)
           /\ Parsing'
<1>1. /\ phase = "options" /\ args # <<>> /\ ~Exits(Head(args)) /\ Head(args).opt = opt
      /\ args' = Tail(args) /\ phase' = phase /\ given' = given
      /\ msr_safe' = msr_safe
  BY DEF Parse
<1>2. /\ Len(given) \in Nat /\ Len(args) \in Nat /\ Len(args) <= Len(given)
      /\ args \in Seq({given[k] : k \in DOMAIN given})
  BY LineTyped DEF Parsing
<1>3. /\ Len(args) > 0 /\ Len(args') = Len(args) - 1 /\ Head(args) = args[1]
      /\ args' \in Seq({given[k] : k \in DOMAIN given})
      /\ \A k \in 1 .. Len(args') : args'[k] = args[k + 1]
  BY <1>1, <1>2
<1>4. NextOption \in 1 .. Len(given) /\ NextOption \notin Read /\ Head(args) = given[NextOption]
  BY <1>2, <1>3 DEF Parsing, NextOption, Read
<1>5. /\ Read' = Read \cup {NextOption} /\ \A j \in Read : j < NextOption
      /\ \A j \in 1 .. NextOption : j \in Read \/ j = NextOption
  BY <1>1, <1>2, <1>3 DEF Read, NextOption
<1>6. /\ ReadOf(opt)' = ReadOf(opt) \cup {NextOption}
      /\ \A other : other # opt => ReadOf(other)' = ReadOf(other)
  BY <1>1, <1>4, <1>5 DEF ReadOf
<1>7. Parsing'
  <2>1. given' \in CommandLines /\ args' \in Seq({given'[k] : k \in DOMAIN given'})
        /\ Len(args') <= Len(given')
    BY <1>1, <1>2, <1>3 DEF Parsing
  <2>2. \A k \in 1 .. Len(args') : args'[k] = given'[Len(given') - Len(args') + k]
    <3> TAKE k \in 1 .. Len(args')
    <3>1. args'[k] = args[k + 1] /\ k + 1 \in 1 .. Len(args)
      BY <1>2, <1>3
    <3>2. args[k + 1] = given[Len(given) - Len(args) + (k + 1)]
      BY <3>1 DEF Parsing
    <3>3. Len(given) - Len(args) + (k + 1) = Len(given') - Len(args') + k
      BY <1>1, <1>2, <1>3
    <3> QED
      BY <1>1, <3>1, <3>2, <3>3
  <2>3. \A k \in Read' : ~Exits(given'[k])
    BY <1>1, <1>4, <1>5 DEF Parsing
  <2> QED
    BY <1>1, <2>1, <2>2, <2>3 DEF Parsing
<1> QED
  BY <1>1, <1>4, <1>5, <1>6, <1>7

\* It is the last of its kind, and has the next number.
LEMMA NextOfItsKind ==
    ASSUME Parsing, NEW opt, Parse(opt)
    PROVE  /\ Number(NextOption) = Cardinality(ReadOf(opt)) + 1
           /\ Cardinality(ReadOf(opt)') = Cardinality(ReadOf(opt)) + 1
           /\ \A j \in ReadOf(opt)' : j <= NextOption
<1>1. /\ NextOption \notin Read /\ given[NextOption].opt = opt
      /\ \A j \in Read : j < NextOption
      /\ \A j \in 1 .. NextOption : j \in Read \/ j = NextOption
      /\ ReadOf(opt)' = ReadOf(opt) \cup {NextOption} /\ NextOption \in 1 .. Len(given)
      /\ Len(given) \in Nat
  BY OneMoreRead, LineTyped DEF Parsing
<1>2. /\ IsFiniteSet(ReadOf(opt)) /\ ReadOf(opt) \subseteq Read /\ Read \subseteq 1 .. Len(given)
      /\ Cardinality(ReadOf(opt)) \in Nat
  BY ReadFinite
<1>3. {j \in 1 .. NextOption : given[j].opt = given[NextOption].opt} = ReadOf(opt) \cup {NextOption}
  <2>1. PICK n \in Nat : n = NextOption
    BY <1>1
  <2>2. ASSUME NEW j
        PROVE  j \in 1 .. n /\ given[j].opt = opt <=> j \in ReadOf(opt) \/ j = n
    <3>1. j \in Read => j \in 1 .. n
      BY <1>1, <1>2, <2>1
    <3> QED
      BY <1>1, <2>1, <3>1 DEF ReadOf
  <2> QED
    BY <1>1, <2>1, <2>2
<1>4. Cardinality(ReadOf(opt) \cup {NextOption}) = Cardinality(ReadOf(opt)) + 1
  BY <1>1, <1>2, FS_AddElement
<1>5. \A j \in ReadOf(opt)' : j <= NextOption
  <2>1. PICK n \in Nat : n = NextOption
    BY <1>1
  <2>2. ASSUME NEW j \in ReadOf(opt)
        PROVE  j <= n
    <3>1. j \in Read /\ j \in 1 .. Len(given)
      BY <1>2
    <3>2. j < n
      BY <1>1, <2>1, <3>1
    <3> QED
      BY <1>1, <3>1, <3>2
  <2> QED
    BY <1>1, <2>1, <2>2
<1> QED
  BY <1>1, <1>3, <1>4, <1>5 DEF Number

LEMMA ParseNumbers ==
    ASSUME Parsing, Numbered, NEW opt, Parse(opt)
    PROVE  Numbered'
<1>1. /\ given' = given /\ \A k : Number(k)' = Number(k)
  BY SameLine DEF Parse
<1>2. ASSUME NEW kind \in Kinds, NEW n \in 1 .. Cardinality(ReadOf(kind)')
      PROVE  \E k \in ReadOf(kind)' : Number(k) = n
  <2>1. CASE kind = opt
    <3>1. CASE n = Cardinality(ReadOf(opt)) + 1
      <4>1. NextOption \in ReadOf(kind)' /\ Number(NextOption) = n
        BY <2>1, <3>1, OneMoreRead, NextOfItsKind
      <4> QED
        BY <4>1
    <3>2. CASE n # Cardinality(ReadOf(opt)) + 1
      <4>1. n \in 1 .. Cardinality(ReadOf(opt))
        BY <2>1, <3>2, NextOfItsKind, ReadFinite
      <4>2. PICK k \in ReadOf(opt) : Number(k) = n
        BY <2>1, <4>1 DEF Numbered
      <4> QED
        BY <2>1, <4>2, OneMoreRead
    <3> QED
      BY <3>1, <3>2
  <2>2. CASE kind # opt
    <3>1. ReadOf(kind)' = ReadOf(kind)
      BY <2>2, OneMoreRead
    <3> QED
      BY <3>1 DEF Numbered
  <2> QED
    BY <2>1, <2>2
<1> QED
  BY <1>1, <1>2 DEF Numbered

\* What the other options have left stays, but for job.out, which is still empty.
LEMMA ParseKeeps ==
    ASSUME IInv, NEW opt \in Kinds, Parse(opt)
    PROVE  /\ Parsing' /\ Numbered' /\ Printed' /\ Ending'
           /\ opt # "t" /\ duration' = duration
                => Overwritten("t", duration, Default.duration)'
           /\ opt # "T" /\ ab_duration' = ab_duration
                => Overwritten("T", ab_duration, Default.ab_duration)'
           /\ opt # "m" /\ main_cpu' = main_cpu => MainCpuRead'
           /\ opt # "R" /\ ab_randomized' = ab_randomized
                => (ab_randomized <=> ReadOf("R") # {})'
           /\ opt # "p" /\ polls' = polls => PollsRead'
           /\ opt # "l" /\ longitudinals' = longitudinals => LongitudinalsRead'
           /\ opt # "b" /\ benchmarks' = benchmarks /\ execution_cpus' = execution_cpus
                => BenchmarksRead'
<1>1. /\ given' = given /\ Parsing' /\ \A other : other # opt => ReadOf(other)' = ReadOf(other)
  BY OneMoreRead DEF IInv
<1>2. /\ \A k : Number(k)' = Number(k)
      /\ \A options : ThreadsOf(options)' = ThreadsOf(options)
      /\ \A k : Before(k)' = Before(k)
      /\ \A o : Places(o)' = Places(o)
      /\ Poll' = Poll
  BY <1>1, SameLine
<1>3. Numbered'
  BY ParseNumbers DEF IInv
<1>4. Printed'
  BY DEF IInv, Printed, Parse
<1>5. Ending'
  BY DEF IInv, Ending, Parse
<1>6. ASSUME NEW other \in Kinds, other # opt, NEW k
      PROVE  LastRead(other, k)' <=> LastRead(other, k)
  BY <1>1, <1>6 DEF LastRead
<1>7. ASSUME opt # "t", duration' = duration
      PROVE  Overwritten("t", duration, Default.duration)'
  BY <1>1, <1>6, <1>7 DEF IInv, Values, Overwritten, Kinds
<1>8. ASSUME opt # "T", ab_duration' = ab_duration
      PROVE  Overwritten("T", ab_duration, Default.ab_duration)'
  BY <1>1, <1>6, <1>8 DEF IInv, Values, Overwritten, Kinds
<1>9. ASSUME opt # "m", main_cpu' = main_cpu
      PROVE  MainCpuRead'
  BY <1>1, <1>6, <1>9 DEF IInv, Values, MainCpuRead, Kinds
<1>10. ASSUME opt # "R", ab_randomized' = ab_randomized
       PROVE  (ab_randomized <=> ReadOf("R") # {})'
  <2>1. ReadOf("R")' = ReadOf("R")
    BY <1>1, <1>10
  <2> QED
    BY <1>10, <2>1, Zenon DEF IInv, Values
<1>11. ASSUME opt # "p", polls' = polls
       PROVE  PollsRead'
  BY <1>1, <1>2, <1>11 DEF IInv, PollsRead
<1>12. ASSUME opt # "l", longitudinals' = longitudinals
       PROVE  LongitudinalsRead'
  <2>1. {given[k].type : k \in Places("l")}' = {given[k].type : k \in Places("l")}
    BY <1>1, <1>2
  <2> QED
    BY <1>1, <1>2, <1>12, <2>1 DEF IInv, LongitudinalsRead
<1>13. ASSUME opt # "b", benchmarks' = benchmarks, execution_cpus' = execution_cpus
       PROVE  BenchmarksRead'
  <2>1. (UNION {given[k].cpus : k \in ReadOf("b")})' = UNION {given[k].cpus : k \in ReadOf("b")}
    BY <1>1, <1>13
  <2> QED
    BY <1>1, <1>2, <1>13, <2>1 DEF IInv, BenchmarksRead
<1> QED
  BY <1>1, <1>3, <1>4, <1>5, <1>7, <1>8, <1>9, <1>10, <1>11, <1>12, <1>13

LEMMA TimeStep ==
    ASSUME IInv, Time
    PROVE  IInv'
<1>1. Parse("t") /\ duration' = str2timespec(Head(args).time) /\ "t" \in Kinds
  BY DEF Time, Kinds
<1>2. Overwritten("t", duration, Default.duration)'
  <2>1. /\ given' = given /\ Head(args) = given[NextOption] /\ NextOption \in ReadOf("t")'
        /\ \A j \in ReadOf("t")' : j <= NextOption
    BY <1>1, OneMoreRead, NextOfItsKind DEF IInv
  <2>2. PICK k : k = NextOption
    OBVIOUS
  <2> QED
    BY <1>1, <2>1, <2>2 DEF Overwritten, LastRead
<1> QED
  BY <1>1, <1>2, ParseKeeps DEF Time, IInv, Values

LEMMA ABTimeStep ==
    ASSUME IInv, ABTime
    PROVE  IInv'
<1>1. Parse("T") /\ ab_duration' = str2timespec(Head(args).time) /\ "T" \in Kinds
  BY DEF ABTime, Kinds
<1>2. Overwritten("T", ab_duration, Default.ab_duration)'
  <2>1. /\ given' = given /\ Head(args) = given[NextOption] /\ NextOption \in ReadOf("T")'
        /\ \A j \in ReadOf("T")' : j <= NextOption
    BY <1>1, OneMoreRead, NextOfItsKind DEF IInv
  <2>2. PICK k : k = NextOption
    OBVIOUS
  <2> QED
    BY <1>1, <2>1, <2>2 DEF Overwritten, LastRead
<1> QED
  BY <1>1, <1>2, ParseKeeps DEF ABTime, IInv, Values

LEMMA MainCpuStep ==
    ASSUME IInv, MainCpu
    PROVE  IInv'
<1>1. Parse("m") /\ main_cpu' = Head(args).cpus /\ "m" \in Kinds
  BY DEF MainCpu, Kinds
<1>2. MainCpuRead'
  <2>1. /\ given' = given /\ Head(args) = given[NextOption] /\ NextOption \in ReadOf("m")'
        /\ \A j \in ReadOf("m")' : j <= NextOption
    BY <1>1, OneMoreRead, NextOfItsKind DEF IInv
  <2>2. PICK k : k = NextOption
    OBVIOUS
  <2> QED
    BY <1>1, <2>1, <2>2 DEF MainCpuRead, LastRead
<1> QED
  BY <1>1, <1>2, ParseKeeps DEF MainCpu, IInv, Values

LEMMA RandomizeStep ==
    ASSUME IInv, Randomize
    PROVE  IInv'
<1>1. Parse("R") /\ ab_randomized' = TRUE /\ "R" \in Kinds
  BY DEF Randomize, Kinds
<1>2. ReadOf("R")' # {}
  BY <1>1, OneMoreRead DEF IInv
<1> QED
  BY <1>1, <1>2, ParseKeeps DEF Randomize, IInv, Values

LEMMA PollStep ==
    ASSUME IInv, PollOption
    PROVE  IInv'
<1>1. Parse("p") /\ "p" \in Kinds
  BY DEF PollOption, Kinds
<1>2. PollsRead'
  <2>1. /\ given' = given /\ Head(args) = given[NextOption] /\ NextOption \in 1 .. Len(given)
        /\ given[NextOption].opt = "p" /\ ~Exits(given[NextOption])
        /\ ReadOf("p")' = ReadOf("p") \cup {NextOption}
        /\ Number(NextOption) = Cardinality(ReadOf("p")) + 1
        /\ Cardinality(ReadOf("p")') = Cardinality(ReadOf("p")) + 1
    BY <1>1, OneMoreRead, NextOfItsKind DEF IInv
  <2>2. IsTime(given[NextOption].time)
    BY <2>1, LineTyped DEF IInv, Parsing, IsOption, Exits
  <2> DEFINE poll == [interval |-> str2timespec(given[NextOption].time),
                      flags |-> given[NextOption].flags \cap Flags,
                      control_cpu |-> given[NextOption].control_cpus, total_ops |-> 0]
  <2>3. poll \in Poll
    <3>1. NextOption \in Places("p")
      BY <2>1, LineTyped DEF IInv, Parsing, Places
    <3> QED
      BY <2>2, <3>1, InNanoseconds DEF Poll
  <2>4. polls' = Append(polls, poll)
    BY <2>1 DEF PollOption, str2flags
  <2>5. polls \in Seq(Poll) /\ Len(polls) = Cardinality(ReadOf("p"))
    BY DEF IInv, PollsRead
  <2>6. /\ polls' \in Seq(Poll) /\ Len(polls') = Len(polls) + 1
        /\ \A n \in 1 .. Len(polls) : polls'[n] = polls[n]
        /\ polls'[Len(polls) + 1] = poll
    BY <2>3, <2>4, <2>5
  <2>7. ASSUME NEW k \in ReadOf("p")'
        PROVE  /\ polls'[Number(k)].interval = str2timespec(given[k].time)
               /\ polls'[Number(k)].flags = given[k].flags \cap Flags
               /\ polls'[Number(k)].control_cpu = given[k].control_cpus
    <3>1. CASE k \in ReadOf("p")
      <4>1. Number(k) \in 1 .. Len(polls)
        BY <2>5, <3>1, NumbersInRange DEF IInv
      <4> QED
        BY <2>6, <3>1, <4>1 DEF IInv, PollsRead
    <3>2. CASE k = NextOption
      BY <2>1, <2>5, <2>6, <3>2
    <3> QED
      BY <2>1, <3>1, <3>2
  <2>8. Poll' = Poll /\ \A k : Number(k)' = Number(k)
    BY <2>1, SameLine
  <2> QED
    BY <2>1, <2>5, <2>6, <2>7, <2>8 DEF PollsRead
<1> QED
  BY <1>1, <1>2, ParseKeeps DEF PollOption, IInv, Values

LEMMA LongitudinalStep ==
    ASSUME IInv, LongitudinalOption
    PROVE  IInv'
<1>1. Parse("l") /\ "l" \in Kinds
  BY DEF LongitudinalOption, Kinds
<1>2. LongitudinalsRead'
  <2>1. /\ given' = given /\ Head(args) = given[NextOption] /\ NextOption \in 1 .. Len(given)
        /\ given[NextOption].opt = "l"
        /\ ReadOf("l")' = ReadOf("l") \cup {NextOption}
        /\ Number(NextOption) = Cardinality(ReadOf("l")) + 1
        /\ Cardinality(ReadOf("l")') = Cardinality(ReadOf("l")) + 1
    BY <1>1, OneMoreRead, NextOfItsKind DEF IInv
  <2> DEFINE Types == {given[k].type : k \in Places("l")}
  <2>2. given[NextOption].type \in Types
    BY <2>1, LineTyped DEF IInv, Parsing, Places
  <2>3. longitudinals' = Append(longitudinals, given[NextOption].type)
    BY <2>1 DEF LongitudinalOption
  <2>4. longitudinals \in Seq(Types) /\ Len(longitudinals) = Cardinality(ReadOf("l"))
    BY DEF IInv, LongitudinalsRead
  <2>5. Types' = Types
    BY <2>1, SameLine
  <2> HIDE DEF Types
  <2>6. /\ longitudinals' \in Seq(Types) /\ Len(longitudinals') = Len(longitudinals) + 1
        /\ \A n \in 1 .. Len(longitudinals) : longitudinals'[n] = longitudinals[n]
        /\ longitudinals'[Len(longitudinals) + 1] = given[NextOption].type
    BY <2>2, <2>3, <2>4
  <2>7. ASSUME NEW k \in ReadOf("l")'
        PROVE  longitudinals'[Number(k)] = given[k].type
    <3>1. CASE k \in ReadOf("l")
      <4>1. Number(k) \in 1 .. Len(longitudinals)
        BY <2>4, <3>1, NumbersInRange DEF IInv
      <4> QED
        BY <2>6, <3>1, <4>1 DEF IInv, LongitudinalsRead
    <3>2. CASE k = NextOption
      BY <2>1, <2>4, <2>6, <3>2
    <3> QED
      BY <2>1, <3>1, <3>2
  <2>8. \A k : Number(k)' = Number(k)
    BY <2>1, SameLine
  <2>9. longitudinals' \in Seq(Types')
    BY <2>5, <2>6
  <2> QED
    BY <2>1, <2>4, <2>6, <2>7, <2>8, <2>9 DEF LongitudinalsRead, Types
<1> QED
  BY <1>1, <1>2, ParseKeeps DEF LongitudinalOption, IInv, Values

\* The threads of one more option.
LEMMA OneMoreBenchmark ==
    ASSUME NEW options, NEW k, k \notin options,
           IsFiniteSet(ThreadsOf(options)), IsFiniteSet(given[k].cpus)
    PROVE  /\ IsFiniteSet(ThreadsOf(options \cup {k}))
           /\ Cardinality(ThreadsOf(options)) \in Nat
           /\ Cardinality(given[k].cpus) \in Nat
           /\ Cardinality(ThreadsOf(options \cup {k}))
                = Cardinality(ThreadsOf(options)) + Cardinality(given[k].cpus)
<1> DEFINE old == ThreadsOf(options)
           cpus == given[k].cpus
           new == {k} \X cpus
<1>1. ThreadsOf(options \cup {k}) = old \cup new
  BY DEF ThreadsOf
<1>2. old \cap new = {}
  BY DEF ThreadsOf
<1>3. IsFiniteSet({k}) /\ Cardinality({k}) = 1
  BY FS_Singleton
<1> HIDE DEF old, cpus
<1>4. IsFiniteSet(cpus) /\ IsFiniteSet(old)
  BY DEF old, cpus
<1>5. IsFiniteSet(new) /\ Cardinality(new) = Cardinality({k}) * Cardinality(cpus)
  BY <1>3, <1>4, FS_Product
<1>6. Cardinality(cpus) \in Nat /\ Cardinality(old) \in Nat
  BY <1>4, FS_CardinalityType
<1>7. Cardinality(new) = Cardinality(cpus)
  BY <1>3, <1>5, <1>6
<1> HIDE DEF new
<1>8. /\ IsFiniteSet(old \cup new)
      /\ Cardinality(old \cup new)
            = Cardinality(old) + Cardinality(new) - Cardinality(old \cap new)
  BY <1>4, <1>5, FS_Union
<1>9. Cardinality(old \cup new) = Cardinality(old) + Cardinality(cpus)
  BY <1>2, <1>6, <1>7, <1>8, FS_EmptySet
<1> QED
  BY <1>1, <1>6, <1>8, <1>9 DEF old, cpus

\* The threads of an option that has been parsed are among those made.
LEMMA ThreadsInRange ==
    ASSUME Parsing, BenchmarksRead, NEW k \in ReadOf("b")
    PROVE  /\ Before(k) \in Nat /\ Cardinality(given[k].cpus) \in Nat
           /\ Before(k) + Cardinality(given[k].cpus) <= Len(benchmarks)
<1> DEFINE earlier == {j \in Places("b") : j < k}
           all == ThreadsOf(ReadOf("b"))
<1>1. /\ k \in Read /\ k \in Nat /\ given[k].opt = "b" /\ ReadOf("b") \subseteq Read
      /\ Read = 1 .. Len(given) - Len(args)
      /\ Len(given) \in Nat /\ Len(args) \in Nat /\ DOMAIN given = 1 .. Len(given)
  BY LineTyped DEF Parsing, ReadOf, Read
<1>2. earlier \subseteq ReadOf("b")
  BY <1>1 DEF Places, ReadOf
<1>3. ThreadsOf(earlier) \subseteq all /\ ThreadsOf(earlier \cup {k}) \subseteq all
  BY <1>2 DEF ThreadsOf
<1>4. IsFiniteSet(all) /\ Len(benchmarks) = Cardinality(all)
  BY DEF BenchmarksRead
<1>5. IsFiniteSet(ThreadsOf(earlier))
  BY <1>3, <1>4, FS_Subset
<1>6. Cardinality(ThreadsOf(earlier \cup {k})) <= Cardinality(all)
  BY <1>3, <1>4, FS_Subset
<1>7. IsFiniteSet(given[k].cpus)
  <2>1. k \in 1 .. Len(given) /\ ~Exits(given[k])
    BY <1>1 DEF Parsing
  <2> QED
    BY <1>1, <2>1, LineTyped DEF Parsing, Exits, IsOption
<1>8. k \notin earlier
  BY <1>1
<1> HIDE DEF earlier, all
<1>9. /\ Cardinality(ThreadsOf(earlier)) \in Nat
      /\ Cardinality(given[k].cpus) \in Nat
      /\ Cardinality(ThreadsOf(earlier \cup {k}))
            = Cardinality(ThreadsOf(earlier)) + Cardinality(given[k].cpus)
  BY <1>5, <1>7, <1>8, OneMoreBenchmark
<1>10. Before(k) = Cardinality(ThreadsOf(earlier))
  BY DEF Before, earlier
<1> QED
  BY <1>4, <1>6, <1>9, <1>10

LEMMA BenchmarkStep ==
    ASSUME IInv, BenchmarkOption
    PROVE  IInv'
<1>1. Parse("b") /\ "b" \in Kinds
  BY DEF BenchmarkOption, Kinds
<1>2. BenchmarksRead'
  <2>1. /\ given' = given /\ Head(args) = given[NextOption] /\ NextOption \in 1 .. Len(given)
        /\ given[NextOption].opt = "b" /\ ~Exits(given[NextOption])
        /\ ReadOf("b")' = ReadOf("b") \cup {NextOption}
        /\ NextOption \notin Read /\ (\A j \in Read : j < NextOption)
        /\ (\A j \in 1 .. NextOption : j \in Read \/ j = NextOption)
    BY <1>1, OneMoreRead DEF IInv
  <2>2. IsFiniteSet(given[NextOption].cpus) /\ given[NextOption].hw \in Nat
    BY <2>1, LineTyped DEF IInv, Parsing, IsOption, Exits
  <2>3. PICK last, cpus, param :
            /\ last = NextOption /\ cpus = given[NextOption].cpus
            /\ param = create_hw_param(given[NextOption].hw)
    OBVIOUS
  <2>4. /\ benchmarks \in Seq(SUBSET Int) /\ IsFiniteSet(ThreadsOf(ReadOf("b")))
        /\ Len(benchmarks) = Cardinality(ThreadsOf(ReadOf("b")))
        /\ NextOption \notin ReadOf("b")
    BY <2>1 DEF IInv, BenchmarksRead, ReadOf
  <2>5. /\ IsFiniteSet(ThreadsOf(ReadOf("b") \cup {last}))
        /\ Cardinality(cpus) \in Nat
        /\ Cardinality(ThreadsOf(ReadOf("b") \cup {last})) = Len(benchmarks) + Cardinality(cpus)
    BY <2>2, <2>3, <2>4, OneMoreBenchmark
  <2>6. param \in SUBSET Int
    BY <2>2, <2>3, WeightByRank
  <2>7. PICK n \in Nat : n = Cardinality(cpus)
    BY <2>5
  <2> DEFINE more == [c \in 1 .. n |-> param]
  <2>8. benchmarks' = benchmarks \o more
    BY <2>1, <2>3, <2>7 DEF BenchmarkOption
  <2>9. more \in Seq(SUBSET Int) /\ Len(more) = n
    BY <2>6
  <2>10. /\ benchmarks' \in Seq(SUBSET Int) /\ Len(benchmarks') = Len(benchmarks) + n
         /\ \A t \in 1 .. Len(benchmarks) : benchmarks'[t] = benchmarks[t]
         /\ \A c \in 1 .. n : benchmarks'[Len(benchmarks) + c] = param
    <3> PICK Params : Params = SUBSET Int
      OBVIOUS
    <3>1. benchmarks \in Seq(Params) /\ more \in Seq(Params) /\ Len(benchmarks) \in Nat
      BY <2>4, <2>9
    <3>2. benchmarks' \in Seq(Params) /\ Len(benchmarks') = Len(benchmarks) + n
      BY <2>8, <2>9, <3>1
    <3>3. \A c \in 1 .. n : more[c] = param
      OBVIOUS
    <3> HIDE DEF more
    <3>4. \A t \in 1 .. Len(benchmarks) : benchmarks'[t] = benchmarks[t]
      BY <2>8, <2>9, <3>1
    <3>5. ASSUME NEW c \in 1 .. n
          PROVE  benchmarks'[Len(benchmarks) + c] = param
      <4>1. Len(benchmarks) + c \in 1 .. Len(benchmarks) + Len(more)
        BY <2>9, <3>1
      <4>2. benchmarks'[Len(benchmarks) + c] = more[Len(benchmarks) + c - Len(benchmarks)]
        BY <2>8, <2>9, <3>1, <4>1
      <4> QED
        BY <3>1, <3>3, <4>2
    <3> QED
      BY <3>2, <3>4, <3>5
  <2>11. Before(last) = Len(benchmarks)
    <3>1. {j \in Places("b") : j < last} = ReadOf("b")
      <4>1. ASSUME NEW j
            PROVE  j \in Places("b") /\ j < last <=> j \in ReadOf("b")
        <5>1. /\ Len(given) \in Nat /\ DOMAIN given = 1 .. Len(given)
              /\ Read \subseteq 1 .. Len(given) /\ last \in 1 .. Len(given)
          BY <2>1, <2>3, LineTyped, ReadFinite DEF IInv, Parsing
        <5>2. ASSUME j \in Read
              PROVE  j \in 1 .. Len(given) /\ j < last
          BY <2>1, <2>3, <5>1, <5>2
        <5>3. ASSUME j \in 1 .. Len(given), j < last
              PROVE  j \in Read
          BY <2>1, <2>3, <5>1, <5>3
        <5> QED
          BY <5>1, <5>2, <5>3 DEF Places, ReadOf
      <4> QED
        BY <4>1 DEF Places
    <3> QED
      BY <2>4, <3>1 DEF Before
  <2>12. ASSUME NEW k \in ReadOf("b")', NEW c \in 1 .. Cardinality(given[k].cpus)
         PROVE  benchmarks'[Before(k) + c] = create_hw_param(given[k].hw)
    <3>1. CASE k \in ReadOf("b")
      <4>1. Before(k) + c \in 1 .. Len(benchmarks)
        <5>1. /\ Before(k) \in Nat /\ Cardinality(given[k].cpus) \in Nat
              /\ Before(k) + Cardinality(given[k].cpus) <= Len(benchmarks)
          BY <3>1, ThreadsInRange DEF IInv
        <5> QED
          BY <2>4, <5>1
      <4> QED
        BY <2>10, <3>1, <4>1 DEF IInv, BenchmarksRead
    <3>2. CASE k = last
      BY <2>3, <2>7, <2>10, <2>11, <3>2
    <3> QED
      BY <2>1, <2>3, <3>1, <3>2
  <2>13. /\ \A options : ThreadsOf(options)' = ThreadsOf(options)
         /\ \A k : Before(k)' = Before(k)
    BY <2>1, SameLine
  <2>14. ThreadsOf(ReadOf("b"))' = ThreadsOf(ReadOf("b") \cup {last})
    <3>1. ThreadsOf(ReadOf("b"))' = ThreadsOf(ReadOf("b")')
      BY <2>1 DEF ThreadsOf
    <3> QED
      BY <2>1, <2>3, <3>1
  <2>15. execution_cpus' = (UNION {given[k].cpus : k \in ReadOf("b")})'
    <3>1. execution_cpus' = execution_cpus \cup given[NextOption].cpus
      BY <2>1 DEF BenchmarkOption
    <3>2. execution_cpus = UNION {given[k].cpus : k \in ReadOf("b")}
      BY DEF IInv, BenchmarksRead
    <3> QED
      BY <2>1, <3>1, <3>2
  <2> QED
    BY <2>1, <2>5, <2>7, <2>10, <2>12, <2>13, <2>14, <2>15 DEF BenchmarksRead
<1> QED
  BY <1>1, <1>2, ParseKeeps DEF BenchmarkOption, IInv, Values

-----------------------------------------------------------------------------
LEMMA Elements ==
    ASSUME NEW S, NEW seq \in Seq(S)
    PROVE  \A p \in 1 .. Len(seq) : seq[p] \in S
  OBVIOUS

LEMMA LenTyped ==
    ASSUME PollsRead
    PROVE  /\ Len(polls) \in Nat /\ DOMAIN polls = 1 .. Len(polls)
           /\ polls = <<>> <=> Len(polls) = 0
           /\ \A p \in 1 .. Len(polls) :
                /\ polls[p] \in Poll
                /\ polls[p].total_ops \in Nat /\ polls[p].interval \in Timespec
<1>1. polls \in Seq(Poll)
  BY DEF PollsRead
<1>2. /\ Len(polls) \in Nat /\ DOMAIN polls = 1 .. Len(polls)
      /\ polls = <<>> <=> Len(polls) = 0
      /\ \A p \in 1 .. Len(polls) : polls[p] \in Poll
  <2>1. Len(polls) \in Nat /\ DOMAIN polls = 1 .. Len(polls)
    BY <1>1
  <2>2. \A p \in 1 .. Len(polls) : polls[p] \in Poll
    BY <1>1, Elements
  <2>3. polls = <<>> => Len(polls) = 0
    OBVIOUS
  <2>4. Len(polls) = 0 => polls = <<>>
    BY <1>1
  <2> QED
    BY <2>1, <2>2, <2>3, <2>4
<1>3. ASSUME NEW poll \in Poll
      PROVE  poll.total_ops \in Nat /\ poll.interval \in Timespec
  BY DEF Poll
<1> QED
  BY <1>1, <1>2, <1>3

\* A time that an option gives can be parsed, and so can the defaults.
LEMMA TimeRead ==
    ASSUME Parsing, NEW k \in Read, given[k].opt \in {"t", "T", "p"}
    PROVE  IsTime(given[k].time)
<1>1. k \in 1 .. Len(given)
  BY ReadFinite
<1> QED
  BY <1>1, LineTyped DEF Parsing, Exits, IsOption

LEMMA DefaultsAreTimes == IsTime(Default.duration) /\ IsTime(Default.ab_duration)
  BY UnitsOfTime DEF IsTime, Default, Units

LEMMA DurationTyped ==
    ASSUME Parsing, Values
    PROVE  duration \in Timespec
<1>1. CASE ReadOf("t") = {}
  BY <1>1, DefaultsAreTimes, InNanoseconds DEF Values, Overwritten
<1>2. CASE ReadOf("t") # {}
  <2>1. PICK k \in ReadOf("t") : duration = str2timespec(given[k].time)
    BY <1>2 DEF Values, Overwritten
  <2>2. IsTime(given[k].time)
    BY TimeRead DEF ReadOf
  <2> QED
    BY <2>1, <2>2, InNanoseconds
<1> QED
  BY <1>1, <1>2

LEMMA Start ==
    ASSUME Init
    PROVE  IInv
<1>1. /\ given \in CommandLines /\ args = given /\ Len(given) \in Nat
      /\ given \in Seq({given[k] : k \in DOMAIN given})
      /\ phase = "options" /\ i = 1 /\ jobout = <<>>
      /\ msr_safe \in Drivers
  BY LineTyped DEF Init
<1>2. Read = {} /\ \A opt : ReadOf(opt) = {}
  BY <1>1 DEF Read, ReadOf
<1>3. Cardinality({}) = 0 /\ IsFiniteSet({})
  BY FS_EmptySet
<1>4. ThreadsOf({}) = {}
  BY DEF ThreadsOf
<1>5. Parsing
  BY <1>1, <1>2 DEF Parsing, Phases
<1>6. Values
  <2>1. /\ Overwritten("t", duration, Default.duration)
        /\ Overwritten("T", ab_duration, Default.ab_duration) /\ MainCpuRead
    BY <1>2 DEF Init, Overwritten, MainCpuRead
  <2>2. ab_randomized <=> ReadOf("R") # {}
    BY <1>2 DEF Init
  <2> QED
    BY <2>1, <2>2 DEF Values
<1>7. Numbered
  BY <1>2, <1>3 DEF Numbered
<1>8. PollsRead /\ LongitudinalsRead /\ BenchmarksRead
  <2>1. \A S : <<>> \in Seq(S) /\ Len(<<>>) = 0
    OBVIOUS
  <2>2. polls = <<>> /\ benchmarks = <<>> /\ longitudinals = <<>>
    BY DEF Init
  <2>3. PollsRead
    BY <1>2, <1>3, <2>1, <2>2 DEF PollsRead
  <2>4. LongitudinalsRead
    BY <1>2, <1>3, <2>1, <2>2 DEF LongitudinalsRead
  <2>5. BenchmarksRead
    <3>1. execution_cpus = UNION {given[k].cpus : k \in ReadOf("b")}
      BY <1>2 DEF Init
    <3> QED
      BY <1>2, <1>3, <1>4, <2>1, <2>2, <3>1 DEF BenchmarksRead
  <2> QED
    BY <2>3, <2>4, <2>5
<1>9. Printed /\ Ending
  BY <1>1 DEF Printed, Ending
<1> QED
  BY <1>5, <1>6, <1>7, <1>8, <1>9 DEF IInv

\* Once the command line is parsed, nothing changes what was read from it.
LEMMA LaterKeeps ==
    ASSUME IInv,
           UNCHANGED <<args, given, duration, ab_duration, ab_randomized, main_cpu,
                       benchmarks, execution_cpus, longitudinals>>
    PROVE  /\ Values' /\ Numbered' /\ LongitudinalsRead' /\ BenchmarksRead'
           /\ polls' = polls => PollsRead'
           /\ Read' = Read /\ NextOption' = NextOption /\ Len(args') = Len(args)
<1>1. /\ given' = given /\ args' = args /\ Read' = Read /\ NextOption' = NextOption
      /\ \A opt : ReadOf(opt)' = ReadOf(opt)
  BY SameRead
<1>2. /\ \A k : Number(k)' = Number(k)
      /\ \A options : ThreadsOf(options)' = ThreadsOf(options)
      /\ \A k : Before(k)' = Before(k)
      /\ \A o : Places(o)' = Places(o)
      /\ Poll' = Poll
  BY <1>1, SameLine
<1>3. \A opt, k : LastRead(opt, k)' <=> LastRead(opt, k)
  BY <1>1 DEF LastRead
<1>4. /\ Overwritten("t", duration, Default.duration)'
      /\ Overwritten("T", ab_duration, Default.ab_duration)'
      /\ MainCpuRead'
  BY <1>1, <1>3 DEF IInv, Values, Overwritten, MainCpuRead
<1>5. (ab_randomized <=> ReadOf("R") # {})'
  <2>1. ReadOf("R")' = ReadOf("R")
    BY <1>1
  <2> QED
    BY <2>1, Zenon DEF IInv, Values
<1>6. Numbered'
  BY <1>1, <1>2 DEF IInv, Numbered
<1>7. LongitudinalsRead'
  <2>1. {given[k].type : k \in Places("l")}' = {given[k].type : k \in Places("l")}
    BY <1>1, <1>2
  <2> QED
    BY <1>1, <1>2, <2>1 DEF IInv, LongitudinalsRead
<1>8. BenchmarksRead'
  <2>1. ThreadsOf(ReadOf("b"))' = ThreadsOf(ReadOf("b"))
    <3>1. ThreadsOf(ReadOf("b"))' = ThreadsOf(ReadOf("b")')
      BY <1>1 DEF ThreadsOf
    <3> QED
      BY <1>1, <3>1
  <2>2. (UNION {given[k].cpus : k \in ReadOf("b")})' = UNION {given[k].cpus : k \in ReadOf("b")}
    BY <1>1
  <2> QED
    BY <1>1, <1>2, <2>1, <2>2 DEF IInv, BenchmarksRead
<1>9. polls' = polls => PollsRead'
  BY <1>1, <1>2 DEF IInv, PollsRead
<1> QED
  BY <1>1, <1>4, <1>5, <1>6, <1>7, <1>8, <1>9 DEF Values

\* Only phase, i and jobout change in most of these steps.
LEMMA ProgressKeeps ==
    ASSUME IInv, UNCHANGED <<args, jobVars, msr_safe, given>>,
           phase' \in Phases,
           phase' \notin {"options", "exited"} => Len(args) = 0,
           phase' = "exited" /\ Len(args) # 0 => Exits(given[NextOption]),
           Printed', Ending'
    PROVE  IInv'
<1>1. /\ Values' /\ Numbered' /\ LongitudinalsRead' /\ BenchmarksRead' /\ PollsRead'
      /\ Read' = Read /\ NextOption' = NextOption
  BY LaterKeeps DEF jobVars
<1>2. Parsing'
  BY <1>1 DEF IInv, Parsing
<1> QED
  BY <1>1, <1>2 DEF IInv

LEMMA RefuseStep ==
    ASSUME IInv, Refuse
    PROVE  IInv'
<1>1. /\ phase = "options" /\ args # <<>> /\ Exits(Head(args)) /\ phase' = "exited"
      /\ jobout' = jobout /\ i' = i
  BY DEF Refuse
<1>2. Len(args) # 0 /\ Head(args) = given[NextOption]
  <2>1. /\ Len(given) \in Nat /\ Len(args) \in Nat /\ Len(args) <= Len(given)
        /\ args \in Seq({given[k] : k \in DOMAIN given})
    BY LineTyped DEF IInv, Parsing
  <2>2. Len(args) # 0 /\ Head(args) = args[1]
    BY <1>1, <2>1
  <2>3. 1 \in 1 .. Len(args)
    BY <2>1, <2>2
  <2> QED
    BY <2>2, <2>3 DEF IInv, Parsing, NextOption
<1>3. Printed' /\ Ending'
  BY <1>1, <1>2 DEF IInv, Printed, Ending, Refuse
<1> QED
  BY <1>1, <1>2, <1>3, ProgressKeeps DEF Refuse, Phases, Endings

LEMMA PrintStep ==
    ASSUME IInv, PrintOptions
    PROVE  IInv'
<1>1. phase = "options" /\ Len(args) = 0 /\ phase' = "allowlist"
  BY DEF PrintOptions
<1>2. Printed'
  <2>1. polls \in Seq(Poll)
    BY DEF IInv, PollsRead
  <2>2. DOMAIN polls = 1 .. Len(polls)
    BY <2>1
  <2> QED
    BY <1>1, <2>2 DEF PrintOptions, Printed, jobVars
<1>3. Ending'
  BY <1>1 DEF IInv, Ending, PrintOptions
<1> QED
  BY <1>1, <1>2, <1>3, ProgressKeeps DEF PrintOptions, Phases

LEMMA PrintedStays ==
    ASSUME IInv, phase # "options", phase' # "options",
           UNCHANGED <<args, jobVars, jobout>>
    PROVE  Printed'
  BY DEF IInv, Printed, jobVars

LEMMA AllowlistStep ==
    ASSUME IInv, PopulateAllowlist
    PROVE  IInv'
<1>1. /\ phase = "allowlist" /\ Len(args) = 0 /\ i = 1 /\ i' = i
      /\ msr_safe \in Drivers
      /\ UNCHANGED <<jobVars, msr_safe>>
      /\ msr_safe = "no_allowlist" => phase' = "aborted"
      /\ msr_safe = "write_fails" => phase' = "exited"
      /\ Loaded => phase' = "batches"
  BY DEF IInv, Parsing, Ending, PopulateAllowlist, Loaded
<1>2. Printed'
  BY <1>1, PrintedStays DEF PopulateAllowlist
<1>3. Ending'
  <2>1. Loaded' = Loaded /\ polls' = polls
    BY <1>1 DEF Loaded, jobVars
  <2>2. phase' \in {"aborted", "exited", "batches"}
    BY <1>1 DEF Loaded
  <2>3. \A p \in 1 .. Len(polls) : ~(p < 1)
    BY LenTyped DEF IInv
  <2>4. phase' = "batches" => Loaded
    BY <1>1 DEF Loaded
  <2>5. /\ phase' = "aborted" => msr_safe = "no_allowlist"
        /\ phase' = "exited" => msr_safe = "write_fails"
    BY <1>1 DEF Loaded
  <2> QED
    BY <1>1, <2>1, <2>2, <2>3, <2>4, <2>5 DEF Ending
<1> QED
  BY <1>1, <1>2, <1>3, ProgressKeeps DEF PopulateAllowlist, Phases, Endings

\* Loaded, MayEnd and so on do not change once the polls are set up.
LEMMA SetUpStays ==
    ASSUME UNCHANGED <<jobVars, msr_safe>>
    PROVE  /\ Loaded' = Loaded /\ AllReady' = AllReady
           /\ ThreadsPinned' = ThreadsPinned /\ MayEnd' = MayEnd /\ CanFail' = CanFail
           /\ CanPin(main_cpu)' = CanPin(main_cpu) /\ \A p : Ready(p)' = Ready(p)
           /\ polls' = polls /\ main_cpu' = main_cpu /\ msr_safe' = msr_safe
<1>1. /\ duration' = duration /\ ab_duration' = ab_duration /\ polls' = polls
      /\ main_cpu' = main_cpu /\ execution_cpus' = execution_cpus
  BY DEF jobVars
<1>2. \A p : Ready(p)' = Ready(p)
  BY <1>1 DEF Ready
<1>3. \A cpus : CanPin(cpus)' = CanPin(cpus)
  BY DEF CanPin
<1>4. ThreadsPinned' = ThreadsPinned
  BY <1>1 DEF ThreadsPinned, CanPin
<1>5. ABLoopEnds' = ABLoopEnds
  BY <1>1 DEF ABLoopEnds, NeverASecond
<1> QED
  BY <1>1, <1>2, <1>4, <1>5 DEF Loaded, AllReady, Ready, MayEnd, CanFail, CanPin

LEMMA DivideStep ==
    ASSUME IInv, DivideByZero
    PROVE  IInv'
<1>1. /\ phase = "batches" /\ phase' = "killed" /\ i' = i /\ i <= Len(polls)
      /\ Nanoseconds(polls[i].interval) = 0 /\ UNCHANGED <<jobVars, msr_safe>>
  BY DEF DivideByZero
<1>2. Printed'
  BY <1>1, PrintedStays DEF DivideByZero
<1>3. Ending'
  <2>1. i \in 1 .. Len(polls)
    BY <1>1, LenTyped DEF IInv, Ending
  <2> QED
    BY <1>1, <2>1, SetUpStays DEF IInv, Ending
<1>4. Len(args) = 0
  BY <1>1 DEF IInv, Parsing
<1> QED
  BY <1>1, <1>2, <1>3, <1>4, ProgressKeeps DEF DivideByZero, Phases, Endings

LEMMA PinStep ==
    ASSUME IInv, PinMain
    PROVE  IInv'
<1>1. /\ phase = "batches" /\ i > Len(polls) /\ i' = 1 /\ UNCHANGED <<jobVars, msr_safe>>
      /\ ~CanPin(main_cpu) => phase' = "aborted"
      /\ CanPin(main_cpu) => phase' = "run"
  BY DEF PinMain
<1>2. Printed'
  BY <1>1, PrintedStays DEF PinMain
<1>3. AllReady /\ Loaded
  BY <1>1, LenTyped DEF IInv, Ending, AllReady
<1>4. Ending'
  <2>1. phase' \in {"aborted", "run"}
    BY <1>1
  <2> QED
    BY <1>1, <1>3, <2>1, SetUpStays DEF Ending
<1>5. Len(args) = 0
  BY <1>1 DEF IInv, Parsing
<1> QED
  BY <1>1, <1>2, <1>4, <1>5, ProgressKeeps DEF PinMain, Phases, Endings

\* What the run leaves, however it ends.
LEMMA RunLeaves ==
    ASSUME IInv, phase = "run", phase' \in {"aborted", "exited", "dump"},
           UNCHANGED <<args, jobVars, i, jobout, msr_safe, given>>,
           phase' = "aborted" => ~ThreadsPinned \/ msr_safe = "no_batch",
           phase' = "exited" => msr_safe = "ioctl_fails" /\ CanFail,
           phase' = "dump" => MayEnd
    PROVE  IInv'
<1>1. Printed'
  BY PrintedStays
<1>2. /\ i = 1 /\ Loaded /\ AllReady /\ CanPin(main_cpu) /\ Len(args) = 0
      /\ \A p \in 1 .. Len(polls) : ~(p < 1)
  BY LenTyped DEF IInv, Ending, Parsing
<1>3. Ending'
  BY <1>2, SetUpStays DEF Ending
<1> QED
  BY <1>1, <1>2, <1>3, ProgressKeeps DEF Phases, Endings

LEMMA PinThreadStep ==
    ASSUME IInv, PinThread
    PROVE  IInv'
  BY RunLeaves DEF PinThread

LEMMA OpenBatchStep ==
    ASSUME IInv, OpenBatch
    PROVE  IInv'
  BY RunLeaves DEF OpenBatch

LEMMA IoctlStep ==
    ASSUME IInv, IoctlFails
    PROVE  IInv'
<1>1. CanFail
  BY LenTyped DEF IInv, IoctlFails, CanFail
<1> QED
  BY <1>1, RunLeaves DEF IoctlFails

LEMMA JoinStep ==
    ASSUME IInv, JoinThreads
    PROVE  IInv'
  BY RunLeaves DEF JoinThreads, MayEnd

LEMMA DumpStep ==
    ASSUME IInv, DumpPoll
    PROVE  IInv'
<1>1. /\ phase = "dump" /\ i <= Len(polls) /\ UNCHANGED <<jobVars, msr_safe>>
      /\ polls[i].total_ops >= 3 => phase' = phase /\ i' = i + 1
      /\ ~(polls[i].total_ops >= 3) => phase' = "aborted" /\ i' = i
  BY DEF DumpPoll, DumpFrom
<1>2. Printed'
  BY <1>1, PrintedStays DEF DumpPoll, DumpFrom
<1>3. Loaded /\ AllReady /\ CanPin(main_cpu) /\ MayEnd
  BY <1>1 DEF IInv, Ending
<1>4. /\ Len(polls) \in Nat /\ i \in 1 .. Len(polls)
      /\ \A p \in 1 .. Len(polls) : polls[p].total_ops \in Nat
  BY <1>1, LenTyped DEF IInv, Ending
<1>5. Ending'
  <2>1. CASE polls[i].total_ops >= 3
    BY <1>1, <1>3, <1>4, <2>1, SetUpStays DEF IInv, Ending
  <2>2. CASE ~(polls[i].total_ops >= 3)
    BY <1>1, <1>3, <1>4, <2>2, SetUpStays DEF IInv, Ending
  <2> QED
    BY <2>1, <2>2
<1>6. Len(args) = 0
  BY <1>1 DEF IInv, Parsing
<1> QED
  BY <1>1, <1>2, <1>5, <1>6, ProgressKeeps DEF DumpPoll, DumpFrom, Phases, Endings

LEMMA CleanupStep ==
    ASSUME IInv, Cleanup
    PROVE  IInv'
<1>1. /\ phase = "dump" /\ i > Len(polls) /\ i' = i /\ UNCHANGED <<jobVars, msr_safe>>
      /\ Len(polls) = 0 => phase' = "segv"
      /\ Len(polls) # 0 => phase' = "done"
  BY LenTyped DEF Cleanup, IInv, PollsRead
<1>2. Printed'
  BY <1>1, PrintedStays DEF Cleanup
<1>3. Loaded /\ AllReady /\ CanPin(main_cpu) /\ MayEnd
  BY <1>1 DEF IInv, Ending
<1>4. Ending'
  BY <1>1, <1>3, LenTyped, SetUpStays DEF IInv, Ending
<1>5. Len(args) = 0
  BY <1>1 DEF IInv, Parsing
<1> QED
  BY <1>1, <1>2, <1>4, <1>5, ProgressKeeps DEF Cleanup, Phases, Endings

LEMMA SetupStep ==
    ASSUME IInv, SetupPoll
    PROVE  IInv'
<1>1. /\ phase = "batches" /\ phase' = phase /\ i <= Len(polls) /\ i' = i + 1
      /\ Nanoseconds(polls[i].interval) # 0
      /\ polls' = [polls EXCEPT ![i].total_ops =
                    timespec_division(duration, polls[i].interval)]
      /\ UNCHANGED <<args, duration, ab_duration, ab_randomized, main_cpu,
                     benchmarks, execution_cpus, longitudinals, jobout, msr_safe, given>>
  BY DEF SetupPoll
<1>2. /\ i \in 1 .. Len(polls) /\ Len(polls) \in Nat /\ polls \in Seq(Poll)
      /\ DOMAIN polls = 1 .. Len(polls)
  BY <1>1, LenTyped DEF IInv, Ending, PollsRead
<1>3. duration \in Timespec
  BY DurationTyped DEF IInv
<1>4. timespec_division(duration, polls[i].interval) \in Nat
  <2>1. polls[i].interval \in Timespec
    BY <1>2, LenTyped DEF IInv
  <2>2. /\ Nanoseconds(duration) \in Nat
        /\ Nanoseconds(polls[i].interval) \in Nat \ {0}
    BY <1>1, <1>3, <2>1, NanosecondsTyped
  <2> QED
    BY <2>2, Quotient DEF timespec_division
<1>5. PICK n \in Nat : n = timespec_division(duration, polls[i].interval)
  BY <1>4
<1>6. /\ polls' \in Seq(Poll) /\ Len(polls') = Len(polls)
      /\ \A p \in 1 .. Len(polls) :
            /\ polls'[p].interval = polls[p].interval /\ polls'[p].flags = polls[p].flags
            /\ polls'[p].control_cpu = polls[p].control_cpu
            /\ p # i => polls'[p] = polls[p]
      /\ polls'[i].total_ops = n
  <2>1. polls' = [polls EXCEPT ![i] = [polls[i] EXCEPT !.total_ops = n]]
    BY <1>1, <1>5
  <2>2. polls[i] \in Poll
    BY <1>2, LenTyped DEF IInv
  <2>3. /\ [polls[i] EXCEPT !.total_ops = n] \in Poll
        /\ [polls[i] EXCEPT !.total_ops = n].interval = polls[i].interval
        /\ [polls[i] EXCEPT !.total_ops = n].flags = polls[i].flags
        /\ [polls[i] EXCEPT !.total_ops = n].control_cpu = polls[i].control_cpu
        /\ [polls[i] EXCEPT !.total_ops = n].total_ops = n
    BY <2>2 DEF Poll
  <2> PICK poll : poll = [polls[i] EXCEPT !.total_ops = n]
    OBVIOUS
  <2>4. /\ polls' \in Seq(Poll) /\ Len(polls') = Len(polls)
        /\ \A p \in 1 .. Len(polls) : polls'[p] = IF p = i THEN poll ELSE polls[p]
    BY <1>2, <2>1, <2>3
  <2> QED
    BY <1>2, <2>3, <2>4
<1>7. /\ Values' /\ Numbered' /\ LongitudinalsRead' /\ BenchmarksRead'
      /\ Read' = Read /\ NextOption' = NextOption /\ Len(args') = Len(args)
  BY <1>1, LaterKeeps
<1>8. Parsing'
  BY <1>1, <1>7 DEF IInv, Parsing
<1>9. PollsRead'
  <2>1. /\ Poll' = Poll /\ \A k : Number(k)' = Number(k)
        /\ \A opt : ReadOf(opt)' = ReadOf(opt)
    BY <1>1, SameLine, SameRead
  <2>2. \A k \in ReadOf("p") : Number(k) \in 1 .. Len(polls)
    BY NumbersInRange DEF IInv, PollsRead
  <2> QED
    BY <1>1, <1>6, <2>1, <2>2 DEF IInv, PollsRead
<1>10. Printed'
  BY <1>1, <1>2, <1>6 DEF IInv, Printed
<1>11. Ending'
  <2>1. ASSUME NEW p \in 1 .. Len(polls), p < i + 1
        PROVE  Ready(p)'
    <3>1. CASE p = i
      BY <1>1, <1>2, <1>5, <1>6, <3>1 DEF Ready
    <3>2. CASE p # i
      <4>1. Ready(p)
        BY <1>1, <1>2, <2>1, <3>2 DEF IInv, Ending
      <4> QED
        BY <1>1, <1>6, <3>2, <4>1 DEF Ready
    <3> QED
      BY <3>1, <3>2
  <2>2. Loaded /\ Loaded' = Loaded
    BY <1>1 DEF IInv, Ending, Loaded
  <2> QED
    BY <1>1, <1>2, <1>6, <2>1, <2>2 DEF IInv, Ending
<1> QED
  BY <1>7, <1>8, <1>9, <1>10, <1>11 DEF IInv

LEMMA NextStep ==
    ASSUME IInv, [Next]_vars
    PROVE  IInv'
<1>1. CASE UNCHANGED vars
  <2>1. UNCHANGED <<args, jobVars, msr_safe, given>> /\ phase' = phase /\ i' = i
        /\ jobout' = jobout
    BY <1>1 DEF vars
  <2>2. Printed'
    BY <2>1 DEF IInv, Printed, jobVars
  <2>3. Ending'
    BY <2>1, SetUpStays DEF IInv, Ending
  <2> QED
    BY <2>1, <2>2, <2>3, ProgressKeeps DEF IInv, Parsing
<1>2. CASE Next
  BY <1>1, <1>2, RefuseStep, TimeStep, ABTimeStep, RandomizeStep, MainCpuStep, PollStep,
     BenchmarkStep, LongitudinalStep, PrintStep, AllowlistStep, SetupStep, DivideStep,
     PinStep, PinThreadStep, OpenBatchStep, IoctlStep, JoinStep, DumpStep, CleanupStep
     DEF Next, ABLoop, Ended
<1> QED
  BY <1>1, <1>2

\* The invariant holds for every command line.
THEOREM Invariance == Spec => []IInv
  BY Start, NextStep, PTL DEF Spec

-----------------------------------------------------------------------------
(* What the user asked for, once all is parsed.                            *)

LEMMA AllRead ==
    ASSUME Parsing, Len(args) = 0
    PROVE  /\ Read = DOMAIN given
           /\ \A opt : ReadOf(opt) = Places(opt)
<1>1. Len(given) \in Nat /\ DOMAIN given = 1 .. Len(given)
  BY LineTyped DEF Parsing
<1>2. Read = DOMAIN given
  BY <1>1 DEF Read
<1> QED
  BY <1>2 DEF ReadOf, Places

LEMMA LastIsAsked ==
    ASSUME Parsing, Len(args) = 0, NEW opt, NEW k \in Places(opt), LastRead(opt, k)
    PROVE  LastGiven(opt) = given[k]
<1>1. \A j \in Places(opt) : j <= k
  BY AllRead DEF LastRead
<1>2. \A j \in Places(opt) : j \in Nat
  BY LineTyped DEF Parsing, Places
<1>3. PICK l : l = CHOOSE m \in Places(opt) : \A j \in Places(opt) : j <= m
  OBVIOUS
<1>4. l \in Places(opt) /\ \A j \in Places(opt) : j <= l
  BY <1>1, <1>3
<1>5. l = k
  BY <1>1, <1>2, <1>4
<1> QED
  BY <1>3, <1>5 DEF LastGiven

LEMMA TimesAsked ==
    ASSUME IInv, Len(args) = 0
    PROVE  /\ AskedDuration \in Nat /\ AskedABDuration \in Nat
           /\ Nanoseconds(duration) = AskedDuration % Word
           /\ Nanoseconds(ab_duration) = AskedABDuration % Word
           /\ duration \in Timespec /\ ab_duration \in Timespec
           /\ AskedDuration < NsPerSecond * Word => Exactly(duration, AskedDuration)
           /\ AskedABDuration < NsPerSecond * Word => Exactly(ab_duration, AskedABDuration)
<1>1. ASSUME NEW opt \in {"t", "T"}, NEW value, NEW default,
             IsTime(default), Overwritten(opt, value, default)
      PROVE  /\ NsOf(LastTime(opt, default)) \in Nat
             /\ Nanoseconds(value) = NsOf(LastTime(opt, default)) % Word
             /\ value \in Timespec
             /\ NsOf(LastTime(opt, default)) < NsPerSecond * Word
                    => Exactly(value, NsOf(LastTime(opt, default)))
  <2>1. ReadOf(opt) = Places(opt)
    BY AllRead DEF IInv
  <2>2. IsTime(LastTime(opt, default)) /\ value = str2timespec(LastTime(opt, default))
    <3>1. CASE Places(opt) = {}
      BY <1>1, <2>1, <3>1 DEF Overwritten, LastTime
    <3>2. CASE Places(opt) # {}
      <4>1. PICK k \in Places(opt) : LastRead(opt, k) /\ value = str2timespec(given[k].time)
        BY <1>1, <2>1, <3>2 DEF Overwritten
      <4>2. LastGiven(opt) = given[k]
        BY <4>1, LastIsAsked DEF IInv
      <4>3. k \in Read /\ given[k].opt \in {"t", "T", "p"}
        BY <2>1 DEF ReadOf
      <4>4. IsTime(given[k].time)
        BY <4>3, TimeRead DEF IInv
      <4> QED
        BY <3>2, <4>1, <4>2, <4>4 DEF LastTime
    <3> QED
      BY <3>1, <3>2
  <2> QED
    BY <2>2, InNanoseconds
<1>2. /\ NsOf(LastTime("t", Default.duration)) \in Nat
      /\ Nanoseconds(duration) = NsOf(LastTime("t", Default.duration)) % Word
      /\ duration \in Timespec
      /\ NsOf(LastTime("t", Default.duration)) < NsPerSecond * Word
            => Exactly(duration, NsOf(LastTime("t", Default.duration)))
  BY <1>1, DefaultsAreTimes DEF IInv, Values
<1>3. /\ NsOf(LastTime("T", Default.ab_duration)) \in Nat
      /\ Nanoseconds(ab_duration) = NsOf(LastTime("T", Default.ab_duration)) % Word
      /\ ab_duration \in Timespec
      /\ NsOf(LastTime("T", Default.ab_duration)) < NsPerSecond * Word
            => Exactly(ab_duration, NsOf(LastTime("T", Default.ab_duration)))
  BY <1>1, DefaultsAreTimes DEF IInv, Values
<1> QED
  BY <1>2, <1>3 DEF AskedDuration, AskedABDuration

LEMMA MainAsked ==
    ASSUME IInv, Len(args) = 0
    PROVE  main_cpu = AskedMain
<1>1. ReadOf("m") = Places("m")
  BY AllRead DEF IInv
<1>2. CASE Places("m") = {}
  BY <1>1, <1>2 DEF IInv, Values, MainCpuRead, AskedMain
<1>3. CASE Places("m") # {}
  <2>1. PICK k \in Places("m") : LastRead("m", k) /\ main_cpu = given[k].cpus
    BY <1>1, <1>3 DEF IInv, Values, MainCpuRead
  <2>2. LastGiven("m") = given[k]
    BY <2>1, LastIsAsked DEF IInv
  <2> QED
    BY <1>3, <2>1, <2>2 DEF AskedMain
<1> QED
  BY <1>2, <1>3

LEMMA GivenIsNumbered ==
    ASSUME IInv, Len(args) = 0, NEW opt \in Kinds, NEW n \in 1 .. Count(opt)
    PROVE  \E k \in ReadOf(opt) : Number(k) = n /\ Given(opt, n) = given[k]
<1>1. ReadOf(opt) = Places(opt)
  BY AllRead DEF IInv
<1>2. \E k \in Places(opt) : Number(k) = n
  BY <1>1 DEF IInv, Numbered, Count
<1>3. PICK k : k = CHOOSE m \in Places(opt) : Number(m) = n
  OBVIOUS
<1>4. k \in Places(opt) /\ Number(k) = n
  BY <1>2, <1>3
<1> QED
  BY <1>1, <1>3, <1>4 DEF Given

LEMMA PollsAsked ==
    ASSUME IInv, Len(args) = 0
    PROVE  /\ Len(polls) = Count("p") /\ Len(polls) \in Nat
           /\ \A p \in 1 .. Len(polls) :
                /\ AskedInterval(p) \in Nat
                /\ Nanoseconds(polls[p].interval) = AskedInterval(p) % Word
                /\ polls[p].flags = Given("p", p).flags \cap Flags
                /\ polls[p].control_cpu = Given("p", p).control_cpus
<1>1. Len(polls) = Count("p") /\ Len(polls) \in Nat
  BY AllRead, LenTyped DEF IInv, PollsRead, Count
<1>2. ASSUME NEW p \in 1 .. Len(polls)
      PROVE  /\ AskedInterval(p) \in Nat
             /\ Nanoseconds(polls[p].interval) = AskedInterval(p) % Word
             /\ polls[p].flags = Given("p", p).flags \cap Flags
             /\ polls[p].control_cpu = Given("p", p).control_cpus
  <2>1. PICK k \in ReadOf("p") : Number(k) = p /\ Given("p", p) = given[k]
    BY <1>1, GivenIsNumbered DEF Kinds
  <2>2. /\ polls[p].interval = str2timespec(given[k].time)
        /\ polls[p].flags = given[k].flags \cap Flags
        /\ polls[p].control_cpu = given[k].control_cpus
    BY <2>1 DEF IInv, PollsRead
  <2>3. k \in Read /\ given[k].opt \in {"t", "T", "p"}
    BY DEF ReadOf
  <2>4. IsTime(given[k].time)
    BY <2>3, TimeRead DEF IInv
  <2> QED
    BY <2>1, <2>2, <2>4, InNanoseconds DEF AskedInterval
<1> QED
  BY <1>1, <1>2

LEMMA BelowWord ==
    ASSUME NEW ns \in Nat, Fits(ns)
    PROVE  ns % Word = ns
<1>1. Word \in Nat \ {0} /\ ns \in 0 .. Word - 1
  BY OptionsAssumption DEF Fits
<1>2. (Word * 0 + ns) % Word = ns
  BY <1>1, QuotientUnique
<1> QED
  BY <1>1, <1>2

-----------------------------------------------------------------------------
\* SamplesFitDuration: each poll has as many ops as intervals fit into the duration.
THEOREM SamplesFit == Spec => []SamplesFitDuration
<1>1. ASSUME IInv
      PROVE  SamplesFitDuration
  <2> SUFFICES ASSUME phase \in {"run", "dump", "done"}, Fits(AskedDuration),
                      NEW p \in DOMAIN polls, Fits(AskedInterval(p))
               PROVE  LET n == polls[p].total_ops
                      IN  /\ n * AskedInterval(p) <= AskedDuration
                          /\ AskedDuration < (n + 1) * AskedInterval(p)
    BY DEF SamplesFitDuration
  <2>1. Len(args) = 0 /\ p \in 1 .. Len(polls)
    BY <1>1, LenTyped DEF IInv, Parsing
  <2>2. Ready(p)
    BY <1>1, <2>1 DEF IInv, Ending, AllReady
  <2>3. PICK d \in Nat, n \in Nat : d = AskedDuration /\ n = AskedInterval(p)
    BY <1>1, <2>1, TimesAsked, PollsAsked
  <2>4. Nanoseconds(duration) = d
    BY <1>1, <2>1, <2>3, TimesAsked, BelowWord
  <2>5. Nanoseconds(polls[p].interval) = n
    BY <1>1, <2>1, <2>3, PollsAsked, BelowWord
  <2>6. n \in Nat \ {0} /\ polls[p].total_ops = d \div n
    BY <2>2, <2>4, <2>5 DEF Ready, timespec_division
  <2>7. (d \div n) * n <= d /\ d < (d \div n + 1) * n
    BY <2>6, QuotientBounds
  <2> QED
    BY <2>3, <2>6, <2>7
<1> QED
  BY <1>1, Invariance, PTL

LEMMA ThreadsAsked ==
    ASSUME IInv, Len(args) = 0
    PROVE  ThreadsPinned <=> AskedPinned
<1>1. /\ DOMAIN polls = 1 .. Count("p")
      /\ \A p \in 1 .. Count("p") : polls[p].control_cpu = Given("p", p).control_cpus
  BY PollsAsked, LenTyped DEF IInv
<1>2. execution_cpus = UNION {given[k].cpus : k \in Places("b")}
  BY AllRead DEF IInv, BenchmarksRead
<1>3. (\A cpu \in execution_cpus : CanPin({cpu}))
        <=> \A k \in Places("b") : given[k].cpus \subseteq Cpus
  <2>1. \A cpu : CanPin({cpu}) <=> cpu \in Cpus
    BY DEF CanPin
  <2>2. \A cpu : cpu \in execution_cpus <=> \E k \in Places("b") : cpu \in given[k].cpus
    BY <1>2
  <2> QED
    BY <2>1, <2>2
<1> QED
  BY <1>1, <1>3 DEF ThreadsPinned, AskedPinned

\* A loop that the options make unending does not end: what decides it is small
\* enough to be kept exactly.
LEMMA LoopAsked ==
    ASSUME IInv, Len(args) = 0, ABLoopEnds
    PROVE  ~Unending
<1> SUFFICES ASSUME Unending
             PROVE  FALSE
  OBVIOUS
<1> PICK n \in Nat \ {0} : n = NsPerSecond
  BY UnitsOfTime
<1> PICK half \in Nat \ {0} : half = Word \div 2 /\ half < Word
  <2>1. Word \in Nat /\ Word > 10
    <3>1. Thousand * Thousand * Thousand \in Nat \ {0}
      BY UnitsOfTime DEF NsPerSecond
    <3>2. 10 * Thousand * Thousand * Thousand = 10 * (Thousand * Thousand * Thousand)
      BY OptionsAssumption
    <3> QED
      BY <3>1, <3>2, OptionsAssumption
  <2>2. Word \div 2 \in Nat \ {0} /\ Word \div 2 < Word
    BY <2>1
  <2> QED
    BY <2>2
<1>1. /\ AskedDuration \in Nat /\ AskedABDuration \in Nat
      /\ duration \in Timespec /\ ab_duration \in Timespec
      /\ AskedABDuration < n /\ n <= AskedDuration /\ AskedDuration < n * half
      /\ AskedABDuration = 0 \/ (n - 1) % AskedABDuration = 0
  BY TimesAsked DEF Unending
<1>2. n * half < n * Word /\ n <= n * half
  <2>1. Word \in Int /\ n * half + n <= n * Word
    BY OptionsAssumption, MultiplesApart
  <2>2. n * half \in Nat /\ n * Word \in Int
    BY <2>1
  <2> QED
    BY <2>1, <2>2, GrowsByFactor
<1>3. AskedDuration < n * Word /\ AskedABDuration < n * Word
  <2>1. n * half \in Nat /\ n * Word \in Int
    BY OptionsAssumption
  <2> QED
    BY <1>1, <1>2, <2>1
<1>4. Exactly(duration, AskedDuration) /\ Exactly(ab_duration, AskedABDuration)
  BY <1>3, TimesAsked
<1>5. duration.tv_sec # 0 /\ duration.tv_sec < half
  <2> PICK q \in Nat : q = duration.tv_sec
    BY <1>1 DEF Timespec
  <2>1. n * q <= AskedDuration /\ AskedDuration < n * q + n
    BY <1>1, <1>4, SecondsAndRest
  <2>2. q # 0
    BY <1>1, <2>1
  <2>3. q # half
    BY <1>1, <2>1
  <2>4. ~(half < q)
    <3>1. ASSUME half < q
          PROVE  FALSE
      <4>1. n * half + n <= n * q
        BY <3>1, MultiplesApart, SMTT(30)
      <4>2. n * half \in Nat /\ n * q \in Nat
        OBVIOUS
      <4> QED
        BY <1>1, <2>1, <4>1, <4>2
    <3> QED
      BY <3>1
  <2> QED
    BY <2>2, <2>3, <2>4
<1>6. ab_duration.tv_sec = 0 /\ ab_duration.tv_nsec = AskedABDuration
  <2> PICK q \in Nat : q = ab_duration.tv_sec
    BY <1>1 DEF Timespec
  <2>1. n * q <= AskedABDuration
    BY <1>1, <1>4, SecondsAndRest
  <2>2. q = 0
    <3>1. ASSUME q # 0
          PROVE  n <= n * q
      BY <3>1, GrowsByFactor
    <3>2. n * q \in Nat
      OBVIOUS
    <3> QED
      BY <1>1, <2>1, <3>1, <3>2
  <2>3. n * q + ab_duration.tv_nsec = AskedABDuration /\ ab_duration.tv_nsec \in Nat
    BY <1>1, <1>4 DEF Exactly, Timespec
  <2> QED
    BY <2>2, <2>3
<1>7. NeverASecond(ab_duration)
  BY <1>1, <1>6 DEF NeverASecond
<1>8. duration.tv_sec \in Nat /\ ~(duration.tv_sec >= half)
  BY <1>1, <1>5 DEF Timespec
<1> QED
  BY <1>5, <1>7, <1>8 DEF ABLoopEnds

\* What setup_polling_batches has made of the intervals is what was asked for.
LEMMA ReadyAsked ==
    ASSUME IInv, Len(args) = 0, AllReady
    PROVE  /\ ~ZeroInterval
           /\ \A p \in 1 .. Len(polls) :
                polls[p].total_ops = Total(p) /\ polls[p].total_ops \in Nat
<1>1. /\ Len(polls) = Count("p")
      /\ \A p \in 1 .. Len(polls) :
            Nanoseconds(polls[p].interval) = AskedInterval(p) % Word
  BY PollsAsked
<1>2. ASSUME NEW p \in 1 .. Len(polls)
      PROVE  /\ AskedInterval(p) % Word # 0 /\ Total(p) = polls[p].total_ops
             /\ polls[p].total_ops \in Nat
  BY <1>1, TimesAsked, LenTyped DEF AllReady, Ready, Total, timespec_division, IInv
<1> QED
  BY <1>1, <1>2 DEF ZeroInterval

\* OutcomeOfOptions: each ending of a job tells what was asked of it, of the machine
\* and of msr-safe; an A|B loop that the options make unending has none of its own.
THEOREM OutcomeDecided == Spec => []OutcomeOfOptions
<1>1. ASSUME IInv
      PROVE  OutcomeOfOptions
  <2>1. /\ Len(given) \in Nat /\ DOMAIN given = 1 .. Len(given) /\ Len(args) \in Nat
        /\ Len(args) <= Len(given)
    BY <1>1, LineTyped DEF IInv, Parsing
  <2>2. CASE Len(args) # 0
    <3>1. /\ phase \in {"options", "exited"}
          /\ phase = "exited" => Exits(given[NextOption])
      BY <1>1, <2>2 DEF IInv, Parsing
    <3>2. NextOption \in DOMAIN given
      BY <2>1, <2>2 DEF NextOption
    <3> QED
      BY <3>1, <3>2 DEF OutcomeOfOptions, Refused
  <2>3. CASE Len(args) = 0
    <3>1. ~Refused
      BY <1>1, <2>3, AllRead DEF IInv, Parsing, Refused
    <3>2. /\ Len(polls) = Count("p") /\ Len(polls) \in Nat
          /\ \A p \in 1 .. Len(polls) :
                /\ Nanoseconds(polls[p].interval) = AskedInterval(p) % Word
                /\ polls[p].control_cpu = Given("p", p).control_cpus
      BY <1>1, <2>3, PollsAsked
    <3>3. main_cpu = AskedMain
      BY <1>1, <2>3, MainAsked
    <3>4. Places("p") = {} <=> Len(polls) = 0
      <4>1. ReadOf("p") = Places("p") /\ IsFiniteSet(ReadOf("p"))
        BY <1>1, <2>3, AllRead, ReadFinite DEF IInv
      <4> QED
        BY <3>2, <4>1, FS_EmptySet DEF Count
    <3>5. ASSUME Loaded, AllReady
          PROVE  /\ Starts /\ (CanPin(main_cpu) => Runs)
                 /\ CanPin(main_cpu) /\ MayEnd => RunsToEnd
                 /\ FewSamples <=> \E p \in 1 .. Len(polls) : polls[p].total_ops <= 2
                 /\ \A p \in 1 .. Len(polls) : polls[p].total_ops = Total(p)
      <4>1. /\ ~ZeroInterval
            /\ \A p \in 1 .. Len(polls) : polls[p].total_ops = Total(p)
        BY <1>1, <2>3, <3>5, ReadyAsked
      <4>2. Starts
        BY <3>1, <3>5, <4>1 DEF Starts, Loads, Loaded
      <4>3. CanPin(main_cpu) => Runs
        BY <3>3, <4>2 DEF Runs
      <4>4. MayEnd => AskedPinned /\ msr_safe # "no_batch" /\ ~Unending
        BY <1>1, <2>3, ThreadsAsked, LoopAsked DEF MayEnd
      <4> QED
        BY <3>2, <4>1, <4>2, <4>3, <4>4 DEF RunsToEnd, FewSamples
    <3>6. CASE phase = "exited"
      <4>1. ASSUME msr_safe = "ioctl_fails", CanPin(main_cpu), AllReady, CanFail
            PROVE  /\ Runs
                   /\ \E p \in 1 .. Count("p") :
                        CanPin(Given("p", p).control_cpus) /\ Total(p) > 0
        <5>1. Loaded
          BY <4>1 DEF Loaded, Drivers
        <5> QED
          BY <3>2, <3>5, <4>1, <5>1 DEF CanFail
      <4> QED
        BY <1>1, <2>3, <3>6, <4>1 DEF IInv, Ending, OutcomeOfOptions
    <3>7. CASE phase = "killed"
      <4>1. Loaded /\ \E p \in 1 .. Len(polls) : Nanoseconds(polls[p].interval) = 0
        BY <1>1, <3>7 DEF IInv, Ending
      <4> QED
        BY <3>1, <3>2, <3>7, <4>1 DEF OutcomeOfOptions, Loads, Loaded, ZeroInterval
    <3>8. CASE phase = "aborted"
      <4>1. CASE msr_safe = "no_allowlist"
        BY <3>1, <3>8, <4>1 DEF OutcomeOfOptions
      <4>2. CASE msr_safe # "no_allowlist"
        <5>1. /\ Loaded /\ AllReady
              /\ \/ ~CanPin(main_cpu)
                 \/ CanPin(main_cpu) /\ (~ThreadsPinned \/ msr_safe = "no_batch")
                 \/ /\ CanPin(main_cpu) /\ MayEnd
                    /\ \E p \in 1 .. Len(polls) : polls[p].total_ops <= 2
          BY <1>1, <3>8, <4>2 DEF IInv, Ending
        <5>2. ThreadsPinned <=> AskedPinned
          BY <1>1, <2>3, ThreadsAsked
        <5> QED
          BY <3>3, <3>5, <3>8, <5>1, <5>2 DEF OutcomeOfOptions
      <4> QED
        BY <4>1, <4>2
    <3>9. CASE phase \in {"segv", "done"}
      <4>1. /\ Loaded /\ CanPin(main_cpu) /\ AllReady /\ MayEnd
            /\ \A p \in 1 .. Len(polls) : polls[p].total_ops > 2
            /\ phase = "segv" <=> Len(polls) = 0
        BY <1>1, <3>9 DEF IInv, Ending
      <4>2. ~FewSamples
        <5>1. \A p \in 1 .. Len(polls) : polls[p].total_ops \in Nat
          BY <1>1, LenTyped DEF IInv
        <5> QED
          BY <3>5, <4>1, <5>1
      <4> QED
        BY <3>4, <3>5, <3>9, <4>1, <4>2 DEF OutcomeOfOptions
    <3>10. CASE phase \notin Endings
      BY <3>10 DEF OutcomeOfOptions, Endings
    <3> QED
      BY <3>6, <3>7, <3>8, <3>9, <3>10 DEF Endings
  <2> QED
    BY <2>2, <2>3
<1> QED
  BY <1>1, Invariance, PTL

\* JobOutTells: job.out shows the durations, intervals, flags and longitudinals asked for.
THEOREM JobOutIsTrue == Spec => []JobOutTells
<1>1. ASSUME IInv
      PROVE  JobOutTells
  <2> SUFFICES ASSUME jobout # <<>>
               PROVE  JobOutTells
    BY DEF JobOutTells
  <2>1. /\ Len(args) = 0
        /\ jobout.duration = timespec2str(duration)
        /\ jobout.ab_duration = timespec2str(ab_duration)
        /\ jobout.ab_randomized = ab_randomized
        /\ jobout.longitudinals = longitudinals
        /\ jobout.polls = [p \in 1 .. Len(polls) |->
                            [flags |-> polls[p].flags,
                             interval |-> timespec2str(polls[p].interval)]]
    BY <1>1 DEF IInv, Printed
  <2>2. /\ Tells(jobout.duration, AskedDuration)
        /\ Tells(jobout.ab_duration, AskedABDuration)
    BY <1>1, <2>1, TimesAsked, PaperTells
  <2>3. jobout.ab_randomized <=> Places("R") # {}
    <3>1. ReadOf("R") = Places("R")
      BY <1>1, <2>1, AllRead DEF IInv
    <3> QED
      BY <1>1, <2>1, <3>1, Zenon DEF IInv, Values
  <2>4. jobout.longitudinals = [l \in 1 .. Count("l") |-> Given("l", l).type]
    <3>1. PICK Types : longitudinals \in Seq(Types)
      BY <1>1 DEF IInv, LongitudinalsRead
    <3>2. Len(longitudinals) = Count("l")
      BY <1>1, <2>1, AllRead DEF IInv, LongitudinalsRead, Count
    <3>3. ASSUME NEW l \in 1 .. Count("l")
          PROVE  longitudinals[l] = Given("l", l).type
      <4>1. PICK k \in ReadOf("l") : Number(k) = l /\ Given("l", l) = given[k]
        BY <1>1, <2>1, GivenIsNumbered DEF Kinds
      <4> QED
        BY <1>1, <4>1 DEF IInv, LongitudinalsRead
    <3>4. longitudinals = [l \in 1 .. Count("l") |-> longitudinals[l]]
      BY <3>1, <3>2
    <3> QED
      BY <2>1, <3>3, <3>4
  <2>5. Len(jobout.polls) = Count("p")
    BY <1>1, <2>1, PollsAsked
  <2>6. ASSUME NEW p \in DOMAIN jobout.polls
        PROVE  /\ Tells(jobout.polls[p].interval, AskedInterval(p))
               /\ jobout.polls[p].flags = Given("p", p).flags \cap Flags
    <3>1. /\ p \in 1 .. Len(polls)
          /\ jobout.polls[p].interval = timespec2str(polls[p].interval)
          /\ jobout.polls[p].flags = polls[p].flags
      BY <2>1
    <3> QED
      BY <1>1, <2>1, <3>1, PollsAsked, PaperTells
  <2> QED
    BY <2>2, <2>3, <2>4, <2>5, <2>6 DEF JobOutTells
<1> QED
  BY <1>1, Invariance, PTL

\* HammingWeights: each thread has the value that its option's hwN stands for.
THEOREM WeightsFilledIn == Spec => []HammingWeights
<1>1. ASSUME IInv
      PROVE  HammingWeights
  <2> SUFFICES ASSUME phase \notin {"options", "exited"}
               PROVE  HammingWeights
    BY DEF HammingWeights
  <2>1. Len(args) = 0
    BY <1>1 DEF IInv, Parsing
  <2>2. ReadOf("b") = Places("b") /\ Read = DOMAIN given
    BY <1>1, <2>1, AllRead DEF IInv
  <2>3. Len(benchmarks) = Cardinality(ThreadsOf(Places("b")))
    BY <1>1, <2>2 DEF IInv, BenchmarksRead
  <2>4. ASSUME NEW k \in Places("b"), NEW c \in 1 .. Cardinality(given[k].cpus)
        PROVE  benchmarks[Before(k) + c] =
                    {j \in 0 .. OutputBits - 1 : Rank(j) < given[k].hw}
    <3>1. given[k].hw \in Nat
      <4>1. k \in 1 .. Len(given) /\ given[k].opt = "b" /\ ~Exits(given[k])
        BY <1>1, <2>2, LineTyped DEF IInv, Parsing, Places
      <4> QED
        BY <1>1, <4>1, LineTyped DEF IInv, Parsing, IsOption, Exits
    <3>2. benchmarks[Before(k) + c] = create_hw_param(given[k].hw)
      BY <1>1, <2>2 DEF IInv, BenchmarksRead
    <3> QED
      BY <3>1, <3>2, WeightByRank
  <2> QED
    BY <2>3, <2>4 DEF HammingWeights
<1> QED
  BY <1>1, Invariance, PTL
=============================================================================
