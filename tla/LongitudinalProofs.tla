------------------------- MODULE LongitudinalProofs -------------------------
(***************************************************************************)
(* Proofs about Longitudinal, for any cpus, any number of counters and any   *)
(* longitudinals.                                                          *)
(*                                                                         *)
(* First the data: the ops of each recipe, where the counting loop stops,    *)
(* and the layout of a batch, whose element k is op 1 + (k - 1) \div ncpu    *)
(* of the recipe for cpu 1 + (k - 1) % ncpu of the set.  From it follows      *)
(* Companion: a cpu that has one op of a longitudinal has all ops of all its  *)
(* recipes, in their order.  Then the steps: what an op finds in the          *)
(* registers of its cpu depends only on which ops were executed there before. *)
(***************************************************************************)
EXTENDS Longitudinal, FiniteSetTheorems, TLAPS

Ops == [name : OpNames, ctr : 0 .. CounterCount]
Recipe(type, s) == longitudinal_recipes[type][s]
FIXED == "FIXED_FUNCTION_COUNTERS"

-----------------------------------------------------------------------------
(* The recipes.                                                            *)

LEMMA FunctionIsSeq ==
    ASSUME NEW S, NEW n \in Nat, NEW f \in [1 .. n -> S]
    PROVE  f \in Seq(S) /\ Len(f) = n
OBVIOUS

\* The ops on the counters, one for each, in order.
LEMMA OpsOnCountersAre ==
    ASSUME NEW name \in OpNames
    PROVE  /\ OpsOnCounters(name) \in Seq(Ops)
           /\ Len(OpsOnCounters(name)) = CounterCount
           /\ \A c \in Counters : OpsOnCounters(name)[c] = [name |-> name, ctr |-> c]
<1>1. CounterCount \in Nat
  BY LongitudinalAssumption
<1>2. \A c \in Counters : [name |-> name, ctr |-> c] \in Ops
  BY <1>1 DEF Counters, Ops
<1> QED
  BY <1>1, <1>2 DEF OpsOnCounters, Counters

LEMMA PlainOps ==
    ASSUME NEW name \in OpNames
    PROVE  Op(name) \in Ops /\ Op(name).name = name
BY LongitudinalAssumption DEF Op, Ops

\* The ops of a recipe of the fixed-function counters, by slot.
LEMMA FixedRecipes ==
    /\ \A s \in Slots : Recipe(FIXED, s) \in Seq(Ops)
    /\ Len(Recipe(FIXED, SETUP)) = CounterCount + 2
    /\ Recipe(FIXED, SETUP)[1] = Op("stop_global")
    /\ \A c \in Counters : Recipe(FIXED, SETUP)[c + 1] = [name |-> "zero", ctr |-> c]
    /\ Recipe(FIXED, SETUP)[CounterCount + 2] = Op("enable_fixed")
    /\ Recipe(FIXED, START) = <<Op("start_global")>>
    /\ Recipe(FIXED, STOP) = <<Op("stop_global")>>
    /\ Len(Recipe(FIXED, READ)) = CounterCount
    /\ \A c \in Counters : Recipe(FIXED, READ)[c] = [name |-> "read", ctr |-> c]
    /\ Recipe(FIXED, TEARDOWN) = <<>>
<1> DEFINE zeros == OpsOnCounters("zero")
           reads == OpsOnCounters("read")
<1>0. CounterCount \in Nat
  BY LongitudinalAssumption
<1>1. /\ zeros \in Seq(Ops) /\ reads \in Seq(Ops)
      /\ Len(zeros) = CounterCount /\ Len(reads) = CounterCount
      /\ \A c \in Counters : /\ zeros[c] = [name |-> "zero", ctr |-> c]
                             /\ reads[c] = [name |-> "read", ctr |-> c]
  BY OpsOnCountersAre DEF OpNames
<1>2. /\ Op("stop_global") \in Ops /\ Op("enable_fixed") \in Ops
      /\ Op("start_global") \in Ops
  BY PlainOps DEF OpNames
<1>3. /\ Recipe(FIXED, SETUP) = <<Op("stop_global")>> \o zeros \o <<Op("enable_fixed")>>
      /\ Recipe(FIXED, START) = <<Op("start_global")>>
      /\ Recipe(FIXED, STOP) = <<Op("stop_global")>>
      /\ Recipe(FIXED, READ) = reads
      /\ Recipe(FIXED, TEARDOWN) = <<>>
  BY DEF Recipe, FIXED, longitudinal_recipes, fixed_function_counters__ops,
         SETUP, START, STOP, READ, TEARDOWN
<1> HIDE DEF zeros, reads
<1>4. <<Op("stop_global")>> \o zeros \in Seq(Ops)
  BY <1>1, <1>2
<1>5. /\ Len(<<Op("stop_global")>> \o zeros) = CounterCount + 1
      /\ (<<Op("stop_global")>> \o zeros)[1] = Op("stop_global")
      /\ \A c \in Counters : (<<Op("stop_global")>> \o zeros)[c + 1] = zeros[c]
  BY <1>0, <1>1, <1>2 DEF Counters
<1>6. /\ Recipe(FIXED, SETUP) \in Seq(Ops)
      /\ Len(Recipe(FIXED, SETUP)) = CounterCount + 2
      /\ Recipe(FIXED, SETUP)[CounterCount + 2] = Op("enable_fixed")
      /\ \A k \in 1 .. CounterCount + 1 :
            Recipe(FIXED, SETUP)[k] = (<<Op("stop_global")>> \o zeros)[k]
  BY <1>0, <1>2, <1>3, <1>4, <1>5
<1>7. \A s \in Slots : Recipe(FIXED, s) \in Seq(Ops)
  <2> SUFFICES ASSUME NEW s \in Slots PROVE Recipe(FIXED, s) \in Seq(Ops)
    OBVIOUS
  <2>1. s \in {SETUP, START, STOP, READ, TEARDOWN}
    BY DEF Slots, SETUP, START, STOP, READ, TEARDOWN
  <2>2. /\ <<>> \in Seq(Ops) /\ <<Op("start_global")>> \in Seq(Ops)
        /\ <<Op("stop_global")>> \in Seq(Ops)
    BY <1>2
  <2>3. CASE s = SETUP
    BY <1>6, <2>3
  <2>4. CASE s # SETUP
    <3>1. Recipe(FIXED, s) \in
            {<<>>, reads, <<Op("start_global")>>, <<Op("stop_global")>>}
      BY <1>3, <2>1, <2>4
    <3> QED
      BY <1>1, <2>2, <3>1
  <2> QED
    BY <2>3, <2>4
<1>8. \A c \in Counters : c + 1 \in 1 .. CounterCount + 1 /\ 1 \in 1 .. CounterCount + 1
  BY <1>0 DEF Counters
<1>9. 1 \in 1 .. CounterCount + 1
  BY <1>0
<1> QED
  BY <1>0, <1>1, <1>3, <1>5, <1>6, <1>7, <1>8, <1>9

\* The ops of a recipe of the allowed MSRs only read.
LEMMA AllowedRecipes ==
    /\ \A s \in Slots : Recipe("ALL_ALLOWED", s) \in Seq(Ops)
    /\ \A s \in {START, STOP, TEARDOWN} : Recipe("ALL_ALLOWED", s) = <<>>
    /\ \A s \in {SETUP, READ} :
        /\ Len(Recipe("ALL_ALLOWED", s)) = CounterCount + 1
        /\ \A k \in 1 .. CounterCount + 1 :
            /\ Recipe("ALL_ALLOWED", s)[k].name \in {"rd", "read"}
            /\ Recipe("ALL_ALLOWED", s)[k].name = "read" => \E c \in Counters :
                    Recipe("ALL_ALLOWED", s)[k] = [name |-> "read", ctr |-> c]
<1> DEFINE reads == OpsOnCounters("read")
<1>0. CounterCount \in Nat
  BY LongitudinalAssumption
<1>1. /\ reads \in Seq(Ops) /\ Len(reads) = CounterCount
      /\ \A c \in Counters : reads[c] = [name |-> "read", ctr |-> c]
  BY OpsOnCountersAre DEF OpNames
<1>2. Op("rd") \in Ops /\ Op("rd").name = "rd"
  BY PlainOps DEF OpNames
<1>3. /\ \A s \in {SETUP, READ} : Recipe("ALL_ALLOWED", s) = <<Op("rd")>> \o reads
      /\ \A s \in {START, STOP, TEARDOWN} : Recipe("ALL_ALLOWED", s) = <<>>
  BY DEF Recipe, longitudinal_recipes, all_allowed__ops,
         SETUP, START, STOP, READ, TEARDOWN
<1> HIDE DEF reads
<1>4. <<Op("rd")>> \o reads \in Seq(Ops)
  BY <1>1, <1>2
<1>5. Len(<<Op("rd")>> \o reads) = CounterCount + 1
  BY <1>0, <1>1, <1>2
<1>6. ASSUME NEW k \in 1 .. CounterCount + 1
      PROVE  /\ (<<Op("rd")>> \o reads)[k].name \in {"rd", "read"}
             /\ (<<Op("rd")>> \o reads)[k].name = "read" => \E c \in Counters :
                    (<<Op("rd")>> \o reads)[k] = [name |-> "read", ctr |-> c]
  <2>1. CASE k = 1
    BY <1>1, <1>2, <2>1
  <2>2. CASE k # 1
    <3>1. k - 1 \in Counters
      BY <1>0, <2>2 DEF Counters
    <3>2. (<<Op("rd")>> \o reads)[k] = reads[k - 1]
      BY <1>0, <1>1, <1>2, <2>2, <3>1 DEF Counters
    <3>3. reads[k - 1] = [name |-> "read", ctr |-> k - 1]
      BY <1>1, <3>1
    <3>4. reads[k - 1].name = "read"
      BY <3>3
    <3> QED
      BY <3>1, <3>2, <3>3, <3>4
  <2> QED
    BY <2>1, <2>2
<1>7. \A s \in Slots : s \in {SETUP, READ} \/ s \in {START, STOP, TEARDOWN}
  BY DEF Slots, SETUP, START, STOP, READ, TEARDOWN
<1>8. <<>> \in Seq(Ops)
  OBVIOUS
<1>9. \A s \in Slots : Recipe("ALL_ALLOWED", s) \in Seq(Ops)
  BY <1>3, <1>4, <1>7, <1>8
<1>10. ASSUME NEW s \in {SETUP, READ}
       PROVE  /\ Len(Recipe("ALL_ALLOWED", s)) = CounterCount + 1
              /\ \A k \in 1 .. CounterCount + 1 :
                /\ Recipe("ALL_ALLOWED", s)[k].name \in {"rd", "read"}
                /\ Recipe("ALL_ALLOWED", s)[k].name = "read" => \E c \in Counters :
                    Recipe("ALL_ALLOWED", s)[k] = [name |-> "read", ctr |-> c]
  <2>1. Recipe("ALL_ALLOWED", s) = <<Op("rd")>> \o reads
    BY <1>3
  <2> QED
    BY <1>5, <1>6, <2>1
<1> QED
  BY <1>3, <1>9, <1>10

-----------------------------------------------------------------------------
(* Counting the ops of a recipe.                                           *)

\* No recipe is longer than the longest, and a pointer of an array is NULL only
\* behind the ops.
LEMMA PointersAre ==
    ASSUME NEW type \in Types, NEW s \in Slots
    PROVE  /\ Len(Recipe(type, s)) \in 0 .. CounterCount + 2
           /\ Len(Pointers(type, s)) =
                Len(Recipe(type, s)) + IF NullTerminated(type, s) THEN 1 ELSE 0
           /\ \A n \in 1 .. Len(Recipe(type, s)) : Pointers(type, s)[n] = "op"
           /\ NullTerminated(type, s) =>
                Pointers(type, s)[Len(Recipe(type, s)) + 1] = "NULL"
<1>0. CounterCount \in Nat
  BY LongitudinalAssumption
<1>1. Recipe(type, s) \in Seq(Ops)
  BY FixedRecipes, AllowedRecipes DEF Types, FIXED
<1>2. Len(Recipe(type, s)) \in 0 .. CounterCount + 2
  <2>1. s \in {SETUP, START, STOP, READ, TEARDOWN}
    BY DEF Slots, SETUP, START, STOP, READ, TEARDOWN
  <2>2. Len(<<>>) = 0 /\ Len(<<Op("start_global")>>) = 1 /\ Len(<<Op("stop_global")>>) = 1
    OBVIOUS
  <2>3. CASE type = FIXED
    <3>1. Len(Recipe(FIXED, s)) \in {CounterCount + 2, CounterCount, 1, 0}
      BY <2>1, <2>2, FixedRecipes
    <3>2. \A n \in {CounterCount + 2, CounterCount, 1, 0} : n \in 0 .. CounterCount + 2
      BY <1>0
    <3> QED
      BY <2>3, <3>1, <3>2, Zenon
  <2>4. CASE type = "ALL_ALLOWED"
    <3>1. Len(Recipe("ALL_ALLOWED", s)) \in {CounterCount + 1, 0}
      <4>1. s \in {SETUP, READ} \/ s \in {START, STOP, TEARDOWN}
        BY <2>1
      <4> QED
        BY <2>2, <4>1, AllowedRecipes
    <3>2. \A n \in {CounterCount + 1, 0} : n \in 0 .. CounterCount + 2
      BY <1>0
    <3> QED
      BY <2>4, <3>1, <3>2, Zenon
  <2> QED
    BY <2>3, <2>4 DEF Types, FIXED
<1> DEFINE L == Len(Recipe(type, s))
           front == [k \in DOMAIN Recipe(type, s) |-> "op"]
<1>3. L \in Nat /\ DOMAIN Recipe(type, s) = 1 .. L
  BY <1>1
<1>4. /\ front \in Seq({"op", "NULL"}) /\ Len(front) = L
      /\ \A n \in 1 .. L : front[n] = "op"
  <2>1. front = [k \in 1 .. L |-> "op"]
    BY <1>3, Zenon
  <2> HIDE DEF front, L
  <2>2. front \in [1 .. L -> {"op", "NULL"}] /\ L \in Nat
    BY <1>3, <2>1
  <2>3. front \in Seq({"op", "NULL"}) /\ Len(front) = L
    BY <2>2, FunctionIsSeq
  <2> QED
    BY <2>1, <2>3
<1>5. Pointers(type, s) = front \o IF NullTerminated(type, s) THEN <<"NULL">> ELSE <<>>
  BY DEF Pointers, Recipe
<1> HIDE DEF front, L
<1>6. CASE NullTerminated(type, s)
  <2>1. Pointers(type, s) = front \o <<"NULL">>
    BY <1>5, <1>6
  <2>2. /\ Len(Pointers(type, s)) = L + 1
        /\ \A n \in 1 .. L : Pointers(type, s)[n] = front[n]
        /\ Pointers(type, s)[L + 1] = "NULL"
    BY <1>3, <1>4, <2>1
  <2> QED
    BY <1>2, <1>4, <1>6, <2>2 DEF L
<1>7. CASE ~NullTerminated(type, s)
  <2>1. Pointers(type, s) = front \o <<>>
    BY <1>5, <1>7
  <2>2. /\ Len(Pointers(type, s)) = L
        /\ \A n \in 1 .. L : Pointers(type, s)[n] = front[n]
    BY <1>3, <1>4, <2>1
  <2> QED
    BY <1>2, <1>3, <1>4, <1>7, <2>2 DEF L
<1> QED
  BY <1>6, <1>7

\* Arrays do not overlap, and an array without ops but with its NULL comes after
\* each of the two that have no NULL, in either order.
LEMMA LayoutOrder ==
    ASSUME NEW at \in Layouts
    PROVE  /\ \A t \in Types, s \in Slots : at[t][s] \in Int
           /\ \A t, u \in Types, s, v \in Slots :
                at[t][s] = at[u][v] => t = u /\ s = v
           /\ \A t \in Types, s \in Slots : ~NullTerminated(t, s) =>
                \E u \in Types, v \in Slots :
                    /\ at[u][v] = at[t][s] + 1
                    /\ NullTerminated(u, v) /\ Recipe(u, v) = <<>>
<1> USE DEF SETUP, START, STOP, READ, TEARDOWN
<1>1. PICK sign \in {1, -1} : \A t \in Types, s \in Slots : at[t][s] = sign * Position(t, s)
  <2>1. CASE at = [type \in Types |-> [s \in Slots |-> Position(type, s)]]
    <3>1. \A t \in Types, s \in Slots : at[t][s] = 1 * Position(t, s)
      BY <2>1 DEF Position, Slots, Types
    <3> QED
      BY <3>1
  <2>2. CASE at = [type \in Types |-> [s \in Slots |-> -Position(type, s)]]
    <3>1. \A t \in Types, s \in Slots : at[t][s] = (-1) * Position(t, s)
      BY <2>2 DEF Position, Slots, Types
    <3> QED
      BY <3>1
  <2> QED
    BY <2>1, <2>2 DEF Layouts
<1>2. ASSUME NEW t \in Types, NEW s \in Slots, ~NullTerminated(t, s)
      PROVE  \E u \in Types, v \in Slots :
                    /\ at[u][v] = at[t][s] + 1
                    /\ NullTerminated(u, v) /\ Recipe(u, v) = <<>>
  <2>1. t = "ALL_ALLOWED" /\ s \in {SETUP, READ}
    BY <1>2 DEF NullTerminated
  <2>2. /\ Recipe(FIXED, TEARDOWN) = <<>>
        /\ \A v \in {START, STOP, TEARDOWN} : Recipe("ALL_ALLOWED", v) = <<>>
    BY FixedRecipes, AllowedRecipes
  <2>3. /\ NullTerminated(FIXED, TEARDOWN)
        /\ \A v \in {START, STOP, TEARDOWN} : NullTerminated("ALL_ALLOWED", v)
    BY DEF NullTerminated, FIXED
  <2>4. /\ Position("ALL_ALLOWED", START) = Position("ALL_ALLOWED", SETUP) + 1
        /\ Position("ALL_ALLOWED", TEARDOWN) = Position("ALL_ALLOWED", READ) + 1
        /\ -Position(FIXED, TEARDOWN) = -Position("ALL_ALLOWED", SETUP) + 1
        /\ -Position("ALL_ALLOWED", STOP) = -Position("ALL_ALLOWED", READ) + 1
    BY DEF Position, FIXED
  <2>5. /\ {FIXED, "ALL_ALLOWED"} \subseteq Types
        /\ {SETUP, START, STOP, READ, TEARDOWN} \subseteq Slots
    BY DEF Types, FIXED, Slots
  <2>6. \A u \in Types, v \in Slots : Position(u, v) \in Nat
    BY DEF Position, Slots, Types
  <2>7. CASE sign = 1
    <3>1. \A u \in Types, v \in Slots : at[u][v] = Position(u, v)
      BY <1>1, <2>6, <2>7
    <3>2. CASE s = SETUP
      <4>1. at["ALL_ALLOWED"][START] = at[t][s] + 1
        BY <2>1, <2>4, <2>5, <3>1, <3>2
      <4> QED
        BY <2>2, <2>3, <2>5, <4>1
    <3>3. CASE s = READ
      <4>1. at["ALL_ALLOWED"][TEARDOWN] = at[t][s] + 1
        BY <2>1, <2>4, <2>5, <3>1, <3>3
      <4> QED
        BY <2>2, <2>3, <2>5, <4>1
    <3> QED
      BY <2>1, <3>2, <3>3
  <2>8. CASE sign = -1
    <3>1. \A u \in Types, v \in Slots : at[u][v] = -Position(u, v)
      BY <1>1, <2>6, <2>8
    <3>2. CASE s = SETUP
      <4>1. at[FIXED][TEARDOWN] = at[t][s] + 1
        BY <2>1, <2>4, <2>5, <3>1, <3>2
      <4> QED
        BY <2>2, <2>3, <2>5, <4>1
    <3>3. CASE s = READ
      <4>1. at["ALL_ALLOWED"][STOP] = at[t][s] + 1
        BY <2>1, <2>4, <2>5, <3>1, <3>3
      <4> QED
        BY <2>2, <2>3, <2>5, <4>1
    <3> QED
      BY <2>1, <3>2, <3>3
  <2> QED
    BY <2>7, <2>8
<1>3. \A t \in Types, s \in Slots : at[t][s] \in Int
  BY <1>1 DEF Position, Slots, Types
<1>4. \A t, u \in Types, s, v \in Slots : at[t][s] = at[u][v] => t = u /\ s = v
  BY <1>1 DEF Position, Slots, Types
<1> QED
  BY <1>2, <1>3, <1>4

\* The first NULL from the start of an array on, and what precedes it.
LEMMA FirstNull ==
    ASSUME NEW at \in Layouts, NEW type \in Types, NEW s \in Slots
    PROVE  \E e \in Behind(at, type, s) :
            /\ Pointers(e[1], e[2])[e[3]] = "NULL"
            /\ \A n \in 1 .. Len(Recipe(type, s)) : e # <<type, s, n>>
            /\ \A n \in 1 .. Len(Recipe(type, s)) :
                /\ <<type, s, n>> \in Behind(at, type, s)
                /\ Precedes(at, <<type, s, n>>, e)
            /\ \A p \in Behind(at, type, s) :
                \/ \E n \in 1 .. Len(Recipe(type, s)) : p = <<type, s, n>>
                \/ p = e
                \/ Precedes(at, e, p)
            /\ \A p \in Behind(at, type, s) : Precedes(at, p, e) =>
                \E n \in 1 .. Len(Recipe(type, s)) : p = <<type, s, n>>
<1> DEFINE L == Len(Recipe(type, s))
<1>0. CounterCount \in Nat
  BY LongitudinalAssumption
<1>1. /\ L \in 0 .. CounterCount + 2
      /\ Len(Pointers(type, s)) = L + IF NullTerminated(type, s) THEN 1 ELSE 0
      /\ NullTerminated(type, s) => Pointers(type, s)[L + 1] = "NULL"
  BY PointersAre
<1>2. /\ \A t \in Types, v \in Slots : at[t][v] \in Int
      /\ \A t, u \in Types, v, w \in Slots :
                at[t][v] = at[u][w] => t = u /\ v = w
  BY LayoutOrder
<1>3. \A n \in 1 .. Len(Pointers(type, s)) : <<type, s, n>> \in Behind(at, type, s)
  BY <1>0, <1>1, <1>2 DEF Behind
<1>4. \A n \in 1 .. L : <<type, s, n>> \in Behind(at, type, s)
  BY <1>1, <1>3
<1>5. CASE NullTerminated(type, s)
  <2> DEFINE e == <<type, s, L + 1>>
  <2>1. /\ e \in Behind(at, type, s) /\ Pointers(e[1], e[2])[e[3]] = "NULL"
        /\ e[1] = type /\ e[2] = s /\ e[3] = L + 1
    BY <1>0, <1>1, <1>3, <1>5
  <2>2. \A n \in 1 .. L : e # <<type, s, n>> /\ Precedes(at, <<type, s, n>>, e)
    BY <1>1 DEF Precedes
  <2>3. ASSUME NEW p \in Behind(at, type, s)
        PROVE  /\ \/ \E n \in 1 .. L : p = <<type, s, n>>
                  \/ p = e
                  \/ Precedes(at, e, p)
               /\ Precedes(at, p, e) => \E n \in 1 .. L : p = <<type, s, n>>
    <3>1. /\ p = <<p[1], p[2], p[3]>> /\ p[1] \in Types /\ p[2] \in Slots
          /\ p[3] \in 1 .. CounterCount + 3 /\ at[p[1]][p[2]] >= at[type][s]
          /\ p[3] <= Len(Pointers(p[1], p[2]))
      BY DEF Behind
    <3>2. CASE p[1] = type /\ p[2] = s
      <4>1. p[3] \in 1 .. L + 1
        BY <1>0, <1>1, <1>5, <3>1, <3>2
      <4>2. ~ (at[p[1]][p[2]] < at[type][s])
        BY <1>2, <3>1
      <4> HIDE DEF L
      <4> QED
        BY <1>1, <3>1, <3>2, <4>1, <4>2 DEF Precedes
    <3>3. CASE ~ (p[1] = type /\ p[2] = s)
      <4>1. at[p[1]][p[2]] > at[type][s]
        BY <1>2, <3>1, <3>3
      <4> HIDE DEF L
      <4> QED
        BY <1>2, <3>1, <3>3, <4>1 DEF Precedes
    <3> QED
      BY <3>2, <3>3
  <2> HIDE DEF e
  <2> QED
    BY <1>4, <2>1, <2>2, <2>3
<1>6. CASE ~NullTerminated(type, s)
  <2>1. PICK u \in Types, v \in Slots :
            /\ at[u][v] = at[type][s] + 1
            /\ NullTerminated(u, v) /\ Recipe(u, v) = <<>>
    BY <1>6, LayoutOrder
  <2>2. /\ Len(Pointers(u, v)) = 1 /\ Pointers(u, v)[1] = "NULL"
    <3>1. Len(Recipe(u, v)) = 0
      BY <2>1
    <3> QED
      <4>1. /\ Len(Pointers(u, v)) = Len(Recipe(u, v)) + 1
            /\ Pointers(u, v)[Len(Recipe(u, v)) + 1] = "NULL"
        BY <2>1, PointersAre
      <4> QED
        BY <3>1, <4>1
  <2> DEFINE e == <<u, v, 1>>
  <2>3. /\ e \in Behind(at, type, s) /\ Pointers(e[1], e[2])[e[3]] = "NULL"
        /\ e[1] = u /\ e[2] = v /\ e[3] = 1
    <3>1. at[u][v] >= at[type][s] /\ 1 \in 1 .. CounterCount + 3
      BY <1>0, <1>2, <2>1
    <3>2. e \in Behind(at, type, s)
      <4>1. /\ e \in Types \X Slots \X (1 .. CounterCount + 3)
            /\ e[1] = u /\ e[2] = v /\ e[3] = 1
        BY <3>1
      <4> HIDE DEF e
      <4>2. 1 <= Len(Pointers(u, v))
        BY <2>2
      <4>3. at[e[1]][e[2]] >= at[type][s] /\ e[3] <= Len(Pointers(e[1], e[2]))
        BY <3>1, <4>1, <4>2, Zenon
      <4> QED
        BY <4>1, <4>3 DEF Behind
    <3> QED
      BY <2>2, <3>2
  <2>4. \A n \in 1 .. L : e # <<type, s, n>> /\ Precedes(at, <<type, s, n>>, e)
    BY <1>1, <1>2, <2>1 DEF Precedes
  <2>5. ASSUME NEW p \in Behind(at, type, s)
        PROVE  /\ \/ \E n \in 1 .. L : p = <<type, s, n>>
                  \/ p = e
                  \/ Precedes(at, e, p)
               /\ Precedes(at, p, e) => \E n \in 1 .. L : p = <<type, s, n>>
    <3>1. /\ p = <<p[1], p[2], p[3]>> /\ p[1] \in Types /\ p[2] \in Slots
          /\ p[3] \in 1 .. CounterCount + 3 /\ at[p[1]][p[2]] >= at[type][s]
          /\ p[3] <= Len(Pointers(p[1], p[2]))
      BY DEF Behind
    <3>2. CASE p[1] = type /\ p[2] = s
      <4>1. p[3] \in 1 .. L
        BY <1>0, <1>1, <1>6, <3>1, <3>2
      <4> HIDE DEF L
      <4> QED
        BY <1>1, <3>1, <3>2, <4>1
    <3>3. CASE p[1] = u /\ p[2] = v
      <4>1. p[3] = 1
        <5>1. p[3] <= 1 /\ p[3] \in 1 .. CounterCount + 3
          BY <2>2, <3>1, <3>3
        <5> QED
          BY <1>0, <5>1
      <4>2. ~ Precedes(at, p, e)
        BY <1>2, <3>3, <4>1 DEF Precedes
      <4> QED
        BY <3>1, <3>3, <4>1, <4>2
    <3>4. CASE ~ (p[1] = type /\ p[2] = s) /\ ~ (p[1] = u /\ p[2] = v)
      <4>1. at[p[1]][p[2]] > at[u][v]
        BY <1>2, <2>1, <3>1, <3>4
      <4> QED
        BY <1>2, <3>1, <3>4, <4>1 DEF Precedes
    <3> QED
      BY <3>2, <3>3, <3>4
  <2> HIDE DEF e
  <2> QED
    BY <1>4, <2>3, <2>4, <2>5
<1> QED
  BY <1>5, <1>6

\* The counting loop reads the ops of a recipe and one pointer more.
LEMMA OnePastTheOps ==
    ASSUME NEW at \in Layouts, NEW type \in Types, NEW s \in Slots
    PROVE  ToFirstNull(at, type, s) = Len(Recipe(type, s)) + 1
<1> DEFINE L == Len(Recipe(type, s))
           B == Behind(at, type, s)
           S == {p \in B : \A q \in B :
                    Precedes(at, q, p) => Pointers(q[1], q[2])[q[3]] # "NULL"}
<1>1. L \in Nat /\ \A n \in 1 .. L : Pointers(type, s)[n] = "op"
  BY PointersAre, LongitudinalAssumption
<1>2. PICK e \in B :
            /\ Pointers(e[1], e[2])[e[3]] = "NULL"
            /\ \A n \in 1 .. L : e # <<type, s, n>>
            /\ \A n \in 1 .. L : <<type, s, n>> \in B /\ Precedes(at, <<type, s, n>>, e)
            /\ \A p \in B :
                \/ \E n \in 1 .. L : p = <<type, s, n>>
                \/ p = e
                \/ Precedes(at, e, p)
            /\ \A p \in B : Precedes(at, p, e) => \E n \in 1 .. L : p = <<type, s, n>>
  BY FirstNull, Zenon
<1> DEFINE f == [n \in 1 .. L + 1 |-> IF n <= L THEN <<type, s, n>> ELSE e]
<1>3. ASSUME NEW p \in S
      PROVE  \E n \in 1 .. L + 1 : f[n] = p
  <2>1. CASE \E n \in 1 .. L : p = <<type, s, n>>
    BY <1>1, <2>1
  <2>2. CASE p = e
    <3>1. L + 1 \in 1 .. L + 1 /\ ~ (L + 1 <= L)
      BY <1>1
    <3> QED
      BY <2>2, <3>1
  <2> QED
    BY <1>2, <2>1, <2>2
<1>4. \A n \in 1 .. L : <<type, s, n>> \in S
  <2> SUFFICES ASSUME NEW n \in 1 .. L, NEW q \in B, Precedes(at, q, <<type, s, n>>)
               PROVE  Pointers(q[1], q[2])[q[3]] # "NULL"
    BY <1>2
  <2>1. /\ q[1] \in Types /\ q[2] \in Slots /\ q[3] \in Nat
        /\ at[q[1]][q[2]] >= at[type][s] /\ 1 <= q[3]
    BY LongitudinalAssumption DEF Behind
  <2>2. q[1] = type /\ q[2] = s /\ q[3] < n
    <3>1. at[q[1]][q[2]] \in Int /\ at[type][s] \in Int
      BY <2>1, LayoutOrder
    <3> QED
      BY <2>1, <3>1 DEF Precedes
  <2>3. q[3] \in 1 .. L
    BY <1>1, <2>1, <2>2
  <2> QED
    BY <1>1, <2>2, <2>3
<1>5. e \in S
  <2> SUFFICES ASSUME NEW q \in B, Precedes(at, q, e)
               PROVE  Pointers(q[1], q[2])[q[3]] # "NULL"
    BY <1>2
  <2>1. PICK n \in 1 .. L : q = <<type, s, n>>
    BY <1>2
  <2>2. Pointers(q[1], q[2])[q[3]] = "op"
    BY <1>1, <2>1
  <2> QED
    BY <2>2
<1>6. \A n \in 1 .. L + 1 : f[n] \in S
  BY <1>1, <1>4, <1>5
<1>7. \A m, n \in 1 .. L + 1 : f[m] = f[n] => m = n
  <2> SUFFICES ASSUME NEW m \in 1 .. L + 1, NEW n \in 1 .. L + 1, f[m] = f[n]
               PROVE  m = n
    OBVIOUS
  <2>1. (m <= L => m \in 1 .. L) /\ (n <= L => n \in 1 .. L)
    BY <1>1
  <2>2. (m <= L) <=> (n <= L)
    BY <1>2, <2>1
  <2> QED
    BY <1>1, <2>2
<1> HIDE DEF S, L
<1>8. f \in Bijection(1 .. L + 1, S)
  <2>1. f \in [1 .. L + 1 -> S]
    BY <1>6
  <2> QED
    BY <1>3, <1>7, <2>1 DEF Bijection, Injection, Surjection, IsInjective
<1>9. L + 1 \in Nat /\ ExistsBijection(1 .. L + 1, S)
  BY <1>1, <1>8 DEF ExistsBijection
<1>10. Cardinality(S) = L + 1
  BY <1>9, FS_CountingElements
<1> QED
  BY <1>10 DEF S, L, ToFirstNull

-----------------------------------------------------------------------------
(* The layout of a batch.                                                  *)

LEMMA DivMod ==
    ASSUME NEW n \in Nat \ {0}, NEW k \in Nat
    PROVE  /\ k % n \in 0 .. n - 1 /\ k \div n \in Nat
           /\ k = n * (k \div n) + (k % n)
OBVIOUS

LEMMA ModUnique ==
    ASSUME NEW n \in Nat \ {0}, NEW q \in Nat, NEW r \in 0 .. n - 1
    PROVE  (n * q + r) % n = r /\ (n * q + r) \div n = q
OBVIOUS

\* The cpus of a set can be put in ascending order, and Ascending does it.
LEMMA AscendingCpus ==
    ASSUME NEW cpus \in SUBSET Cpus
    PROVE  /\ Cardinality(cpus) \in Nat
           /\ Ascending(cpus) \in Bijection(1 .. Cardinality(cpus), cpus)
<1> DEFINE n == Cardinality(cpus)
           UpTo(c) == {d \in cpus : d <= c}
           rank == [c \in cpus |-> Cardinality(UpTo(c))]
<1>1. IsFiniteSet(cpus) /\ cpus \subseteq Nat
  <2>1. IsFiniteSet(Cpus) /\ Cpus \subseteq Nat
    BY LongitudinalAssumption
  <2> QED
    BY <2>1, FS_Subset
<1>2. n \in Nat
  BY <1>1, FS_CardinalityType
<1>3. \A c \in cpus : IsFiniteSet(UpTo(c)) /\ Cardinality(UpTo(c)) \in 1 .. n
  <2> SUFFICES ASSUME NEW c \in cpus
               PROVE  IsFiniteSet(UpTo(c)) /\ Cardinality(UpTo(c)) \in 1 .. n
    OBVIOUS
  <2>1. UpTo(c) \in SUBSET cpus /\ c \in UpTo(c)
    BY <1>1
  <2> HIDE DEF UpTo
  <2>2. IsFiniteSet(UpTo(c)) /\ Cardinality(UpTo(c)) <= n
    BY <1>1, <2>1, FS_Subset
  <2>3. Cardinality(UpTo(c)) \in Nat /\ Cardinality(UpTo(c)) # 0
    BY <2>1, <2>2, FS_EmptySet, FS_CardinalityType
  <2> QED
    BY <1>2, <2>2, <2>3
<1>4. \A c, d \in cpus : c < d => rank[c] < rank[d]
  <2> SUFFICES ASSUME NEW c \in cpus, NEW d \in cpus, c < d PROVE rank[c] < rank[d]
    OBVIOUS
  <2>1. UpTo(c) \in SUBSET UpTo(d) /\ UpTo(c) # UpTo(d)
    <3>1. c \in Nat /\ d \in Nat
      BY <1>1
    <3>2. d \in UpTo(d) /\ d \notin UpTo(c)
      BY <3>1
    <3>3. ASSUME NEW e \in UpTo(c) PROVE e \in UpTo(d)
      <4>1. e \in cpus /\ e \in Nat /\ e <= c
        BY <1>1
      <4> QED
        BY <3>1, <4>1
    <3> HIDE DEF UpTo
    <3> QED
      BY <3>2, <3>3
  <2>2. /\ IsFiniteSet(UpTo(d))
        /\ Cardinality(UpTo(c)) \in Nat /\ Cardinality(UpTo(d)) \in Nat
    BY <1>2, <1>3
  <2> HIDE DEF UpTo
  <2>3. /\ Cardinality(UpTo(c)) <= Cardinality(UpTo(d))
        /\ Cardinality(UpTo(d)) # Cardinality(UpTo(c))
    BY <2>1, <2>2, FS_Subset
  <2> QED
    BY <2>2, <2>3
<1>5. rank \in [cpus -> 1 .. n]
  BY <1>3
<1> HIDE DEF rank, n, UpTo
<1>6. \A c, d \in cpus : rank[c] = rank[d] => c = d
  <2> SUFFICES ASSUME NEW c \in cpus, NEW d \in cpus, c # d PROVE rank[c] # rank[d]
    OBVIOUS
  <2>1. c < d \/ d < c
    BY <1>1
  <2>2. rank[c] \in Nat /\ rank[d] \in Nat
    BY <1>2, <1>5
  <2> QED
    BY <1>4, <2>1, <2>2
<1>7. rank \in Bijection(cpus, 1 .. n)
  <2>1. rank \in Injection(cpus, 1 .. n)
    BY <1>5, <1>6 DEF Injection, IsInjective
  <2>2. IsFiniteSet(1 .. n) /\ Cardinality(1 .. n) = n
    BY <1>2, FS_Interval
  <2>3. rank \in Surjection(cpus, 1 .. n)
    BY <2>1, <2>2, FS_Injection DEF n
  <2> QED
    BY <2>1, <2>3 DEF Bijection
<1>8. \A j \in 1 .. n : \E c \in cpus : rank[c] = j
  BY <1>7 DEF Bijection, Surjection
<1> DEFINE order == [j \in 1 .. n |-> CHOOSE c \in cpus : rank[c] = j]
<1>9. \A j \in 1 .. n : order[j] \in cpus /\ rank[order[j]] = j
  BY <1>8
<1>10. order \in [1 .. n -> cpus] /\ \A j, k \in DOMAIN order : j < k => order[j] < order[k]
  <2>1. order \in [1 .. n -> cpus] /\ DOMAIN order = 1 .. n
    BY <1>9
  <2> HIDE DEF order
  <2>2. ASSUME NEW j \in 1 .. n, NEW k \in 1 .. n, j < k PROVE order[j] < order[k]
    <3>1. order[j] \in Nat /\ order[k] \in Nat
      BY <1>1, <1>9
    <3>2. order[j] # order[k] /\ ~ (order[k] < order[j])
      BY <1>2, <1>4, <1>9, <2>2
    <3> QED
      BY <3>1, <3>2
  <2> QED
    BY <2>1, <2>2
<1> DEFINE asc == Ascending(cpus)
<1>11. asc \in [1 .. n -> cpus] /\ \A j, k \in DOMAIN asc : j < k => asc[j] < asc[k]
  <2> HIDE DEF order
  <2>1. \E o \in [1 .. n -> cpus] : \A j, k \in DOMAIN o : j < k => o[j] < o[k]
    BY <1>10
  <2> QED
    BY <2>1 DEF Ascending, n
<1> HIDE DEF asc
<1>12. asc \in Injection(1 .. n, cpus)
  <2>1. \A j, k \in 1 .. n : asc[j] = asc[k] => j = k
    <3> SUFFICES ASSUME NEW j \in 1 .. n, NEW k \in 1 .. n, j # k PROVE asc[j] # asc[k]
      OBVIOUS
    <3>1. j < k \/ k < j
      BY <1>2
    <3>2. asc[j] \in Nat /\ asc[k] \in Nat /\ DOMAIN asc = 1 .. n
      BY <1>1, <1>11
    <3> QED
      BY <1>11, <3>1, <3>2
  <2> QED
    BY <1>11, <2>1 DEF Injection, IsInjective
<1>13. asc \in Surjection(1 .. n, cpus)
  <2>1. Cardinality(1 .. n) = Cardinality(cpus)
    BY <1>2, FS_Interval DEF n
  <2> QED
    BY <1>1, <1>12, <2>1, FS_Injection
<1> QED
  BY <1>2, <1>12, <1>13 DEF asc, n, Bijection

\* Element k of a batch: which op of the recipe, and for which of the cpus.
OpAt(k, ncpu) == 1 + ((k - 1) \div ncpu)
CpuAt(k, ncpu) == 1 + ((k - 1) % ncpu)

LEMMA Elements ==
    ASSUME NEW L \in Nat, NEW ncpu \in Nat \ {0}, NEW k \in 1 .. L * ncpu
    PROVE  /\ OpAt(k, ncpu) \in 1 .. L /\ CpuAt(k, ncpu) \in 1 .. ncpu
           /\ k = ncpu * (OpAt(k, ncpu) - 1) + CpuAt(k, ncpu)
<1> DEFINE q == (k - 1) \div ncpu
           r == (k - 1) % ncpu
<1>1. k \in Nat /\ k - 1 \in Nat /\ k <= L * ncpu /\ L * ncpu \in Nat
  OBVIOUS
<1>2. r \in 0 .. ncpu - 1 /\ q \in Nat /\ k - 1 = ncpu * q + r
  BY <1>1, DivMod
<1> HIDE DEF q, r
<1>3. q < L
  <2> SUFFICES ASSUME q >= L PROVE FALSE
    BY <1>2
  <2>1. ncpu * q >= ncpu * L
    BY <1>2
  <2> QED
    BY <1>1, <1>2, <2>1
<1> QED
  BY <1>1, <1>2, <1>3 DEF OpAt, CpuAt, q, r

LEMMA ElementOf ==
    ASSUME NEW L \in Nat, NEW ncpu \in Nat \ {0}, NEW j \in 1 .. L, NEW m \in 1 .. ncpu
    PROVE  /\ ncpu * (j - 1) + m \in 1 .. L * ncpu
           /\ OpAt(ncpu * (j - 1) + m, ncpu) = j /\ CpuAt(ncpu * (j - 1) + m, ncpu) = m
<1> DEFINE k == ncpu * (j - 1) + m
<1>1. j - 1 \in Nat /\ m - 1 \in 0 .. ncpu - 1 /\ ncpu * (j - 1) \in Nat
  OBVIOUS
<1>2. k - 1 = ncpu * (j - 1) + (m - 1)
  BY <1>1
<1>3. (k - 1) % ncpu = m - 1 /\ (k - 1) \div ncpu = j - 1
  BY <1>1, <1>2, ModUnique
<1>4. ncpu * (j - 1) + ncpu <= L * ncpu
  <2>1. ncpu * (j - 1) + ncpu = ncpu * j /\ ncpu * j <= ncpu * L
    OBVIOUS
  <2> QED
    BY <2>1
<1>5. k \in 1 .. L * ncpu
  BY <1>1, <1>4
<1> HIDE DEF k
<1>6. OpAt(k, ncpu) = j /\ CpuAt(k, ncpu) = m
  BY <1>1, <1>3 DEF OpAt, CpuAt
<1> QED
  BY <1>5, <1>6 DEF k

\* A batch, when the ops have been counted right.
LEMMA BatchIs ==
    ASSUME NEW l \in Longitudinals, NEW s \in Slots,
           ops_per_function_per_slot[l.longitudinal_type][s]
                = Len(Recipe(l.longitudinal_type, s))
    PROVE  BatchOf(l, s) =
            [k \in 1 .. Len(Recipe(l.longitudinal_type, s)) * Cardinality(l.sample_cpus) |->
                [op |-> Recipe(l.longitudinal_type, s)[OpAt(k, Cardinality(l.sample_cpus))],
                 cpu |-> Ascending(l.sample_cpus)[CpuAt(k, Cardinality(l.sample_cpus))],
                 err |-> "unused", msrdata |-> 0]]
BY DEF BatchOf, LayOut, OpAt, CpuAt, Recipe

-----------------------------------------------------------------------------
(* The inductive invariant.                                                *)

Type(i) == longitudinals[i].longitudinal_type
Ncpu(i) == Cardinality(longitudinals[i].sample_cpus)

\* The ops have been counted before the batches are made, and these before the
\* first of them runs.
Prepared ==
    /\ looked_at # Uncounted => \A type \in Types, s \in Slots :
            /\ ops_per_function_per_slot[type][s] = Len(Recipe(type, s))
            /\ looked_at[type][s] = Len(Recipe(type, s)) + 1
    /\ DOMAIN batches # {} => /\ looked_at # Uncounted
                              /\ DOMAIN batches = DOMAIN longitudinals
    /\ ~Ready => slot = SETUP /\ lng = 1 /\ next_op = 1
    /\ Ready /\ slot \in Slots /\ lng <= Len(longitudinals) =>
            next_op <= Len(batches[lng][slot]) + 1

\* What setup_longitudinal_batches has laid out stays.
Laid ==
    \A i \in DOMAIN batches, s \in Slots :
        /\ DOMAIN batches[i][s] = 1 .. Len(Recipe(Type(i), s)) * Ncpu(i)
        /\ \A k \in DOMAIN batches[i][s] :
            /\ batches[i][s][k].op = Recipe(Type(i), s)[OpAt(k, Ncpu(i))]
            /\ batches[i][s][k].cpu =
                    Ascending(longitudinals[i].sample_cpus)[CpuAt(k, Ncpu(i))]

\* The driver has been at this op.
Past(i, s, k) == \/ s < slot
                 \/ s = slot /\ i < lng
                 \/ s = slot /\ i = lng /\ k < next_op

Progress ==
    \A i \in DOMAIN batches, s \in Slots : \A k \in DOMAIN batches[i][s] :
        /\ batches[i][s][k].err # "unused" => Past(i, s, k)
        /\ Past(i, s, k) /\ faults = 0 => batches[i][s][k].err = "none"

\* So far, none of the ops that prepare, start and stop the cpu's counters failed.
Clean(cpu) ==
    \A i \in DOMAIN batches, s \in SETUP .. STOP : \A k \in DOMAIN batches[i][s] :
        batches[i][s][k].cpu = cpu /\ Past(i, s, k) => batches[i][s][k].err = "none"

Stopped(cpu) == Executed(SETUP, "stop_global", cpu)
Enabled(cpu) == Executed(SETUP, "enable_fixed", cpu)
Started(cpu) == Executed(START, "start_global", cpu)
Ended(cpu) == Executed(STOP, "stop_global", cpu)
Zeroed(cpu, c) ==
    \E i \in DOMAIN batches : \E k \in DOMAIN batches[i][SETUP] :
        /\ batches[i][SETUP][k].err = "none" /\ batches[i][SETUP][k].cpu = cpu
        /\ batches[i][SETUP][k].op = [name |-> "zero", ctr |-> c]

\* The counters of a cpu stand still from the first op of its SETUP to its START,
\* if these ops succeed, and follow the window from there on.
Registers ==
    \A cpu \in Cpus :
        /\ window[cpu] <= work[cpu]
        /\ ~Started(cpu) => window[cpu] = 0
        /\ Stopped(cpu) /\ ~Started(cpu) => ~PERF_GLOBAL_CTRL[cpu]
        /\ Enabled(cpu) => FIXED_CTR_CTRL[cpu]
        /\ Clean(cpu) /\ ~Started(cpu) => \A c \in Counters : Zeroed(cpu, c) =>
                Stopped(cpu) /\ FIXED_CTR[cpu][c] = 0
        /\ Clean(cpu) /\ Started(cpu) =>
                /\ FIXED_CTR_CTRL[cpu]
                /\ PERF_GLOBAL_CTRL[cpu] <=> ~Ended(cpu)
                /\ \A c \in Counters : FIXED_CTR[cpu][c] = window[cpu]

ReadOut ==
    \A cpu \in Cpus : Clean(cpu) =>
        \A i \in DOMAIN batches : Fixed(i) => \A k \in DOMAIN batches[i][READ] :
            batches[i][READ][k].err = "none" /\ batches[i][READ][k].cpu = cpu =>
                Started(cpu) /\ Ended(cpu) /\ batches[i][READ][k].msrdata = window[cpu]

IInv == TypeOK /\ Prepared /\ Laid /\ Progress /\ Registers /\ ReadOut

-----------------------------------------------------------------------------
(* What the batches hold.                                                  *)

\* Which ops a slot has.
LEMMA RecipeNames ==
    ASSUME NEW type \in Types, NEW s \in Slots, NEW j \in 1 .. Len(Recipe(type, s))
    PROVE  /\ Recipe(type, s)[j] \in Ops
           /\ Recipe(type, s)[j].name = "stop_global" => s \in {SETUP, STOP}
           /\ Recipe(type, s)[j].name = "start_global" => s = START
           /\ Recipe(type, s)[j].name = "enable_fixed" => s = SETUP
           /\ Recipe(type, s)[j].name = "zero" =>
                /\ s = SETUP /\ type = FIXED /\ j > 1
                /\ \E c \in Counters : Recipe(type, s)[j] = [name |-> "zero", ctr |-> c]
           /\ Recipe(type, s)[j].name = "read" =>
                \E c \in Counters : Recipe(type, s)[j] = [name |-> "read", ctr |-> c]
           /\ s = START => Recipe(type, s)[j].name = "start_global"
           /\ s = STOP => Recipe(type, s)[j].name = "stop_global"
           /\ type = FIXED /\ s = READ =>
                \E c \in Counters : Recipe(type, s)[j] = [name |-> "read", ctr |-> c]
<1> DEFINE o == Recipe(type, s)[j]
<1>0. CounterCount \in Nat /\ s \in {SETUP, START, STOP, READ, TEARDOWN}
  BY LongitudinalAssumption DEF Slots, SETUP, START, STOP, READ, TEARDOWN
<1>1. o \in Ops
  <2>1. Recipe(type, s) \in Seq(Ops)
    BY FixedRecipes, AllowedRecipes DEF Types, FIXED
  <2> QED
    BY <2>1
<1>2. CASE type = FIXED /\ s = SETUP
  <2>1. Len(Recipe(FIXED, SETUP)) = CounterCount + 2
    BY FixedRecipes
  <2>2. j = 1 \/ j = CounterCount + 2 \/ (j > 1 /\ j - 1 \in Counters)
    BY <1>0, <1>2, <2>1 DEF Counters
  <2>3. CASE j = 1
    <3>1. o.name = "stop_global"
      BY <1>2, <2>3, FixedRecipes, PlainOps DEF OpNames
    <3> QED
      BY <1>1, <1>2, <3>1 DEF SETUP, START, STOP, READ
  <2>4. CASE j = CounterCount + 2
    <3>1. o.name = "enable_fixed"
      BY <1>2, <2>4, FixedRecipes, PlainOps DEF OpNames
    <3> QED
      BY <1>1, <1>2, <3>1 DEF SETUP, START, STOP, READ
  <2>5. CASE j > 1 /\ j - 1 \in Counters
    <3>1. PICK c \in Counters : c = j - 1
      BY <2>5
    <3>2. c + 1 = j
      BY <1>0, <3>1 DEF Counters
    <3>3. o = [name |-> "zero", ctr |-> c]
      BY <1>2, <3>2, FixedRecipes
    <3>4. o.name = "zero"
      BY <3>3
    <3> QED
      BY <1>1, <1>2, <2>5, <3>3, <3>4 DEF SETUP, START, STOP, READ
  <2> QED
    BY <2>2, <2>3, <2>4, <2>5
<1>3. CASE type = FIXED /\ s = START
  <2>1. Len(<<Op("start_global")>>) = 1 /\ <<Op("start_global")>>[1] = Op("start_global")
    OBVIOUS
  <2>2. j = 1
    BY <1>3, <2>1, FixedRecipes
  <2>3. o.name = "start_global"
    BY <1>3, <2>1, <2>2, FixedRecipes, PlainOps DEF OpNames
  <2> QED
    BY <1>1, <1>3, <2>3 DEF SETUP, START, STOP, READ
<1>4. CASE type = FIXED /\ s = STOP
  <2>1. Len(<<Op("stop_global")>>) = 1 /\ <<Op("stop_global")>>[1] = Op("stop_global")
    OBVIOUS
  <2>2. j = 1
    BY <1>4, <2>1, FixedRecipes
  <2>3. o.name = "stop_global"
    BY <1>4, <2>1, <2>2, FixedRecipes, PlainOps DEF OpNames
  <2> QED
    BY <1>1, <1>4, <2>3 DEF SETUP, START, STOP, READ
<1>5. CASE type = FIXED /\ s = READ
  <2>1. j \in Counters
    BY <1>5, FixedRecipes DEF Counters
  <2>2. o = [name |-> "read", ctr |-> j]
    BY <1>5, <2>1, FixedRecipes
  <2>3. o.name = "read"
    BY <2>2
  <2> QED
    BY <1>1, <1>5, <2>1, <2>2, <2>3 DEF SETUP, START, STOP, READ
<1>6. CASE type = "ALL_ALLOWED" /\ s \in {SETUP, READ}
  <2>1. /\ o.name \in {"rd", "read"}
        /\ o.name = "read" => \E c \in Counters : o = [name |-> "read", ctr |-> c]
    <3>1. Len(Recipe("ALL_ALLOWED", s)) = CounterCount + 1
      BY <1>6, AllowedRecipes
    <3>2. j \in 1 .. CounterCount + 1
      BY <1>6, <3>1
    <3> QED
      BY <1>6, <3>2, AllowedRecipes
  <2>2. s # START /\ s # STOP /\ type # FIXED
    BY <1>6 DEF SETUP, START, STOP, READ, FIXED
  <2> HIDE DEF o
  <2>3. o.name \notin {"stop_global", "start_global", "enable_fixed", "zero"}
    BY <2>1
  <2> QED
    BY <1>1, <2>1, <2>2, <2>3 DEF o
<1>7. CASE Recipe(type, s) = <<>>
  BY <1>7
<1>8. CASE type = "ALL_ALLOWED" /\ s \notin {SETUP, READ}
  BY <1>0, <1>7, <1>8, AllowedRecipes
<1>9. CASE type = FIXED /\ s = TEARDOWN
  BY <1>7, <1>9, FixedRecipes
<1>10. type = FIXED \/ type = "ALL_ALLOWED"
  BY DEF Types, FIXED
<1>11. CASE type = FIXED
  BY <1>0, <1>2, <1>3, <1>4, <1>5, <1>9, <1>11
<1>12. CASE type = "ALL_ALLOWED"
  BY <1>6, <1>8, <1>12
<1> QED
  BY <1>10, <1>11, <1>12

LEMMA JobTypes ==
    ASSUME TypeOK
    PROVE  /\ DOMAIN longitudinals = 1 .. Len(longitudinals) /\ Len(longitudinals) \in Nat
           /\ \A i \in DOMAIN longitudinals :
                /\ longitudinals[i] \in Longitudinals /\ Type(i) \in Types
                /\ longitudinals[i].sample_cpus \in SUBSET Cpus
                /\ Ncpu(i) \in Nat \ {0}
                /\ Ascending(longitudinals[i].sample_cpus)
                        \in Bijection(1 .. Ncpu(i), longitudinals[i].sample_cpus)
                /\ \A s \in Slots : Len(Recipe(Type(i), s)) \in Nat
<1>1. longitudinals \in Seq(Longitudinals)
  BY LongitudinalAssumption DEF TypeOK
<1>2. DOMAIN longitudinals = 1 .. Len(longitudinals) /\ Len(longitudinals) \in Nat
  BY <1>1
<1>3. ASSUME NEW i \in DOMAIN longitudinals
      PROVE  /\ longitudinals[i] \in Longitudinals /\ Type(i) \in Types
             /\ longitudinals[i].sample_cpus \in SUBSET Cpus
             /\ Ncpu(i) \in Nat \ {0}
             /\ Ascending(longitudinals[i].sample_cpus)
                    \in Bijection(1 .. Ncpu(i), longitudinals[i].sample_cpus)
             /\ \A s \in Slots : Len(Recipe(Type(i), s)) \in Nat
  <2>1. longitudinals[i] \in Longitudinals
    BY <1>1
  <2>2. /\ Type(i) \in Types /\ longitudinals[i].sample_cpus \in SUBSET Cpus
        /\ longitudinals[i].sample_cpus # {}
    BY <2>1 DEF Longitudinals, Type
  <2>3. IsFiniteSet(longitudinals[i].sample_cpus)
    BY <2>2, FS_Subset, LongitudinalAssumption
  <2>4. Ncpu(i) # 0
    BY <2>2, <2>3, FS_EmptySet DEF Ncpu
  <2>5. /\ Ncpu(i) \in Nat
        /\ Ascending(longitudinals[i].sample_cpus)
                    \in Bijection(1 .. Ncpu(i), longitudinals[i].sample_cpus)
    BY <2>2, AscendingCpus DEF Ncpu
  <2>6. \A s \in Slots : Len(Recipe(Type(i), s)) \in Nat
    BY <2>2, PointersAre, LongitudinalAssumption
  <2> QED
    BY <2>1, <2>2, <2>4, <2>5, <2>6
<1> QED
  BY <1>2, <1>3

\* The op of an element, and its cpu.
LEMMA ElementIs ==
    ASSUME TypeOK, Prepared, Laid, NEW i \in DOMAIN batches, NEW s \in Slots,
           NEW k \in DOMAIN batches[i][s]
    PROVE  /\ i \in DOMAIN longitudinals /\ Ready
           /\ OpAt(k, Ncpu(i)) \in 1 .. Len(Recipe(Type(i), s))
           /\ CpuAt(k, Ncpu(i)) \in 1 .. Ncpu(i)
           /\ batches[i][s][k].op = Recipe(Type(i), s)[OpAt(k, Ncpu(i))]
           /\ batches[i][s][k].cpu =
                Ascending(longitudinals[i].sample_cpus)[CpuAt(k, Ncpu(i))]
           /\ batches[i][s][k].cpu \in longitudinals[i].sample_cpus
           /\ batches[i][s][k].cpu \in Cpus
           /\ k \in Nat /\ k = Ncpu(i) * (OpAt(k, Ncpu(i)) - 1) + CpuAt(k, Ncpu(i))
<1>1. i \in DOMAIN longitudinals /\ Ready
  BY DEF Prepared, Ready
<1>2. /\ Ncpu(i) \in Nat \ {0} /\ Len(Recipe(Type(i), s)) \in Nat
      /\ longitudinals[i].sample_cpus \in SUBSET Cpus
      /\ Ascending(longitudinals[i].sample_cpus)
                    \in [1 .. Ncpu(i) -> longitudinals[i].sample_cpus]
  BY <1>1, JobTypes DEF Bijection, Injection
<1>3. k \in 1 .. Len(Recipe(Type(i), s)) * Ncpu(i)
  BY DEF Laid
<1>4. /\ OpAt(k, Ncpu(i)) \in 1 .. Len(Recipe(Type(i), s))
      /\ CpuAt(k, Ncpu(i)) \in 1 .. Ncpu(i)
      /\ k = Ncpu(i) * (OpAt(k, Ncpu(i)) - 1) + CpuAt(k, Ncpu(i))
  BY <1>2, <1>3, Elements
<1>5. /\ batches[i][s][k].op = Recipe(Type(i), s)[OpAt(k, Ncpu(i))]
      /\ batches[i][s][k].cpu =
                Ascending(longitudinals[i].sample_cpus)[CpuAt(k, Ncpu(i))]
  BY DEF Laid
<1>6. batches[i][s][k].cpu \in longitudinals[i].sample_cpus
  BY <1>2, <1>4, <1>5
<1>7. k \in Nat
  BY <1>3
<1> QED
  BY <1>1, <1>2, <1>4, <1>5, <1>6, <1>7

\* A cpu that has one op of a longitudinal has all ops of all its recipes, each
\* at its own place among those of the cpu.
LEMMA Companion ==
    ASSUME TypeOK, Prepared, Laid, NEW i \in DOMAIN batches, NEW s \in Slots,
           NEW k \in DOMAIN batches[i][s], NEW v \in Slots,
           NEW j \in 1 .. Len(Recipe(Type(i), v))
    PROVE  \E m \in DOMAIN batches[i][v] :
            /\ batches[i][v][m].op = Recipe(Type(i), v)[j]
            /\ batches[i][v][m].cpu = batches[i][s][k].cpu
            /\ v = s /\ j < OpAt(k, Ncpu(i)) => m < k
<1>1. /\ CpuAt(k, Ncpu(i)) \in 1 .. Ncpu(i) /\ i \in DOMAIN longitudinals
      /\ k \in Nat /\ k = Ncpu(i) * (OpAt(k, Ncpu(i)) - 1) + CpuAt(k, Ncpu(i))
      /\ OpAt(k, Ncpu(i)) \in 1 .. Len(Recipe(Type(i), s))
      /\ batches[i][s][k].cpu =
            Ascending(longitudinals[i].sample_cpus)[CpuAt(k, Ncpu(i))]
  BY ElementIs
<1>2. Ncpu(i) \in Nat \ {0} /\ \A w \in Slots : Len(Recipe(Type(i), w)) \in Nat
  BY <1>1, JobTypes
<1>3. PICK n \in Nat \ {0} : n = Ncpu(i)
  BY <1>2
<1>4. PICK c \in 1 .. n : c = CpuAt(k, Ncpu(i))
  BY <1>1, <1>3
<1>5. PICK L \in Nat : L = Len(Recipe(Type(i), v))
  BY <1>2
<1>6. PICK b \in Nat \ {0} : b = OpAt(k, Ncpu(i))
  <2>1. Len(Recipe(Type(i), s)) \in Nat
    BY <1>2
  <2>2. OpAt(k, Ncpu(i)) \in Nat \ {0}
    BY <1>1, <2>1
  <2> QED
    BY <2>2
<1>7. PICK m \in 1 .. L * n : m = n * (j - 1) + c /\ OpAt(m, n) = j /\ CpuAt(m, n) = c
  <2>1. j \in 1 .. L
    BY <1>5
  <2> QED
    BY <2>1, ElementOf
<1>8. m \in DOMAIN batches[i][v]
  BY <1>3, <1>5 DEF Laid
<1>9. /\ batches[i][v][m].op = Recipe(Type(i), v)[OpAt(m, Ncpu(i))]
      /\ batches[i][v][m].cpu = Ascending(longitudinals[i].sample_cpus)[CpuAt(m, Ncpu(i))]
  BY <1>8 DEF Laid
<1>10. j < b => m < k
  <2> SUFFICES ASSUME j < b PROVE m < k
    OBVIOUS
  <2>1. j \in Nat \ {0} /\ c \in Nat /\ k = n * (b - 1) + c
    BY <1>1, <1>3, <1>4, <1>5, <1>6, SMTT(30)
  <2>2. PICK d \in Nat : b - 1 = (j - 1) + 1 + d
    <3>1. b - 1 - j \in Nat
      BY <2>1
    <3> QED
      BY <2>1, <3>1
  <2>3. n * (b - 1) = n * (j - 1) + n + n * d
    BY <2>1, <2>2
  <2>4. n * d \in Nat /\ n * (j - 1) \in Nat
    BY <2>1, <2>2
  <2> QED
    BY <1>7, <2>1, <2>3, <2>4
<1> QED
  BY <1>1, <1>3, <1>4, <1>6, <1>7, <1>8, <1>9, <1>10

\* No op of any recipe writes what the allowlist forbids.
LEMMA OpsAreAllowed ==
    ASSUME NEW o \in Ops
    PROVE  Allowed(o)
BY DEF Allowed, Ops, OpNames, msr, allowlist, Changes

LEMMA NoBatchForbidden ==
    ASSUME TypeOK, Prepared, Laid, AtAnOp
    PROVE  AllAllowed
<1> SUFFICES ASSUME NEW k \in DOMAIN batches[lng][slot]
             PROVE  Allowed(batches[lng][slot][k].op)
  BY DEF AllAllowed
<1>1. lng \in DOMAIN batches /\ slot \in Slots
  BY JobTypes DEF AtAnOp, Ready, TypeOK
<1>2. Type(lng) \in Types
  BY <1>1, JobTypes, ElementIs
<1>3. batches[lng][slot][k].op \in Ops
  BY <1>1, <1>2, ElementIs, RecipeNames
<1> QED
  BY <1>3, OpsAreAllowed

-----------------------------------------------------------------------------
(* The invariant holds at first, and is preserved by every step.            *)

LEMMA SlotNumbers ==
    /\ Slots = 1 .. 5 /\ SETUP = 1 /\ START = 2 /\ STOP = 3 /\ READ = 4 /\ TEARDOWN = 5
    /\ SETUP .. STOP \subseteq Slots /\ READ \in Slots
BY DEF Slots, SETUP, START, STOP, READ, TEARDOWN

LEMMA InitIInv == ASSUME Init PROVE IInv
<1> USE DEF Init
<1>1. DOMAIN batches = {}
  OBVIOUS
<1>2. \A cpu \in Cpus : ~Started(cpu) /\ ~Stopped(cpu) /\ ~Enabled(cpu)
                        /\ \A c \in Counters : ~Zeroed(cpu, c)
  BY <1>1 DEF Started, Stopped, Enabled, Executed, Zeroed
<1>3. Len(longitudinals) \in Nat /\ longitudinals \in Seq(Longitudinals)
  BY LongitudinalAssumption
<1>4. TypeOK
  <2>1. Uncounted \in [Types -> [Slots -> Nat]]
    BY DEF Uncounted
  <2>2. FIXED_CTR \in [Cpus -> [Counters -> Nat]]
    OBVIOUS
  <2>3. work \in [Cpus -> 0 .. MaxWork] /\ window \in [Cpus -> 0 .. MaxWork]
        /\ faults \in 0 .. MaxFaults
    BY LongitudinalAssumption
  <2>4. slot \in 1 .. TEARDOWN + 1 /\ lng \in 1 .. Len(longitudinals) + 1
    BY <1>3, SlotNumbers
  <2> QED
    BY <1>1, <2>1, <2>2, <2>3, <2>4 DEF TypeOK
<1>5. Prepared
  BY <1>1 DEF Prepared, Ready
<1>6. Laid /\ Progress /\ ReadOut
  BY <1>1 DEF Laid, Progress, ReadOut
<1>7. Registers
  BY <1>2 DEF Registers
<1> QED
  BY <1>4, <1>5, <1>6, <1>7 DEF IInv

LEMMA CountOpsStep == ASSUME IInv, CountOps PROVE IInv'
<1> USE DEF IInv
<1>1. PICK at \in Layouts :
        looked_at' = [type \in Types |-> [s \in Slots |-> ToFirstNull(at, type, s)]]
  BY DEF CountOps
<1>2. /\ ops_per_function_per_slot' =
            [type \in Types |-> [s \in Slots |-> looked_at'[type][s] - 1]]
      /\ looked_at = Uncounted
      /\ UNCHANGED <<longitudinals, batches, runVars, hardware>>
  BY DEF CountOps
<1>3. DOMAIN batches = {}
  BY <1>2 DEF Prepared
<1>4. \A type \in Types, s \in Slots : Len(Recipe(type, s)) \in Nat
  BY PointersAre, LongitudinalAssumption
<1>5. \A type \in Types, s \in Slots :
        /\ looked_at'[type][s] = Len(Recipe(type, s)) + 1
        /\ ops_per_function_per_slot'[type][s] = Len(Recipe(type, s))
  BY <1>1, <1>2, <1>4, OnePastTheOps
<1>6. /\ looked_at' \in [Types -> [Slots -> Nat]]
      /\ ops_per_function_per_slot' \in [Types -> [Slots -> Nat]]
  BY <1>1, <1>2, <1>4, OnePastTheOps
<1>7. ~Ready /\ slot = SETUP /\ lng = 1 /\ next_op = 1
  BY <1>2 DEF Ready, Prepared
<1>8. TypeOK'
  BY <1>2, <1>6 DEF TypeOK, runVars, hardware
<1>9. Prepared'
  <2>1. DOMAIN batches' = {} /\ slot' = SETUP /\ lng' = 1 /\ next_op' = 1
        /\ longitudinals' = longitudinals
    BY <1>2, <1>3, <1>7 DEF runVars
  <2>2. Ready' => ~ (lng' <= Len(longitudinals'))
    BY <2>1, JobTypes DEF Ready
  <2> QED
    BY <1>5, <2>1, <2>2 DEF Prepared
<1>10. DOMAIN batches' = {}
  BY <1>2, <1>3
<1>11. (Laid /\ Progress /\ ReadOut)'
  BY <1>10 DEF Laid, Progress, ReadOut
<1>12. \A cpu \in Cpus : ~Started(cpu)' /\ ~Stopped(cpu)' /\ ~Enabled(cpu)'
                        /\ \A c \in Counters : ~Zeroed(cpu, c)'
  BY <1>10 DEF Started, Stopped, Enabled, Executed, Zeroed
<1>13. \A cpu \in Cpus : ~Started(cpu)
  BY <1>3 DEF Started, Executed
<1>14. Registers'
  BY <1>2, <1>12, <1>13 DEF Registers, hardware
<1> QED
  BY <1>8, <1>9, <1>11, <1>14

LEMMA MakeBatchesStep == ASSUME IInv, MakeBatches PROVE IInv'
<1> USE DEF IInv
<1>1. /\ looked_at # Uncounted /\ DOMAIN batches # DOMAIN longitudinals
      /\ batches' = [i \in DOMAIN longitudinals |->
                    [s \in Slots |-> BatchOf(longitudinals[i], s)]]
      /\ UNCHANGED <<longitudinals, looked_at, ops_per_function_per_slot,
                   runVars, hardware>>
  BY DEF MakeBatches
<1>2. DOMAIN batches = {} /\ slot = SETUP /\ lng = 1 /\ next_op = 1
  BY <1>1 DEF Prepared, Ready
<1>3. ASSUME NEW i \in DOMAIN longitudinals, NEW s \in Slots
      PROVE  /\ batches'[i][s] \in Batch
             /\ DOMAIN batches'[i][s] = 1 .. Len(Recipe(Type(i), s)) * Ncpu(i)
             /\ \A k \in DOMAIN batches'[i][s] :
                /\ batches'[i][s][k].op = Recipe(Type(i), s)[OpAt(k, Ncpu(i))]
                /\ batches'[i][s][k].cpu =
                        Ascending(longitudinals[i].sample_cpus)[CpuAt(k, Ncpu(i))]
                /\ batches'[i][s][k].err = "unused"
  <2> DEFINE recipe == Recipe(Type(i), s)
             n == Ncpu(i)
             asc == Ascending(longitudinals[i].sample_cpus)
  <2>1. /\ longitudinals[i] \in Longitudinals /\ Type(i) \in Types
        /\ longitudinals[i].sample_cpus \in SUBSET Cpus /\ n \in Nat \ {0}
        /\ asc \in [1 .. n -> longitudinals[i].sample_cpus] /\ Len(recipe) \in Nat
    BY JobTypes DEF Bijection, Injection
  <2>2. ops_per_function_per_slot[Type(i)][s] = Len(recipe)
    BY <1>1, <2>1 DEF Prepared
  <2>3. BatchOf(longitudinals[i], s) =
            [k \in 1 .. Len(recipe) * n |->
                [op |-> recipe[OpAt(k, n)], cpu |-> asc[CpuAt(k, n)],
                 err |-> "unused", msrdata |-> 0]]
    BY <2>1, <2>2, BatchIs DEF Type, Ncpu
  <2>4. batches'[i][s] =
            [k \in 1 .. Len(recipe) * n |->
                [op |-> recipe[OpAt(k, n)], cpu |-> asc[CpuAt(k, n)],
                 err |-> "unused", msrdata |-> 0]]
    BY <1>1, <2>3, Zenon
  <2>5. \A k \in 1 .. Len(recipe) * n :
            recipe[OpAt(k, n)] \in Ops /\ asc[CpuAt(k, n)] \in Cpus
    <3> SUFFICES ASSUME NEW k \in 1 .. Len(recipe) * n
                 PROVE  recipe[OpAt(k, n)] \in Ops /\ asc[CpuAt(k, n)] \in Cpus
      OBVIOUS
    <3>1. OpAt(k, n) \in 1 .. Len(recipe) /\ CpuAt(k, n) \in 1 .. n
      BY <2>1, Elements
    <3> QED
      BY <2>1, <3>1, RecipeNames
  <2>6. Len(recipe) * n \in Nat
    BY <2>1
  <2> HIDE DEF recipe, n, asc
  <2>7. batches'[i][s] \in
            [1 .. Len(recipe) * n -> [op : Ops, cpu : Cpus,
                err : {"unused", "none", "failed"}, msrdata : Nat]]
    BY <2>4, <2>5
  <2>8. batches'[i][s] \in Batch
    BY <2>6, <2>7, FunctionIsSeq DEF Batch, Ops
  <2> QED
    BY <2>4, <2>8 DEF recipe, n, asc
<1>4. longitudinals' = longitudinals /\ DOMAIN batches' = DOMAIN longitudinals
  BY <1>1
<1>5. \A i \in DOMAIN longitudinals : batches'[i] \in [Slots -> Batch]
  <2> SUFFICES ASSUME NEW i \in DOMAIN longitudinals PROVE batches'[i] \in [Slots -> Batch]
    OBVIOUS
  <2>1. batches'[i] = [s \in Slots |-> BatchOf(longitudinals[i], s)]
    BY <1>1
  <2>2. \A s \in Slots : batches'[i][s] \in Batch
    BY <1>3
  <2> QED
    BY <2>1, <2>2
<1>6. TypeOK'
  BY <1>1, <1>4, <1>5 DEF TypeOK, runVars, hardware
<1>7. Prepared'
  <2>1. Ready' /\ slot' = 1 /\ lng' = 1 /\ next_op' = 1
    BY <1>1, <1>2, <1>4, SlotNumbers DEF Ready, runVars
  <2>2. ASSUME lng' <= Len(longitudinals') PROVE next_op' <= Len(batches'[lng'][slot']) + 1
    <3>1. 1 \in DOMAIN longitudinals /\ 1 \in Slots
      BY <1>4, <2>1, <2>2, JobTypes, SlotNumbers
    <3>2. batches'[1][1] \in Batch
      BY <1>3, <3>1
    <3>3. Len(batches'[1][1]) \in Nat
      BY <3>2 DEF Batch
    <3> QED
      BY <2>1, <3>3
  <2> QED
    BY <1>1, <1>4, <2>1, <2>2 DEF Prepared
<1>8. Laid'
  BY <1>3, <1>4 DEF Laid, Type, Ncpu
<1>9. ASSUME NEW i \in DOMAIN batches', NEW s \in Slots, NEW k \in DOMAIN batches'[i][s]
      PROVE  batches'[i][s][k].err = "unused" /\ ~Past(i, s, k)'
  <2>1. batches'[i][s][k].err = "unused"
    BY <1>3, <1>4, <1>9
  <2>2. i \in Nat \ {0} /\ k \in Nat \ {0}
    <3>1. i \in DOMAIN longitudinals /\ i \in 1 .. Len(longitudinals)
      BY <1>4, <1>9, JobTypes
    <3>2. batches'[i][s] \in Batch
      BY <1>3, <3>1
    <3> QED
      BY <1>9, <3>1, <3>2 DEF Batch
  <2>3. slot' = 1 /\ lng' = 1 /\ next_op' = 1
    BY <1>1, <1>2, SlotNumbers DEF runVars
  <2> QED
    BY <2>1, <2>2, <2>3, SlotNumbers DEF Past
<1>10. Progress'
  BY <1>9 DEF Progress
<1>11. \A cpu \in Cpus : ~Started(cpu)' /\ ~Stopped(cpu)' /\ ~Enabled(cpu)'
                        /\ \A c \in Counters : ~Zeroed(cpu, c)'
  BY <1>9, SlotNumbers DEF Started, Stopped, Enabled, Executed, Zeroed
<1>12. \A cpu \in Cpus : ~Started(cpu)
  BY <1>2 DEF Started, Executed
<1>13. Registers'
  BY <1>1, <1>11, <1>12 DEF Registers, hardware
<1>14. ReadOut'
  BY <1>9, SlotNumbers DEF ReadOut
<1> QED
  BY <1>6, <1>7, <1>8, <1>10, <1>13, <1>14

\* Steps that touch neither the batches nor the registers.
LEMMA QuietStep ==
    ASSUME IInv, UNCHANGED <<longitudinals, batches, PERF_GLOBAL_CTRL, FIXED_CTR_CTRL,
                             FIXED_CTR, work, window>>,
           \A i \in DOMAIN batches, s \in Slots : \A k \in DOMAIN batches[i][s] :
                Past(i, s, k) => Past(i, s, k)'
    PROVE  Laid' /\ Registers' /\ ReadOut'
<1> USE DEF IInv
<1>1. Laid'
  BY DEF Laid, Type, Ncpu
<1>2. \A cpu \in Cpus : Clean(cpu)' => Clean(cpu)
  BY SlotNumbers DEF Clean
<1>3. \A cpu \in Cpus :
        /\ Started(cpu)' <=> Started(cpu)
        /\ Stopped(cpu)' <=> Stopped(cpu)
        /\ Enabled(cpu)' <=> Enabled(cpu)
        /\ Ended(cpu)' <=> Ended(cpu)
        /\ \A c \in Counters : Zeroed(cpu, c)' <=> Zeroed(cpu, c)
  BY DEF Started, Stopped, Enabled, Ended, Executed, Zeroed
<1>4. Registers'
  BY <1>2, <1>3 DEF Registers
<1>5. ReadOut'
  <2>1. \A i : Fixed(i)' <=> Fixed(i)
    BY DEF Fixed
  <2> QED
    BY <1>2, <1>3, <2>1 DEF ReadOut
<1> QED
  BY <1>1, <1>4, <1>5

LEMMA BatchRefusedStep == ASSUME IInv, BatchRefused PROVE IInv'
<1> USE DEF IInv
<1>1. /\ AtAnOp /\ next_op = 1 /\ next_op' = Len(batches[lng][slot]) + 1
      /\ UNCHANGED <<longitudinals, setupVars, slot, lng, PERF_GLOBAL_CTRL,
                   FIXED_CTR_CTRL, FIXED_CTR, work, window>>
  BY DEF BatchRefused
<1>2. faults < MaxFaults /\ faults' = faults + 1
  BY <1>1, NoBatchForbidden DEF BatchRefused
<1>3. lng \in DOMAIN batches /\ slot \in Slots /\ Len(batches[lng][slot]) \in Nat
      /\ Ready /\ faults \in Nat /\ next_op <= Len(batches[lng][slot])
  BY <1>1, JobTypes DEF AtAnOp, Ready, TypeOK, Batch
<1>4. TypeOK'
  BY <1>1, <1>2, <1>3, LongitudinalAssumption DEF TypeOK, setupVars
<1>5. Prepared'
  BY <1>1, <1>3 DEF Prepared, Ready, setupVars
<1>6. \A i \in DOMAIN batches, s \in Slots : \A k \in DOMAIN batches[i][s] :
                Past(i, s, k) => Past(i, s, k)'
  <2> SUFFICES ASSUME NEW i \in DOMAIN batches, NEW s \in Slots,
                      NEW k \in DOMAIN batches[i][s], Past(i, s, k)
               PROVE  Past(i, s, k)'
    OBVIOUS
  <2>1. k \in Nat
    BY ElementIs
  <2> QED
    BY <1>1, <1>3, <2>1 DEF Past
<1>7. Laid' /\ Registers' /\ ReadOut'
  BY <1>1, <1>6, QuietStep DEF setupVars
<1>8. Progress'
  BY <1>1, <1>2, <1>3, <1>6 DEF Progress, setupVars
<1> QED
  BY <1>4, <1>5, <1>7, <1>8

LEMMA NextLongitudinalStep == ASSUME IInv, NextLongitudinal PROVE IInv'
<1> USE DEF IInv
<1>1. /\ Ready /\ slot \in Slots /\ lng <= Len(longitudinals)
      /\ next_op > Len(batches[lng][slot])
      /\ lng' = lng + 1 /\ next_op' = 1
      /\ UNCHANGED <<longitudinals, setupVars, slot, hardware>>
  BY DEF NextLongitudinal
<1>2. lng \in DOMAIN batches /\ lng \in Nat /\ Len(longitudinals) \in Nat
      /\ DOMAIN longitudinals = 1 .. Len(longitudinals) /\ next_op \in Nat
      /\ Len(batches[lng][slot]) \in Nat
      /\ DOMAIN batches[lng][slot] = 1 .. Len(batches[lng][slot])
  BY <1>1, JobTypes DEF Ready, TypeOK, Batch
<1>3. TypeOK'
  BY <1>1, <1>2 DEF TypeOK, setupVars, hardware
<1>4. Prepared'
  <2>1. ASSUME lng + 1 <= Len(longitudinals)
        PROVE  Len(batches[lng + 1][slot]) \in Nat
    <3>1. lng + 1 \in DOMAIN batches
      BY <1>1, <1>2, <2>1 DEF Ready
    <3> QED
      BY <1>1, <3>1 DEF TypeOK, Batch
  <2>2. (Ready /\ slot \in Slots /\ lng <= Len(longitudinals) =>
            next_op <= Len(batches[lng][slot]) + 1)'
    BY <1>1, <2>1 DEF setupVars
  <2> QED
    BY <1>1, <2>2 DEF Prepared, Ready, setupVars
<1>5. \A i \in DOMAIN batches, s \in Slots : \A k \in DOMAIN batches[i][s] :
                Past(i, s, k) <=> Past(i, s, k)'
  <2> SUFFICES ASSUME NEW i \in DOMAIN batches, NEW s \in Slots,
                      NEW k \in DOMAIN batches[i][s]
               PROVE  Past(i, s, k) <=> Past(i, s, k)'
    OBVIOUS
  <2>1. k \in Nat \ {0} /\ i \in Nat
    <3>1. batches[i][s] \in Batch /\ i \in DOMAIN longitudinals
      BY DEF TypeOK
    <3> QED
      BY <1>2, <3>1 DEF Batch
  <2>2. s = slot /\ i = lng => k < next_op
    <3> SUFFICES ASSUME s = slot, i = lng PROVE k < next_op
      OBVIOUS
    <3>1. k <= Len(batches[lng][slot])
      BY <1>2
    <3> QED
      BY <1>1, <1>2, <2>1, <3>1
  <2> QED
    BY <1>1, <1>2, <2>1, <2>2 DEF Past
<1>6. Laid' /\ Registers' /\ ReadOut'
  BY <1>1, <1>5, QuietStep DEF setupVars, hardware
<1>7. Progress'
  BY <1>1, <1>5 DEF Progress, setupVars, hardware
<1> QED
  BY <1>3, <1>4, <1>6, <1>7

LEMMA NextSlotStep == ASSUME IInv, NextSlot PROVE IInv'
<1> USE DEF IInv
<1>1. /\ Ready /\ slot \in Slots /\ lng > Len(longitudinals)
      /\ slot' = slot + 1 /\ lng' = 1 /\ next_op' = 1
      /\ UNCHANGED <<longitudinals, setupVars, hardware>>
  BY DEF NextSlot, NextSlotAfter
<1>2. Len(longitudinals) \in Nat /\ DOMAIN longitudinals = 1 .. Len(longitudinals)
      /\ lng \in Nat /\ slot \in Nat
  BY <1>1, JobTypes, SlotNumbers, SMTT(30) DEF TypeOK
<1>3. TypeOK'
  BY <1>1, <1>2, SlotNumbers DEF TypeOK, setupVars, hardware
<1>4. Prepared'
  <2>1. ASSUME slot + 1 \in Slots, 1 <= Len(longitudinals)
        PROVE  Len(batches[1][slot + 1]) \in Nat
    <3>1. 1 \in DOMAIN batches
      BY <1>1, <1>2, <2>1 DEF Ready
    <3> QED
      BY <2>1, <3>1 DEF TypeOK, Batch
  <2>2. (Ready /\ slot \in Slots /\ lng <= Len(longitudinals) =>
            next_op <= Len(batches[lng][slot]) + 1)'
    BY <1>1, <2>1 DEF setupVars
  <2> QED
    BY <1>1, <2>2 DEF Prepared, Ready, setupVars
<1>5. \A i \in DOMAIN batches, s \in Slots : \A k \in DOMAIN batches[i][s] :
                Past(i, s, k) <=> Past(i, s, k)'
  <2> SUFFICES ASSUME NEW i \in DOMAIN batches, NEW s \in Slots,
                      NEW k \in DOMAIN batches[i][s]
               PROVE  Past(i, s, k) <=> Past(i, s, k)'
    OBVIOUS
  <2>1. k \in Nat \ {0} /\ i \in Nat \ {0} /\ i < lng /\ s \in Nat
    <3>1. batches[i][s] \in Batch /\ i \in DOMAIN longitudinals
      BY DEF TypeOK
    <3> QED
      BY <1>1, <1>2, <3>1, SlotNumbers, SMTT(30) DEF Batch
  <2> QED
    BY <1>1, <1>2, <2>1 DEF Past
<1>6. Laid' /\ Registers' /\ ReadOut'
  BY <1>1, <1>5, QuietStep DEF setupVars, hardware
<1>7. Progress'
  BY <1>1, <1>5 DEF Progress, setupVars, hardware
<1> QED
  BY <1>3, <1>4, <1>6, <1>7

-----------------------------------------------------------------------------
(* The steps of the driver.                                                *)

Entry == [op : Ops, cpu : Cpus, err : {"unused", "none", "failed"}, msrdata : Nat]

LEMMA ReplaceInSeq ==
    ASSUME NEW S, NEW b \in Seq(S), NEW k \in DOMAIN b, NEW e \in S
    PROVE  [b EXCEPT ![k] = e] \in Seq(S)
OBVIOUS

\* The op at hand.
LEMMA CurrentIs ==
    ASSUME IInv, AtAnOp
    PROVE  /\ lng \in DOMAIN batches /\ slot \in Slots
           /\ next_op \in DOMAIN batches[lng][slot] /\ next_op \in Nat \ {0}
           /\ next_op <= Len(batches[lng][slot]) /\ Len(batches[lng][slot]) \in Nat
           /\ Current \in Entry /\ Current.err = "unused" /\ ~Past(lng, slot, next_op)
           /\ lng \in Nat /\ slot \in Nat
<1> USE DEF IInv
<1>1. /\ lng \in DOMAIN batches /\ slot \in Slots /\ lng \in Nat
      /\ next_op \in Nat \ {0} /\ next_op <= Len(batches[lng][slot])
  BY JobTypes DEF AtAnOp, Ready, TypeOK
<1>2. batches[lng][slot] \in Seq(Entry)
  BY <1>1 DEF TypeOK, Batch, Entry, Ops
<1>3. next_op \in DOMAIN batches[lng][slot] /\ Current \in Entry
      /\ Len(batches[lng][slot]) \in Nat
  BY <1>1, <1>2 DEF Current
<1>4. slot \in Nat
  BY <1>1, SlotNumbers
<1>5. ~Past(lng, slot, next_op)
  BY <1>1, <1>4 DEF Past
<1>6. Current.err = "unused"
  BY <1>1, <1>3, <1>5 DEF Progress, Current
<1> QED
  BY <1>1, <1>3, <1>4, <1>5, <1>6

\* A step of the driver changes err and msrdata of one entry.
LEMMA OneEntry ==
    ASSUME IInv, AtAnOp, NEW e \in Entry, e.op = Current.op, e.cpu = Current.cpu,
           batches' = [batches EXCEPT ![lng][slot][next_op] = e],
           longitudinals' = longitudinals, slot' = slot, lng' = lng,
           next_op' = next_op + 1
    PROVE  /\ DOMAIN batches' = DOMAIN batches
           /\ \A i \in DOMAIN batches : batches'[i] \in [Slots -> Batch]
           /\ \A i \in DOMAIN batches, s \in Slots :
                /\ DOMAIN batches'[i][s] = DOMAIN batches[i][s]
                /\ \A k \in DOMAIN batches[i][s] :
                    /\ batches'[i][s][k] =
                         IF i = lng /\ s = slot /\ k = next_op THEN e ELSE batches[i][s][k]
                    /\ batches'[i][s][k].op = batches[i][s][k].op
                    /\ batches'[i][s][k].cpu = batches[i][s][k].cpu
                    /\ Past(i, s, k)' <=> Past(i, s, k)
                            \/ (i = lng /\ s = slot /\ k = next_op)
           /\ Laid'
<1> USE DEF IInv
<1>1. /\ lng \in DOMAIN batches /\ slot \in Slots /\ next_op \in Nat
      /\ next_op \in DOMAIN batches[lng][slot] /\ ~Past(lng, slot, next_op)
      /\ slot \in Nat /\ lng \in Nat
  BY CurrentIs
<1>2. \A i \in DOMAIN batches : batches[i] \in [Slots -> Seq(Entry)]
  BY DEF TypeOK, Batch, Entry, Ops
<1>3. DOMAIN batches' = DOMAIN batches
  OBVIOUS
<1>4. \A i \in DOMAIN batches : i # lng => batches'[i] = batches[i]
  OBVIOUS
<1>5. batches'[lng] = [batches[lng] EXCEPT ![slot] =
                            [batches[lng][slot] EXCEPT ![next_op] = e]]
  BY <1>1
<1>6. \A s \in Slots : s # slot => batches'[lng][s] = batches[lng][s]
  BY <1>1, <1>2, <1>5
<1>7. batches'[lng][slot] = [batches[lng][slot] EXCEPT ![next_op] = e]
  BY <1>1, <1>2, <1>5
<1>8. batches'[lng][slot] \in Seq(Entry)
  BY <1>1, <1>2, <1>7, ReplaceInSeq
<1>9. batches'[lng] \in [Slots -> Seq(Entry)]
  <2>1. batches'[lng] = [s \in Slots |-> batches'[lng][s]]
    BY <1>1, <1>2, <1>5
  <2>2. \A s \in Slots : batches'[lng][s] \in Seq(Entry)
    BY <1>1, <1>2, <1>6, <1>8
  <2> QED
    BY <2>1, <2>2
<1>10. \A i \in DOMAIN batches : batches'[i] \in [Slots -> Batch]
  <2>1. \A i \in DOMAIN batches : batches'[i] \in [Slots -> Seq(Entry)]
    BY <1>2, <1>4, <1>9
  <2> QED
    BY <2>1 DEF Batch, Entry, Ops
<1>11. ASSUME NEW i \in DOMAIN batches, NEW s \in Slots
       PROVE  /\ DOMAIN batches'[i][s] = DOMAIN batches[i][s]
              /\ \A k \in DOMAIN batches[i][s] : batches'[i][s][k] =
                    IF i = lng /\ s = slot /\ k = next_op THEN e ELSE batches[i][s][k]
  <2>1. CASE i = lng /\ s = slot
    BY <1>1, <1>7, <2>1
  <2>2. CASE ~ (i = lng /\ s = slot)
    <3>1. batches'[i][s] = batches[i][s]
      BY <1>4, <1>6, <2>2
    <3> QED
      BY <2>2, <3>1
  <2> QED
    BY <2>1, <2>2
<1>12. \A i \in DOMAIN batches, s \in Slots : \A k \in DOMAIN batches[i][s] :
            /\ batches'[i][s][k].op = batches[i][s][k].op
            /\ batches'[i][s][k].cpu = batches[i][s][k].cpu
  BY <1>11 DEF Current
<1>13. \A i \in DOMAIN batches, s \in Slots : \A k \in DOMAIN batches[i][s] :
            Past(i, s, k)' <=> Past(i, s, k) \/ (i = lng /\ s = slot /\ k = next_op)
  <2> SUFFICES ASSUME NEW i \in DOMAIN batches, NEW s \in Slots,
                      NEW k \in DOMAIN batches[i][s]
               PROVE  Past(i, s, k)' <=>
                        Past(i, s, k) \/ (i = lng /\ s = slot /\ k = next_op)
    OBVIOUS
  <2>1. k \in Nat
    BY ElementIs
  <2> QED
    BY <1>1, <2>1 DEF Past
<1>14. Laid'
  BY <1>3, <1>11, <1>12 DEF Laid, Type, Ncpu
<1> QED
  BY <1>3, <1>10, <1>11, <1>12, <1>13, <1>14, SMTT(30)

\* A cpu without a failure has had none before.
LEMMA CleanBefore ==
    ASSUME IInv, AtAnOp, NEW e \in Entry, e.op = Current.op, e.cpu = Current.cpu,
           batches' = [batches EXCEPT ![lng][slot][next_op] = e],
           longitudinals' = longitudinals, slot' = slot, lng' = lng,
           next_op' = next_op + 1,
           NEW cpu, Clean(cpu)'
    PROVE  Clean(cpu)
<1> SUFFICES ASSUME NEW i \in DOMAIN batches, NEW s \in SETUP .. STOP,
                    NEW k \in DOMAIN batches[i][s],
                    batches[i][s][k].cpu = cpu, Past(i, s, k)
             PROVE  batches[i][s][k].err = "none"
  BY DEF Clean
<1>1. s \in Slots /\ ~Past(lng, slot, next_op)
  BY SlotNumbers, CurrentIs
<1>2. /\ DOMAIN batches' = DOMAIN batches /\ DOMAIN batches'[i][s] = DOMAIN batches[i][s]
      /\ batches'[i][s][k] = batches[i][s][k] /\ Past(i, s, k)'
  BY <1>1, OneEntry
<1> QED
  BY <1>2 DEF Clean

\* What has been executed, after a step of the driver that succeeds.
LEMMA ExecutedNow ==
    ASSUME IInv, AtAnOp, NEW e \in Entry, e.op = Current.op, e.cpu = Current.cpu,
           batches' = [batches EXCEPT ![lng][slot][next_op] = e],
           longitudinals' = longitudinals, slot' = slot, lng' = lng,
           next_op' = next_op + 1, NEW cpu
    PROVE  /\ \A s \in Slots, name \in OpNames : Executed(s, name, cpu)' <=>
                \/ Executed(s, name, cpu)
                \/ /\ s = slot /\ e.err = "none"
                   /\ Current.op.name = name /\ Current.cpu = cpu
           /\ \A c \in Counters : Zeroed(cpu, c)' <=>
                \/ Zeroed(cpu, c)
                \/ /\ slot = SETUP /\ e.err = "none" /\ Current.cpu = cpu
                   /\ Current.op = [name |-> "zero", ctr |-> c]
<1>1. /\ lng \in DOMAIN batches /\ slot \in Slots
      /\ next_op \in DOMAIN batches[lng][slot] /\ Current.err = "unused"
  BY CurrentIs
<1>2. /\ DOMAIN batches' = DOMAIN batches
      /\ \A i \in DOMAIN batches, s \in Slots :
            /\ DOMAIN batches'[i][s] = DOMAIN batches[i][s]
            /\ \A k \in DOMAIN batches[i][s] : batches'[i][s][k] =
                    IF i = lng /\ s = slot /\ k = next_op THEN e ELSE batches[i][s][k]
  BY OneEntry, ZenonT(60)
<1>3. Current = batches[lng][slot][next_op]
  BY DEF Current
<1> HIDE DEF Current
<1>4. ASSUME NEW s \in Slots, NEW name \in OpNames
      PROVE  Executed(s, name, cpu)' <=>
                \/ Executed(s, name, cpu)
                \/ /\ s = slot /\ e.err = "none"
                   /\ Current.op.name = name /\ Current.cpu = cpu
  <2>1. ASSUME Executed(s, name, cpu)'
        PROVE  \/ Executed(s, name, cpu)
               \/ /\ s = slot /\ e.err = "none"
                  /\ Current.op.name = name /\ Current.cpu = cpu
    BY <1>2, <2>1 DEF Executed
  <2>2. ASSUME Executed(s, name, cpu)
        PROVE  Executed(s, name, cpu)'
    <3>1. PICK i \in DOMAIN batches : \E k \in DOMAIN batches[i][s] :
            /\ batches[i][s][k].err = "none" /\ batches[i][s][k].op.name = name
            /\ batches[i][s][k].cpu = cpu
      BY <2>2 DEF Executed
    <3>2. PICK k \in DOMAIN batches[i][s] :
            /\ batches[i][s][k].err = "none" /\ batches[i][s][k].op.name = name
            /\ batches[i][s][k].cpu = cpu
      BY <3>1
    <3>3. ~ (i = lng /\ s = slot /\ k = next_op)
      BY <1>1, <1>3, <3>2
    <3>4. batches'[i][s][k] = batches[i][s][k]
      BY <1>2, <3>3
    <3> QED
      BY <1>2, <3>2, <3>4 DEF Executed
  <2>3. ASSUME s = slot, e.err = "none", Current.op.name = name, Current.cpu = cpu
        PROVE  Executed(s, name, cpu)'
    <3>1. batches'[lng][slot][next_op] = e
      BY <1>1, <1>2
    <3> QED
      BY <1>1, <1>2, <2>3, <3>1 DEF Executed
  <2> QED
    BY <2>1, <2>2, <2>3
<1>5. ASSUME NEW c \in Counters
      PROVE  Zeroed(cpu, c)' <=>
                \/ Zeroed(cpu, c)
                \/ /\ slot = SETUP /\ e.err = "none" /\ Current.cpu = cpu
                   /\ Current.op = [name |-> "zero", ctr |-> c]
  <2>0. SETUP \in Slots
    BY SlotNumbers
  <2>1. ASSUME Zeroed(cpu, c)'
        PROVE  \/ Zeroed(cpu, c)
               \/ /\ slot = SETUP /\ e.err = "none" /\ Current.cpu = cpu
                  /\ Current.op = [name |-> "zero", ctr |-> c]
    BY <1>2, <2>0, <2>1 DEF Zeroed
  <2>2. ASSUME Zeroed(cpu, c)
        PROVE  Zeroed(cpu, c)'
    <3>1. PICK i \in DOMAIN batches : \E k \in DOMAIN batches[i][SETUP] :
            /\ batches[i][SETUP][k].err = "none" /\ batches[i][SETUP][k].cpu = cpu
            /\ batches[i][SETUP][k].op = [name |-> "zero", ctr |-> c]
      BY <2>2 DEF Zeroed
    <3>2. PICK k \in DOMAIN batches[i][SETUP] :
            /\ batches[i][SETUP][k].err = "none" /\ batches[i][SETUP][k].cpu = cpu
            /\ batches[i][SETUP][k].op = [name |-> "zero", ctr |-> c]
      BY <3>1
    <3>3. ~ (i = lng /\ SETUP = slot /\ k = next_op)
      BY <1>1, <1>3, <3>2
    <3>4. batches'[i][SETUP][k] = batches[i][SETUP][k]
      BY <1>2, <2>0, <3>3
    <3> QED
      BY <1>2, <2>0, <3>2, <3>4 DEF Zeroed
  <2>3. ASSUME slot = SETUP, e.err = "none", Current.cpu = cpu,
               Current.op = [name |-> "zero", ctr |-> c]
        PROVE  Zeroed(cpu, c)'
    <3>1. batches'[lng][slot][next_op] = e
      BY <1>1, <1>2
    <3> QED
      BY <1>1, <1>2, <2>3, <3>1 DEF Zeroed
  <2> QED
    BY <2>1, <2>2, <2>3
<1> QED
  BY <1>4, <1>5

\* Which op is at hand tells the slot, and what came before it on its cpu.
LEMMA OpAtHand ==
    ASSUME IInv, AtAnOp
    PROVE  /\ Current.op.name = "stop_global" => slot \in {SETUP, STOP}
           /\ Current.op.name = "start_global" => slot = START
           /\ Current.op.name = "enable_fixed" => slot = SETUP
           /\ Current.op.name = "zero" =>
                /\ slot = SETUP
                /\ \E c \in Counters : Current.op = [name |-> "zero", ctr |-> c]
                /\ Clean(Current.cpu) => Stopped(Current.cpu)
           /\ Current.op.name = "start_global" /\ Clean(Current.cpu) =>
                /\ Enabled(Current.cpu)
                /\ \A c \in Counters : Zeroed(Current.cpu, c)
           /\ Fixed(lng) /\ slot = READ =>
                /\ \E c \in Counters : Current.op = [name |-> "read", ctr |-> c]
                /\ Clean(Current.cpu) => Started(Current.cpu) /\ Ended(Current.cpu)
           /\ Current.op.name = "read" =>
                \E c \in Counters : Current.op = [name |-> "read", ctr |-> c]
           /\ Current.op.name \in OpNames
<1> USE DEF IInv
<1>0. CounterCount \in Nat
  BY LongitudinalAssumption
<1>1. /\ lng \in DOMAIN batches /\ slot \in Slots /\ next_op \in DOMAIN batches[lng][slot]
      /\ Current = batches[lng][slot][next_op] /\ slot \in Nat /\ Current.cpu \in Cpus
  BY CurrentIs DEF Current, Entry
<1>2. /\ lng \in DOMAIN longitudinals
      /\ OpAt(next_op, Ncpu(lng)) \in 1 .. Len(Recipe(Type(lng), slot))
      /\ Current.op = Recipe(Type(lng), slot)[OpAt(next_op, Ncpu(lng))]
  BY <1>1, ElementIs
<1>3. Type(lng) \in Types
  BY <1>2, JobTypes
<1>4. PICK j \in 1 .. Len(Recipe(Type(lng), slot)) :
            j = OpAt(next_op, Ncpu(lng)) /\ Current.op = Recipe(Type(lng), slot)[j]
  BY <1>2
<1>5. /\ Current.op \in Ops
      /\ Current.op.name = "stop_global" => slot \in {SETUP, STOP}
      /\ Current.op.name = "start_global" => slot = START
      /\ Current.op.name = "enable_fixed" => slot = SETUP
      /\ Current.op.name = "zero" =>
            /\ slot = SETUP /\ Type(lng) = FIXED /\ j > 1
            /\ \E c \in Counters : Current.op = [name |-> "zero", ctr |-> c]
      /\ Current.op.name = "read" =>
            \E c \in Counters : Current.op = [name |-> "read", ctr |-> c]
      /\ Type(lng) = FIXED /\ slot = READ =>
            \E c \in Counters : Current.op = [name |-> "read", ctr |-> c]
  <2>1. PICK o : o = Recipe(Type(lng), slot)[j]
    OBVIOUS
  <2>2. /\ o \in Ops
        /\ o.name = "stop_global" => slot \in {SETUP, STOP}
        /\ o.name = "start_global" => slot = START
        /\ o.name = "enable_fixed" => slot = SETUP
        /\ o.name = "zero" =>
            /\ slot = SETUP /\ Type(lng) = FIXED /\ j > 1
            /\ \E c \in Counters : o = [name |-> "zero", ctr |-> c]
        /\ o.name = "read" => \E c \in Counters : o = [name |-> "read", ctr |-> c]
        /\ Type(lng) = FIXED /\ slot = READ =>
            \E c \in Counters : o = [name |-> "read", ctr |-> c]
    BY <1>1, <1>3, <2>1, RecipeNames, ZenonT(60)
  <2>3. Current.op = o
    BY <1>4, <2>1
  <2> QED
    BY <2>2, <2>3
<1>6. ASSUME NEW v \in Slots, NEW h \in 1 .. Len(Recipe(Type(lng), v)),
             v < slot \/ (v = slot /\ h < j), v \in SETUP .. STOP, Clean(Current.cpu)
      PROVE  \E m \in DOMAIN batches[lng][v] :
                /\ batches[lng][v][m].op = Recipe(Type(lng), v)[h]
                /\ batches[lng][v][m].cpu = Current.cpu
                /\ batches[lng][v][m].err = "none"
  <2>1. PICK m \in DOMAIN batches[lng][v] :
            /\ batches[lng][v][m].op = Recipe(Type(lng), v)[h]
            /\ batches[lng][v][m].cpu = Current.cpu
            /\ v = slot /\ h < j => m < next_op
    BY <1>1, <1>4, Companion
  <2>2. Past(lng, v, m)
    BY <1>6, <2>1 DEF Past
  <2> QED
    BY <1>1, <1>6, <2>1, <2>2 DEF Clean
<1>7. ASSUME Current.op.name = "zero", Clean(Current.cpu)
      PROVE  Stopped(Current.cpu)
  <2>1. slot = SETUP /\ Type(lng) = FIXED /\ j > 1 /\ 1 \in 1 .. Len(Recipe(FIXED, SETUP))
    BY <1>0, <1>5, <1>7, FixedRecipes
  <2>2. \E m \in DOMAIN batches[lng][SETUP] :
                /\ batches[lng][SETUP][m].op = Recipe(FIXED, SETUP)[1]
                /\ batches[lng][SETUP][m].cpu = Current.cpu
                /\ batches[lng][SETUP][m].err = "none"
    BY <1>6, <1>7, <2>1, SlotNumbers
  <2>3. Recipe(FIXED, SETUP)[1].name = "stop_global"
    BY FixedRecipes, PlainOps DEF OpNames
  <2> QED
    BY <1>1, <2>2, <2>3 DEF Stopped, Executed
<1>8. ASSUME Current.op.name = "start_global", Clean(Current.cpu)
      PROVE  /\ Enabled(Current.cpu)
             /\ \A c \in Counters : Zeroed(Current.cpu, c)
  <2>1. slot = START /\ Type(lng) = FIXED
    <3>1. slot = START
      BY <1>5, <1>8
    <3>2. Recipe("ALL_ALLOWED", START) = <<>> /\ Len(<<>>) = 0
      BY AllowedRecipes
    <3>3. Type(lng) # "ALL_ALLOWED"
      <4> SUFFICES ASSUME Type(lng) = "ALL_ALLOWED" PROVE FALSE
        OBVIOUS
      <4>1. Len(Recipe(Type(lng), slot)) = 0
        BY <3>1, <3>2
      <4> QED
        BY <1>4, <4>1
    <3> QED
      BY <1>3, <3>1, <3>3 DEF Types, FIXED
  <2>2. Len(Recipe(FIXED, SETUP)) = CounterCount + 2 /\ CounterCount + 2 \in Nat
    BY <1>0, FixedRecipes
  <2>3. ASSUME NEW h \in 1 .. CounterCount + 2
        PROVE  \E m \in DOMAIN batches[lng][SETUP] :
                /\ batches[lng][SETUP][m].op = Recipe(FIXED, SETUP)[h]
                /\ batches[lng][SETUP][m].cpu = Current.cpu
                /\ batches[lng][SETUP][m].err = "none"
    BY <1>6, <1>8, <2>1, <2>2, SlotNumbers
  <2>4. Enabled(Current.cpu)
    <3>1. CounterCount + 2 \in 1 .. CounterCount + 2
      BY <1>0
    <3>2. PICK m \in DOMAIN batches[lng][SETUP] :
                /\ batches[lng][SETUP][m].op = Recipe(FIXED, SETUP)[CounterCount + 2]
                /\ batches[lng][SETUP][m].cpu = Current.cpu
                /\ batches[lng][SETUP][m].err = "none"
      BY <2>3, <3>1
    <3>3. Recipe(FIXED, SETUP)[CounterCount + 2].name = "enable_fixed"
      BY FixedRecipes, PlainOps DEF OpNames
    <3> QED
      BY <1>1, <3>2, <3>3 DEF Enabled, Executed
  <2>5. ASSUME NEW c \in Counters PROVE Zeroed(Current.cpu, c)
    <3>1. c + 1 \in 1 .. CounterCount + 2
      BY <1>0 DEF Counters
    <3>2. PICK m \in DOMAIN batches[lng][SETUP] :
                /\ batches[lng][SETUP][m].op = Recipe(FIXED, SETUP)[c + 1]
                /\ batches[lng][SETUP][m].cpu = Current.cpu
                /\ batches[lng][SETUP][m].err = "none"
      BY <2>3, <3>1
    <3>3. Recipe(FIXED, SETUP)[c + 1] = [name |-> "zero", ctr |-> c]
      BY FixedRecipes
    <3> QED
      BY <1>1, <3>2, <3>3 DEF Zeroed
  <2> QED
    BY <2>4, <2>5
<1>9. ASSUME Fixed(lng), slot = READ, Clean(Current.cpu)
      PROVE  Started(Current.cpu) /\ Ended(Current.cpu)
  <2>1. Type(lng) = FIXED
    BY <1>9 DEF Fixed, Type, FIXED
  <2>2. /\ Recipe(FIXED, START) = <<Op("start_global")>>
        /\ Recipe(FIXED, STOP) = <<Op("stop_global")>>
    BY FixedRecipes
  <2>3. /\ 1 \in 1 .. Len(Recipe(FIXED, START)) /\ 1 \in 1 .. Len(Recipe(FIXED, STOP))
        /\ Recipe(FIXED, START)[1] = Op("start_global")
        /\ Recipe(FIXED, STOP)[1] = Op("stop_global")
    BY <2>2
  <2>4. Op("start_global").name = "start_global" /\ Op("stop_global").name = "stop_global"
    BY PlainOps DEF OpNames
  <2>5. \E m \in DOMAIN batches[lng][START] :
                /\ batches[lng][START][m].op = Recipe(FIXED, START)[1]
                /\ batches[lng][START][m].cpu = Current.cpu
                /\ batches[lng][START][m].err = "none"
    BY <1>6, <1>9, <2>1, <2>3, SlotNumbers
  <2>6. \E m \in DOMAIN batches[lng][STOP] :
                /\ batches[lng][STOP][m].op = Recipe(FIXED, STOP)[1]
                /\ batches[lng][STOP][m].cpu = Current.cpu
                /\ batches[lng][STOP][m].err = "none"
    BY <1>6, <1>9, <2>1, <2>3, SlotNumbers
  <2>7. Started(Current.cpu)
    BY <1>1, <2>3, <2>4, <2>5 DEF Started, Executed
  <2>8. Ended(Current.cpu)
    BY <1>1, <2>3, <2>4, <2>6 DEF Ended, Executed
  <2> QED
    BY <2>7, <2>8
<1>10. Current.op.name \in OpNames
  BY <1>5 DEF Ops
<1> QED
  BY <1>5, <1>7, <1>8, <1>9, <1>10 DEF Fixed, Type, FIXED

\* No cpu is started before slot START, and none is stopped again before STOP.
LEMMA SlotsInOrder ==
    ASSUME IInv, NEW cpu
    PROVE  (Started(cpu) => slot >= START) /\ (Ended(cpu) => slot >= STOP)
<1> USE DEF IInv
<1>1. ASSUME NEW s \in Slots, NEW name, Executed(s, name, cpu)
      PROVE  s <= slot
  <2>1. PICK i \in DOMAIN batches : \E k \in DOMAIN batches[i][s] :
            batches[i][s][k].err = "none"
    BY <1>1 DEF Executed
  <2>2. PICK k \in DOMAIN batches[i][s] : batches[i][s][k].err = "none"
    BY <2>1
  <2>3. Past(i, s, k)
    BY <2>2 DEF Progress
  <2> QED
    BY <2>3, SlotNumbers DEF Past, TypeOK
<1>2. START \in Slots /\ STOP \in Slots
  BY SlotNumbers
<1>3. slot \in Nat
  BY SlotNumbers DEF TypeOK
<1> QED
  BY <1>1, <1>2, <1>3, SlotNumbers DEF Started, Ended

LEMMA DriverTypes ==
    ASSUME IInv, AtAnOp, NEW e \in Entry, e.op = Current.op, e.cpu = Current.cpu,
           e.err # "unused", e.err # "none" => faults' # 0,
           batches' = [batches EXCEPT ![lng][slot][next_op] = e],
           next_op' = next_op + 1, faults' \in {faults, faults + 1}, faults' <= MaxFaults,
           UNCHANGED <<longitudinals, looked_at, ops_per_function_per_slot, slot, lng,
                       work, window>>,
           PERF_GLOBAL_CTRL' \in [Cpus -> BOOLEAN],
           FIXED_CTR_CTRL' \in [Cpus -> BOOLEAN],
           FIXED_CTR' \in [Cpus -> [Counters -> Nat]]
    PROVE  TypeOK' /\ Prepared' /\ Laid' /\ Progress'
<1> USE DEF IInv
<1>1. /\ lng \in DOMAIN batches /\ slot \in Slots
      /\ next_op \in DOMAIN batches[lng][slot] /\ next_op \in Nat \ {0}
      /\ next_op <= Len(batches[lng][slot]) /\ Len(batches[lng][slot]) \in Nat
      /\ ~Past(lng, slot, next_op)
  BY CurrentIs
<1>2. /\ DOMAIN batches' = DOMAIN batches /\ Laid'
      /\ \A i \in DOMAIN batches : batches'[i] \in [Slots -> Batch]
      /\ \A i \in DOMAIN batches, s \in Slots :
            /\ DOMAIN batches'[i][s] = DOMAIN batches[i][s]
            /\ \A k \in DOMAIN batches[i][s] :
                /\ batches'[i][s][k] =
                    IF i = lng /\ s = slot /\ k = next_op THEN e ELSE batches[i][s][k]
                /\ Past(i, s, k)' <=> Past(i, s, k)
                        \/ (i = lng /\ s = slot /\ k = next_op)
  <2>1. longitudinals' = longitudinals /\ slot' = slot /\ lng' = lng
    OBVIOUS
  <2> QED
    BY <2>1, OneEntry, ZenonT(60)
<1>3. faults \in 0 .. MaxFaults /\ MaxFaults \in Nat
  BY LongitudinalAssumption DEF TypeOK
<1>4. TypeOK'
  <2>1. next_op' \in Nat \ {0} /\ faults' \in 0 .. MaxFaults
    BY <1>1, <1>3
  <2> QED
    BY <1>2, <2>1 DEF TypeOK
<1>5. Prepared'
  <2>1. batches'[lng][slot] \in Batch /\ batches[lng][slot] \in Batch
    <3>1. batches[lng] \in [Slots -> Batch]
      BY <1>1 DEF TypeOK
    <3>2. batches'[lng] \in [Slots -> Batch]
      BY <1>1, <1>2
    <3> QED
      BY <1>1, <3>1, <3>2
  <2>2. Len(batches'[lng][slot]) = Len(batches[lng][slot])
    <3>1. DOMAIN batches'[lng][slot] = DOMAIN batches[lng][slot]
      BY <1>1, <1>2
    <3> QED
      BY <2>1, <3>1 DEF Batch
  <2>3. next_op' <= Len(batches'[lng][slot]) + 1
    BY <1>1, <2>2
  <2>4. Ready /\ Ready'
    BY <1>2 DEF AtAnOp, Ready
  <2> QED
    BY <1>2, <2>3, <2>4 DEF Prepared
<1>6. Progress'
  <2> SUFFICES ASSUME NEW i \in DOMAIN batches, NEW s \in Slots,
                      NEW k \in DOMAIN batches[i][s]
               PROVE  /\ batches'[i][s][k].err # "unused" => Past(i, s, k)'
                      /\ Past(i, s, k)' /\ faults' = 0 => batches'[i][s][k].err = "none"
    BY <1>2 DEF Progress
  <2>1. faults' = 0 => faults = 0
    BY <1>3
  <2>2. CASE i = lng /\ s = slot /\ k = next_op
    BY <1>2, <2>2
  <2>3. CASE ~ (i = lng /\ s = slot /\ k = next_op)
    BY <1>2, <2>1, <2>3 DEF Progress
  <2> QED
    BY <2>2, <2>3
<1> QED
  BY <1>2, <1>4, <1>5, <1>6

LEMMA ExecuteOpStep == ASSUME IInv, ExecuteOp PROVE IInv'
<1> USE DEF IInv
<1> DEFINE c == Current.cpu
           o == Current.op
           e == [Current EXCEPT !.err = "none", !.msrdata = ReadBy(o, c)]
<1>1. /\ AtAnOp /\ Writes(o, c) /\ next_op' = next_op + 1
      /\ UNCHANGED <<longitudinals, looked_at, ops_per_function_per_slot, slot,
                   lng, work, window, faults>>
  BY DEF ExecuteOp
<1>2. /\ lng \in DOMAIN batches /\ slot \in Slots
      /\ next_op \in DOMAIN batches[lng][slot]
      /\ Current \in Entry /\ Current.err = "unused" /\ ~Past(lng, slot, next_op)
      /\ slot \in Nat /\ lng \in Nat
  BY <1>1, CurrentIs
<1>3. c \in Cpus /\ o \in Ops
  BY <1>2 DEF Entry
<1>4. /\ o.name = "stop_global" => slot \in {SETUP, STOP}
      /\ o.name = "start_global" => slot = START
      /\ o.name = "enable_fixed" => slot = SETUP
      /\ o.name = "zero" =>
            /\ slot = SETUP
            /\ \E n \in Counters : o = [name |-> "zero", ctr |-> n]
            /\ Clean(c) => Stopped(c)
      /\ o.name = "start_global" /\ Clean(c) =>
            Enabled(c) /\ \A n \in Counters : Zeroed(c, n)
      /\ Fixed(lng) /\ slot = READ =>
            /\ \E n \in Counters : o = [name |-> "read", ctr |-> n]
            /\ Clean(c) => Started(c) /\ Ended(c)
      /\ o.name = "read" => \E n \in Counters : o = [name |-> "read", ctr |-> n]
      /\ o.name \in OpNames
  BY <1>1, OpAtHand
<1>5. ReadBy(o, c) \in Nat
  <2>1. CASE o.name # "read"
    BY <2>1 DEF ReadBy
  <2>2. CASE o.name = "read"
    <3>1. PICK n \in Counters : o = [name |-> "read", ctr |-> n]
      BY <1>4, <2>2
    <3>2. o.ctr = n
      BY <3>1
    <3>3. FIXED_CTR[c][n] \in Nat
      BY <1>3 DEF TypeOK
    <3> QED
      BY <2>2, <3>2, <3>3 DEF ReadBy
  <2> QED
    BY <2>1, <2>2
<1>6. e \in Entry /\ e.op = o /\ e.cpu = c /\ e.err = "none" /\ e.msrdata = ReadBy(o, c)
  BY <1>2, <1>5 DEF Entry
<1>7. batches' = [batches EXCEPT ![lng][slot][next_op] = e]
  BY DEF ExecuteOp, Current
<1> HIDE DEF e
<1>8. /\ PERF_GLOBAL_CTRL \in [Cpus -> BOOLEAN] /\ FIXED_CTR_CTRL \in [Cpus -> BOOLEAN]
      /\ FIXED_CTR \in [Cpus -> [Counters -> Nat]] /\ window \in [Cpus -> 0 .. MaxWork]
      /\ MaxWork \in Nat /\ faults \in 0 .. MaxFaults /\ MaxFaults \in Nat
  BY LongitudinalAssumption DEF TypeOK
<1>9. /\ PERF_GLOBAL_CTRL' \in [Cpus -> BOOLEAN]
      /\ PERF_GLOBAL_CTRL'[c] = IF o.name = "start_global" THEN TRUE
            ELSE IF o.name = "stop_global" THEN FALSE ELSE PERF_GLOBAL_CTRL[c]
      /\ \A d \in Cpus : d # c => PERF_GLOBAL_CTRL'[d] = PERF_GLOBAL_CTRL[d]
  <2>1. PERF_GLOBAL_CTRL' =
            IF o.name \in {"start_global", "stop_global"}
            THEN [PERF_GLOBAL_CTRL EXCEPT ![c] = (o.name = "start_global")]
            ELSE PERF_GLOBAL_CTRL
    BY <1>1 DEF Writes
  <2> HIDE DEF c, o
  <2>2. CASE o.name = "start_global"
    <3>1. PERF_GLOBAL_CTRL' = [PERF_GLOBAL_CTRL EXCEPT ![c] = TRUE]
      BY <2>1, <2>2
    <3> QED
      BY <1>3, <1>8, <2>2, <3>1
  <2>3. CASE o.name = "stop_global"
    <3>1. PERF_GLOBAL_CTRL' = [PERF_GLOBAL_CTRL EXCEPT ![c] = FALSE]
      BY <2>1, <2>3
    <3> QED
      BY <1>3, <1>8, <2>3, <3>1
  <2>4. CASE o.name \notin {"start_global", "stop_global"}
    BY <1>3, <1>8, <2>1, <2>4
  <2> QED
    BY <2>2, <2>3, <2>4
<1>10. /\ FIXED_CTR_CTRL' \in [Cpus -> BOOLEAN]
       /\ o.name = "enable_fixed" => FIXED_CTR_CTRL'[c]
       /\ \A d \in Cpus : FIXED_CTR_CTRL[d] => FIXED_CTR_CTRL'[d]
  <2>1. FIXED_CTR_CTRL' =
            IF o.name = "enable_fixed" THEN [FIXED_CTR_CTRL EXCEPT ![c] = TRUE]
            ELSE FIXED_CTR_CTRL
    BY <1>1 DEF Writes
  <2> HIDE DEF c, o
  <2> QED
    BY <1>3, <1>8, <2>1
<1>11. /\ FIXED_CTR' \in [Cpus -> [Counters -> Nat]]
       /\ \A d \in Cpus, n \in Counters :
            /\ d = c /\ o = [name |-> "zero", ctr |-> n] => FIXED_CTR'[d][n] = 0
            /\ FIXED_CTR'[d][n] # 0 => FIXED_CTR'[d][n] = FIXED_CTR[d][n]
            /\ d # c \/ o.name # "zero" => FIXED_CTR'[d][n] = FIXED_CTR[d][n]
  <2>1. FIXED_CTR' =
            IF o.name = "zero" THEN [FIXED_CTR EXCEPT ![c][o.ctr] = 0] ELSE FIXED_CTR
    BY <1>1 DEF Writes
  <2>2. CASE o.name = "zero"
    <3>1. PICK n \in Counters : o = [name |-> "zero", ctr |-> n]
      BY <1>4, <2>2
    <3>2. o.ctr = n
      BY <3>1
    <3>3. FIXED_CTR' = [FIXED_CTR EXCEPT ![c] = [FIXED_CTR[c] EXCEPT ![n] = 0]]
      BY <2>1, <2>2, <3>2
    <3>4. \A m \in Counters : o = [name |-> "zero", ctr |-> m] => m = n
      <4>1. \A m \in Counters : [name |-> "zero", ctr |-> m].ctr = m
        OBVIOUS
      <4> QED
        BY <3>2, <4>1
    <3> HIDE DEF c, o
    <3>5. [FIXED_CTR[c] EXCEPT ![n] = 0] \in [Counters -> Nat]
      BY <1>3, <1>8
    <3> QED
      BY <1>3, <1>8, <2>2, <3>3, <3>4, <3>5
  <2>3. CASE o.name # "zero"
    <3>1. \A n \in Counters : o # [name |-> "zero", ctr |-> n]
      <4>1. \A n \in Counters : [name |-> "zero", ctr |-> n].name = "zero"
        OBVIOUS
      <4> QED
        BY <2>3, <4>1
    <3> QED
      BY <1>8, <2>1, <2>3, <3>1
  <2> QED
    BY <2>2, <2>3
<1>12. TypeOK' /\ Prepared' /\ Laid' /\ Progress'
  <2>1. /\ e.err # "unused" /\ (e.err # "none" => faults' # 0)
        /\ faults' \in {faults, faults + 1} /\ faults' <= MaxFaults
    BY <1>1, <1>6, <1>8
  <2> QED
    BY <1>1, <1>6, <1>7, <1>9, <1>10, <1>11, <2>1, DriverTypes
<1>13. longitudinals' = longitudinals /\ slot' = slot /\ lng' = lng /\ window' = window
       /\ work' = work
  BY <1>1
<1>14. \A d \in Cpus :
        /\ \A s \in Slots, name \in OpNames : Executed(s, name, d)' <=>
                Executed(s, name, d) \/ (s = slot /\ o.name = name /\ c = d)
        /\ \A n \in Counters : Zeroed(d, n)' <=>
                \/ Zeroed(d, n)
                \/ slot = SETUP /\ c = d /\ o = [name |-> "zero", ctr |-> n]
        /\ Clean(d)' => Clean(d)
  BY <1>1, <1>6, <1>7, <1>13, ExecutedNow, CleanBefore
<1>15. \A d \in Cpus :
        /\ Started(d)' <=> Started(d) \/ (slot = START /\ o.name = "start_global" /\ c = d)
        /\ Ended(d)' <=> Ended(d) \/ (slot = STOP /\ o.name = "stop_global" /\ c = d)
        /\ Stopped(d)' <=> Stopped(d) \/ (slot = SETUP /\ o.name = "stop_global" /\ c = d)
        /\ Enabled(d)' <=> Enabled(d) \/ (slot = SETUP /\ o.name = "enable_fixed" /\ c = d)
  <2>1. {"start_global", "stop_global", "enable_fixed"} \subseteq OpNames
    BY DEF OpNames
  <2> QED
    BY <1>14, <2>1, SlotNumbers DEF Started, Ended, Stopped, Enabled
<1>16. \A d \in Cpus : (Started(d) => slot >= START) /\ (Ended(d) => slot >= STOP)
  BY SlotsInOrder
<1> HIDE DEF c, o
<1>17. ASSUME NEW d \in Cpus
       PROVE  /\ window[d] <= work[d]
              /\ ~Started(d)' => window[d] = 0
              /\ Stopped(d)' /\ ~Started(d)' => ~PERF_GLOBAL_CTRL'[d]
              /\ Enabled(d)' => FIXED_CTR_CTRL'[d]
              /\ Clean(d)' /\ ~Started(d)' => \A n \in Counters : Zeroed(d, n)' =>
                    Stopped(d)' /\ FIXED_CTR'[d][n] = 0
              /\ Clean(d)' /\ Started(d)' =>
                    /\ FIXED_CTR_CTRL'[d]
                    /\ PERF_GLOBAL_CTRL'[d] <=> ~Ended(d)'
                    /\ \A n \in Counters : FIXED_CTR'[d][n] = window[d]
  <2>1. /\ window[d] <= work[d]
        /\ ~Started(d) => window[d] = 0
        /\ Stopped(d) /\ ~Started(d) => ~PERF_GLOBAL_CTRL[d]
        /\ Enabled(d) => FIXED_CTR_CTRL[d]
        /\ Clean(d) /\ ~Started(d) => \A n \in Counters : Zeroed(d, n) =>
                Stopped(d) /\ FIXED_CTR[d][n] = 0
        /\ Clean(d) /\ Started(d) =>
                /\ FIXED_CTR_CTRL[d]
                /\ PERF_GLOBAL_CTRL[d] <=> ~Ended(d)
                /\ \A n \in Counters : FIXED_CTR[d][n] = window[d]
    BY DEF Registers
  <2>2. Enabled(d)' => FIXED_CTR_CTRL'[d]
    BY <1>10, <1>15, <2>1
  <2>3. ~Started(d)' => window[d] = 0
    BY <1>15, <2>1
  <2>4. Stopped(d)' /\ ~Started(d)' => ~PERF_GLOBAL_CTRL'[d]
    BY <1>4, <1>9, <1>15, <2>1
  <2>5. ASSUME Clean(d)', ~Started(d)', NEW n \in Counters, Zeroed(d, n)'
        PROVE  Stopped(d)' /\ FIXED_CTR'[d][n] = 0
    <3>1. Clean(d) /\ ~Started(d)
      BY <1>14, <1>15, <2>5
    <3>2. CASE Zeroed(d, n)
      BY <1>11, <1>15, <2>1, <3>1, <3>2
    <3>3. CASE c = d /\ o = [name |-> "zero", ctr |-> n]
      <4>1. o.name = "zero"
        BY <3>3
      <4> QED
        BY <1>4, <1>11, <1>15, <3>1, <3>3, <4>1
    <3> QED
      BY <1>14, <2>5, <3>2, <3>3
  <2>6. ASSUME Clean(d)', Started(d)'
        PROVE  /\ FIXED_CTR_CTRL'[d]
               /\ PERF_GLOBAL_CTRL'[d] <=> ~Ended(d)'
               /\ \A n \in Counters : FIXED_CTR'[d][n] = window[d]
    <3>1. Clean(d)
      BY <1>14, <2>6
    <3>2. CASE Started(d)
      <4>1. slot >= START
        BY <1>16, <3>2
      <4>2. o.name \notin {"zero", "enable_fixed"}
        BY <1>4, <4>1, SlotNumbers
      <4>3. \A n \in Counters : FIXED_CTR'[d][n] = window[d]
        BY <1>11, <2>1, <3>1, <3>2, <4>2
      <4>4. FIXED_CTR_CTRL'[d]
        BY <1>10, <2>1, <3>1, <3>2
      <4>5. PERF_GLOBAL_CTRL'[d] <=> ~Ended(d)'
        <5>1. CASE d # c
          BY <1>9, <1>15, <2>1, <3>1, <3>2, <5>1
        <5>2. CASE d = c /\ o.name = "start_global"
          <6>1. slot = START /\ ~Ended(d)
            BY <1>4, <1>16, <5>2, SlotNumbers
          <6> QED
            BY <1>9, <1>15, <5>2, <6>1, SlotNumbers
        <5>3. CASE d = c /\ o.name = "stop_global"
          <6>1. slot = STOP
            BY <1>4, <4>1, <5>3, SlotNumbers
          <6> QED
            BY <1>9, <1>15, <5>3, <6>1
        <5>4. CASE d = c /\ o.name \notin {"start_global", "stop_global"}
          BY <1>9, <1>15, <2>1, <3>1, <3>2, <5>4
        <5> QED
          BY <5>1, <5>2, <5>3, <5>4
      <4> QED
        BY <4>3, <4>4, <4>5
    <3>3. CASE ~Started(d)
      <4>1. slot = START /\ o.name = "start_global" /\ c = d
        BY <1>15, <2>6, <3>3
      <4>2. Enabled(d) /\ \A n \in Counters : Zeroed(d, n)
        BY <1>4, <3>1, <4>1
      <4>3. ~Ended(d) /\ ~Ended(d)'
        BY <1>15, <1>16, <4>1, SlotNumbers
      <4>4. PERF_GLOBAL_CTRL'[d]
        BY <1>9, <4>1
      <4>5. FIXED_CTR_CTRL'[d]
        BY <1>10, <2>1, <4>2
      <4>6. \A n \in Counters : FIXED_CTR'[d][n] = window[d]
        BY <1>11, <2>1, <3>1, <3>3, <4>1, <4>2
      <4> QED
        BY <4>3, <4>4, <4>5, <4>6
    <3> QED
      BY <3>2, <3>3
  <2> QED
    BY <2>1, <2>2, <2>3, <2>4, <2>5, <2>6
<1>18. Registers'
  BY <1>13, <1>17 DEF Registers
<1>19. ReadOut'
  <2>1. /\ DOMAIN batches' = DOMAIN batches
        /\ \A i \in DOMAIN batches, s \in Slots :
            /\ DOMAIN batches'[i][s] = DOMAIN batches[i][s]
            /\ \A k \in DOMAIN batches[i][s] :
                batches'[i][s][k] =
                    IF i = lng /\ s = slot /\ k = next_op THEN e ELSE batches[i][s][k]
    BY <1>1, <1>6, <1>7, <1>13, OneEntry, ZenonT(60) DEF c, o
  <2> SUFFICES ASSUME NEW d \in Cpus, Clean(d)',
                      NEW i \in DOMAIN batches, Fixed(i), NEW k \in DOMAIN batches[i][READ],
                      batches'[i][READ][k].err = "none", batches'[i][READ][k].cpu = d
               PROVE  Started(d)' /\ Ended(d)' /\ batches'[i][READ][k].msrdata = window[d]
    BY <1>13, <2>1, SlotNumbers DEF ReadOut, Fixed
  <2>2. READ \in Slots /\ Clean(d)
    BY <1>14, SlotNumbers
  <2>3. CASE i = lng /\ READ = slot /\ k = next_op
    <3>1. batches'[i][READ][k] = e
      BY <2>1, <2>2, <2>3
    <3>2. c = d
      BY <1>6, <3>1
    <3>3. PICK n \in Counters : o = [name |-> "read", ctr |-> n]
      BY <1>4, <2>3
    <3>4. Started(d) /\ Ended(d)
      BY <1>4, <2>2, <2>3, <3>2
    <3>5. FIXED_CTR[d][n] = window[d]
      BY <2>2, <3>4 DEF Registers
    <3>6. o.name = "read" /\ o.ctr = n
      BY <3>3
    <3>7. e.msrdata = FIXED_CTR[d][n]
      BY <1>6, <3>2, <3>6 DEF ReadBy
    <3> QED
      BY <1>15, <3>1, <3>4, <3>5, <3>7
  <2>4. CASE ~ (i = lng /\ READ = slot /\ k = next_op)
    <3>1. batches'[i][READ][k] = batches[i][READ][k]
      BY <2>1, <2>2, <2>4
    <3>2. Started(d) /\ Ended(d) /\ batches[i][READ][k].msrdata = window[d]
      BY <2>2, <3>1 DEF ReadOut
    <3> QED
      BY <1>15, <3>1, <3>2
  <2> QED
    BY <2>3, <2>4
<1> QED
  BY <1>12, <1>18, <1>19

LEMMA OpFailsStep == ASSUME IInv, OpFails PROVE IInv'
<1> USE DEF IInv
<1> DEFINE e == [Current EXCEPT !.err = "failed"]
<1>1. /\ AtAnOp /\ next_op' = next_op + 1 /\ faults < MaxFaults /\ faults' = faults + 1
      /\ UNCHANGED <<longitudinals, looked_at, ops_per_function_per_slot, slot, lng,
                   PERF_GLOBAL_CTRL, FIXED_CTR_CTRL, FIXED_CTR, work, window>>
  BY DEF OpFails
<1>2. /\ lng \in DOMAIN batches /\ slot \in Slots
      /\ next_op \in DOMAIN batches[lng][slot]
      /\ Current \in Entry /\ Current.err = "unused" /\ ~Past(lng, slot, next_op)
  BY <1>1, CurrentIs
<1>3. /\ e \in Entry /\ e.op = Current.op /\ e.cpu = Current.cpu /\ e.err = "failed"
      /\ e.msrdata = Current.msrdata
  BY <1>2 DEF Entry
<1>4. batches' = [batches EXCEPT ![lng][slot][next_op] = e]
  BY DEF OpFails, Current
<1> HIDE DEF e
<1>5. /\ faults \in 0 .. MaxFaults /\ MaxFaults \in Nat
      /\ PERF_GLOBAL_CTRL' \in [Cpus -> BOOLEAN] /\ FIXED_CTR_CTRL' \in [Cpus -> BOOLEAN]
      /\ FIXED_CTR' \in [Cpus -> [Counters -> Nat]]
  BY <1>1, LongitudinalAssumption DEF TypeOK
<1>6. TypeOK' /\ Prepared' /\ Laid' /\ Progress'
  <2>1. /\ e.err # "unused" /\ (e.err # "none" => faults' # 0)
        /\ faults' \in {faults, faults + 1} /\ faults' <= MaxFaults
    BY <1>1, <1>3, <1>5
  <2> QED
    BY <1>1, <1>3, <1>4, <1>5, <2>1, DriverTypes
<1>7. longitudinals' = longitudinals /\ slot' = slot /\ lng' = lng /\ window' = window
      /\ work' = work /\ PERF_GLOBAL_CTRL' = PERF_GLOBAL_CTRL
      /\ FIXED_CTR_CTRL' = FIXED_CTR_CTRL /\ FIXED_CTR' = FIXED_CTR
  BY <1>1
<1>8. \A d \in Cpus :
        /\ \A s \in Slots, name \in OpNames : Executed(s, name, d)' <=> Executed(s, name, d)
        /\ \A n \in Counters : Zeroed(d, n)' <=> Zeroed(d, n)
        /\ Clean(d)' => Clean(d)
  BY <1>1, <1>3, <1>4, <1>7, ExecutedNow, CleanBefore
<1>9. \A d \in Cpus :
        /\ Started(d)' <=> Started(d)
        /\ Ended(d)' <=> Ended(d)
        /\ Stopped(d)' <=> Stopped(d)
        /\ Enabled(d)' <=> Enabled(d)
  <2>1. {"start_global", "stop_global", "enable_fixed"} \subseteq OpNames
    BY DEF OpNames
  <2> QED
    BY <1>8, <2>1, SlotNumbers DEF Started, Ended, Stopped, Enabled
<1>10. Registers'
  BY <1>7, <1>8, <1>9 DEF Registers
<1>11. ReadOut'
  <2>1. /\ DOMAIN batches' = DOMAIN batches
        /\ \A i \in DOMAIN batches, s \in Slots :
            /\ DOMAIN batches'[i][s] = DOMAIN batches[i][s]
            /\ \A k \in DOMAIN batches[i][s] :
                batches'[i][s][k] =
                    IF i = lng /\ s = slot /\ k = next_op THEN e ELSE batches[i][s][k]
    BY <1>1, <1>3, <1>4, <1>7, OneEntry
  <2>2. READ \in Slots /\ \A i : Fixed(i)' <=> Fixed(i)
    BY <1>7, SlotNumbers DEF Fixed
  <2>3. \A i \in DOMAIN batches : \A k \in DOMAIN batches[i][READ] :
            batches'[i][READ][k].err = "none" => batches'[i][READ][k] = batches[i][READ][k]
    BY <1>3, <2>1, <2>2
  <2> QED
    BY <1>7, <1>8, <1>9, <2>1, <2>2, <2>3 DEF ReadOut
<1> QED
  BY <1>6, <1>10, <1>11

-----------------------------------------------------------------------------
(* A cpu retires an instruction.                                           *)

LEMMA WorkStep == ASSUME IInv, NEW cpu \in Cpus, Work(cpu) PROVE IInv'
<1> USE DEF IInv
<1>1. /\ work[cpu] < MaxWork /\ work' = [work EXCEPT ![cpu] = @ + 1]
      /\ FIXED_CTR' = IF PERF_GLOBAL_CTRL[cpu] /\ FIXED_CTR_CTRL[cpu]
                    THEN [FIXED_CTR EXCEPT
                            ![cpu] = [n \in Counters |-> FIXED_CTR[cpu][n] + 1]]
                    ELSE FIXED_CTR
      /\ window' = IF Started(cpu) /\ ~Ended(cpu)
                   THEN [window EXCEPT ![cpu] = @ + 1] ELSE window
      /\ UNCHANGED <<longitudinals, setupVars, runVars, PERF_GLOBAL_CTRL,
                   FIXED_CTR_CTRL, faults>>
  BY DEF Work, InWindow, Started, Ended
<1>2. /\ FIXED_CTR \in [Cpus -> [Counters -> Nat]] /\ window \in [Cpus -> 0 .. MaxWork]
      /\ work \in [Cpus -> 0 .. MaxWork] /\ MaxWork \in Nat
      /\ \A d \in Cpus : window[d] <= work[d]
  BY LongitudinalAssumption DEF TypeOK, Registers
<1>3. /\ work' \in [Cpus -> 0 .. MaxWork] /\ work'[cpu] = work[cpu] + 1
      /\ \A d \in Cpus : d # cpu => work'[d] = work[d]
  BY <1>1, <1>2
<1>4. /\ window' \in [Cpus -> 0 .. MaxWork]
      /\ window'[cpu] = IF Started(cpu) /\ ~Ended(cpu) THEN window[cpu] + 1 ELSE window[cpu]
      /\ \A d \in Cpus : d # cpu => window'[d] = window[d]
  <2>1. CASE Started(cpu) /\ ~Ended(cpu)
    <3>1. window' = [window EXCEPT ![cpu] = @ + 1]
      BY <1>1, <2>1
    <3>2. window[cpu] + 1 \in 0 .. MaxWork
      BY <1>1, <1>2
    <3> QED
      BY <1>2, <2>1, <3>1, <3>2
  <2>2. CASE ~ (Started(cpu) /\ ~Ended(cpu))
    BY <1>1, <1>2, <2>2
  <2> QED
    BY <2>1, <2>2
<1>5. /\ FIXED_CTR' \in [Cpus -> [Counters -> Nat]]
      /\ \A n \in Counters : FIXED_CTR'[cpu][n] =
            IF PERF_GLOBAL_CTRL[cpu] /\ FIXED_CTR_CTRL[cpu] THEN FIXED_CTR[cpu][n] + 1
            ELSE FIXED_CTR[cpu][n]
      /\ \A d \in Cpus : d # cpu => FIXED_CTR'[d] = FIXED_CTR[d]
  <2>1. CASE PERF_GLOBAL_CTRL[cpu] /\ FIXED_CTR_CTRL[cpu]
    <3>1. FIXED_CTR' = [FIXED_CTR EXCEPT
                            ![cpu] = [n \in Counters |-> FIXED_CTR[cpu][n] + 1]]
      BY <1>1, <2>1
    <3>2. [n \in Counters |-> FIXED_CTR[cpu][n] + 1] \in [Counters -> Nat]
      BY <1>2
    <3> QED
      BY <1>2, <2>1, <3>1, <3>2
  <2>2. CASE ~ (PERF_GLOBAL_CTRL[cpu] /\ FIXED_CTR_CTRL[cpu])
    BY <1>1, <1>2, <2>2
  <2> QED
    BY <2>1, <2>2
<1>6. /\ longitudinals' = longitudinals /\ batches' = batches /\ slot' = slot
      /\ lng' = lng /\ next_op' = next_op /\ PERF_GLOBAL_CTRL' = PERF_GLOBAL_CTRL
      /\ FIXED_CTR_CTRL' = FIXED_CTR_CTRL /\ faults' = faults
  BY <1>1 DEF setupVars, runVars
<1>7. TypeOK'
  BY <1>1, <1>3, <1>4, <1>5 DEF TypeOK, setupVars, runVars
<1>8. Prepared' /\ Laid' /\ Progress'
  BY <1>1 DEF Prepared, Ready, Laid, Type, Ncpu, Progress, Past, setupVars, runVars
<1>9. \A d \in Cpus :
        /\ Started(d)' <=> Started(d)
        /\ Ended(d)' <=> Ended(d)
        /\ Stopped(d)' <=> Stopped(d)
        /\ Enabled(d)' <=> Enabled(d)
        /\ \A n \in Counters : Zeroed(d, n)' <=> Zeroed(d, n)
  BY <1>6 DEF Started, Stopped, Enabled, Ended, Executed, Zeroed
<1>10. \A d \in Cpus : Clean(d)' <=> Clean(d)
  BY <1>6 DEF Clean, Past
<1>11. Registers'
  <2> SUFFICES ASSUME NEW d \in Cpus
               PROVE  /\ window'[d] <= work'[d]
                      /\ ~Started(d) => window'[d] = 0
                      /\ Stopped(d) /\ ~Started(d) => ~PERF_GLOBAL_CTRL[d]
                      /\ Enabled(d) => FIXED_CTR_CTRL[d]
                      /\ Clean(d) /\ ~Started(d) => \A n \in Counters : Zeroed(d, n) =>
                            Stopped(d) /\ FIXED_CTR'[d][n] = 0
                      /\ Clean(d) /\ Started(d) =>
                            /\ FIXED_CTR_CTRL[d]
                            /\ PERF_GLOBAL_CTRL[d] <=> ~Ended(d)
                            /\ \A n \in Counters : FIXED_CTR'[d][n] = window'[d]
    BY <1>6, <1>9, <1>10 DEF Registers
  <2>1. /\ ~Started(d) => window[d] = 0
        /\ Stopped(d) /\ ~Started(d) => ~PERF_GLOBAL_CTRL[d]
        /\ Enabled(d) => FIXED_CTR_CTRL[d]
        /\ Clean(d) /\ ~Started(d) => \A n \in Counters : Zeroed(d, n) =>
                Stopped(d) /\ FIXED_CTR[d][n] = 0
        /\ Clean(d) /\ Started(d) =>
                /\ FIXED_CTR_CTRL[d]
                /\ PERF_GLOBAL_CTRL[d] <=> ~Ended(d)
                /\ \A n \in Counters : FIXED_CTR[d][n] = window[d]
    BY DEF Registers
  <2>2. window'[d] <= work'[d]
    BY <1>2, <1>3, <1>4
  <2>3. CASE d # cpu
    BY <1>4, <1>5, <2>1, <2>2, <2>3
  <2>4. CASE d = cpu
    BY <1>4, <1>5, <2>1, <2>2, <2>4
  <2> QED
    BY <2>3, <2>4
<1>12. ReadOut'
  <2> SUFFICES ASSUME NEW d \in Cpus, Clean(d), NEW i \in DOMAIN batches, Fixed(i),
                      NEW k \in DOMAIN batches[i][READ],
                      batches[i][READ][k].err = "none", batches[i][READ][k].cpu = d
               PROVE  Started(d)' /\ Ended(d)' /\ batches[i][READ][k].msrdata = window'[d]
    BY <1>6, <1>10 DEF ReadOut, Fixed
  <2>1. Started(d) /\ Ended(d) /\ batches[i][READ][k].msrdata = window[d]
    BY DEF ReadOut
  <2> QED
    BY <1>4, <1>9, <2>1
<1> QED
  BY <1>7, <1>8, <1>11, <1>12

LEMMA StutterStep == ASSUME IInv, UNCHANGED vars PROVE IInv'
<1> USE DEF IInv, vars, setupVars, runVars, hardware
<1>1. TypeOK' /\ Prepared' /\ Progress'
  BY DEF TypeOK, Prepared, Ready, Progress, Past
<1>2. Laid' /\ Registers' /\ ReadOut'
  BY QuietStep DEF Past
<1> QED
  BY <1>1, <1>2

-----------------------------------------------------------------------------
(* The theorems.                                                           *)

\* The inductive invariant: what the batches hold stays as it was laid out, an op
\* is marked only when the driver has been at it, and the counters of a cpu whose
\* ops succeeded stand still until its START and follow the window from then on.
THEOREM Invariance == Spec => []IInv
<1>1. Init => IInv
  BY InitIInv
<1>2. IInv /\ [Next]_vars => IInv'
  <2> SUFFICES ASSUME IInv, [Next]_vars PROVE IInv'
    OBVIOUS
  <2>1. CASE CountOps
    BY <2>1, CountOpsStep
  <2>2. CASE MakeBatches
    BY <2>2, MakeBatchesStep
  <2>3. CASE ExecuteOp
    BY <2>3, ExecuteOpStep
  <2>4. CASE OpFails
    BY <2>4, OpFailsStep
  <2>5. CASE BatchRefused
    BY <2>5, BatchRefusedStep
  <2>6. CASE NextLongitudinal
    BY <2>6, NextLongitudinalStep
  <2>7. CASE NextSlot
    BY <2>7, NextSlotStep
  <2>8. CASE \E cpu \in Cpus : Work(cpu)
    BY <2>8, WorkStep
  <2>9. CASE Finished \/ UNCHANGED vars
    BY <2>9, StutterStep DEF Finished
  <2> QED
    BY <2>1, <2>2, <2>3, <2>4, <2>5, <2>6, <2>7, <2>8, <2>9 DEF Next
<1> QED
  BY <1>1, <1>2, PTL DEF Spec

\* Type correctness for any cpus, counters and longitudinals: main's indices into
\* slots, longitudinals and ops stay within the arrays.
THEOREM TypeCorrect == Spec => []TypeOK
<1>1. IInv => TypeOK
  BY DEF IInv
<1> QED
  BY <1>1, Invariance, PTL

\* msr_utils.c:391-394, for any number of counters: the loop that counts the ops of
\* a recipe reads one pointer too many of the two arrays without a NULL, and counts
\* right all the same, in either order of the arrays.
THEOREM OpsCountedRight == Spec => []RecipesCounted
<1>1. IInv => RecipesCounted
  <2> SUFFICES ASSUME IInv, looked_at # Uncounted, NEW type \in Types, NEW s \in Slots
               PROVE  /\ ops_per_function_per_slot[type][s] = Len(Recipe(type, s))
                      /\ looked_at[type][s] = Len(Pointers(type, s))
                            + IF NullTerminated(type, s) THEN 0 ELSE 1
    BY DEF RecipesCounted, Recipe
  <2>1. /\ ops_per_function_per_slot[type][s] = Len(Recipe(type, s))
        /\ looked_at[type][s] = Len(Recipe(type, s)) + 1
    BY DEF IInv, Prepared
  <2>2. /\ Len(Recipe(type, s)) \in Nat
        /\ Len(Pointers(type, s)) =
                Len(Recipe(type, s)) + IF NullTerminated(type, s) THEN 1 ELSE 0
    BY PointersAre, LongitudinalAssumption
  <2> QED
    BY <2>1, <2>2
<1> QED
  BY <1>1, Invariance, PTL

\* options.c:53, for any cpus, longitudinals and bounds: a READ that succeeds on a
\* cpu whose ops succeeded holds what that cpu retired between its START and its
\* STOP; without any failure every READ does.
THEOREM WindowsCounted == Spec => []CountsTheWindow
<1>1. IInv => CountsTheWindow
  <2> SUFFICES ASSUME IInv, NEW i \in DOMAIN batches, Fixed(i),
                      NEW k \in DOMAIN batches[i][READ]
               PROVE  /\ batches[i][READ][k].err = "none"
                            /\ Controlled(batches[i][READ][k].cpu) =>
                         batches[i][READ][k].msrdata = window[batches[i][READ][k].cpu]
                      /\ slot > READ /\ faults = 0 =>
                            /\ batches[i][READ][k].err = "none"
                            /\ Controlled(batches[i][READ][k].cpu)
    BY DEF CountsTheWindow
  <2> USE DEF IInv
  <2>1. batches[i][READ][k].cpu \in Cpus
    BY ElementIs, SlotNumbers
  <2>2. ASSUME batches[i][READ][k].err = "none", Controlled(batches[i][READ][k].cpu)
        PROVE  batches[i][READ][k].msrdata = window[batches[i][READ][k].cpu]
    <3>1. Clean(batches[i][READ][k].cpu)
      BY <2>2 DEF Clean, Controlled
    <3> QED
      BY <2>1, <2>2, <3>1 DEF ReadOut
  <2>3. ASSUME slot > READ, faults = 0
        PROVE  batches[i][READ][k].err = "none" /\ Controlled(batches[i][READ][k].cpu)
    <3>1. \A j \in DOMAIN batches, s \in SETUP .. READ : \A m \in DOMAIN batches[j][s] :
                batches[j][s][m].err = "none"
      <4> SUFFICES ASSUME NEW j \in DOMAIN batches, NEW s \in SETUP .. READ,
                          NEW m \in DOMAIN batches[j][s]
                   PROVE  batches[j][s][m].err = "none"
        OBVIOUS
      <4>1. s \in Slots /\ s < slot
        BY <2>3, SlotNumbers DEF TypeOK
      <4>2. Past(j, s, m)
        BY <4>1 DEF Past
      <4> QED
        BY <2>3, <4>1, <4>2 DEF Progress
    <3>2. READ \in SETUP .. READ /\ SETUP .. STOP \subseteq SETUP .. READ
      BY SlotNumbers
    <3> QED
      BY <3>1, <3>2 DEF Controlled
  <2> QED
    BY <2>2, <2>3
<1> QED
  BY <1>1, Invariance, PTL

\* Of the first N elements of a batch, no cpu has two more than another.
LEMMA Lockstep ==
    ASSUME NEW n \in Nat \ {0}, NEW N \in Nat, NEW p \in 1 .. n, NEW q \in 1 .. n
    PROVE  Cardinality({k \in 1 .. N : CpuAt(k, n) = p})
                <= Cardinality({k \in 1 .. N : CpuAt(k, n) = q}) + 1
<1> DEFINE P == {k \in 1 .. N : CpuAt(k, n) = p}
           Q == {k \in 1 .. N : CpuAt(k, n) = q}
           f == [k \in P \ {p} |-> k - n + (q - p)]
<1>1. ASSUME NEW k \in P \ {p} PROVE k - n + (q - p) \in Q
  <2>1. k - 1 \in Nat /\ k \in 1 .. N /\ (k - 1) % n = p - 1
    BY DEF CpuAt
  <2>2. PICK j \in Nat : k - 1 = n * j + (p - 1)
    <3>1. (k - 1) \div n \in Nat /\ k - 1 = n * ((k - 1) \div n) + ((k - 1) % n)
      BY <2>1, DivMod
    <3> QED
      BY <2>1, <3>1
  <2>3. j # 0
    BY <2>1, <2>2
  <2>4. PICK i \in Nat : j = i + 1
    <3>1. j - 1 \in Nat /\ j = (j - 1) + 1
      BY <2>3
    <3> QED
      BY <3>1
  <2>5. n * j = n * i + n /\ n * i \in Nat
    BY <2>4
  <2>6. /\ q - 1 \in 0 .. n - 1
        /\ k - n + (q - p) - 1 = n * i + (q - 1)
    BY <2>1, <2>2, <2>5
  <2>7. (k - n + (q - p) - 1) % n = q - 1
    BY <2>6, ModUnique
  <2>8. k - n + (q - p) \in 1 .. N
    BY <2>1, <2>5, <2>6
  <2> QED
    BY <2>7, <2>8 DEF CpuAt
<1>2. f \in [P \ {p} -> Q]
  BY <1>1
<1>3. \A j, k \in P \ {p} : f[j] = f[k] => j = k
  OBVIOUS
<1>4. f \in Injection(P \ {p}, Q)
  <2> HIDE DEF f, P, Q
  <2> QED
    BY <1>2, <1>3 DEF Injection, IsInjective
<1>5. IsFiniteSet(1 .. N) /\ P \in SUBSET (1 .. N) /\ Q \in SUBSET (1 .. N)
  BY FS_Interval
<1> HIDE DEF f, P, Q
<1>6. IsFiniteSet(P) /\ IsFiniteSet(Q) /\ IsFiniteSet(P \ {p})
  BY <1>5, FS_Subset, FS_RemoveElement
<1>7. Cardinality(P \ {p}) <= Cardinality(Q)
  BY <1>4, <1>6, FS_Injection
<1>8. Cardinality(P) \in Nat /\ Cardinality(Q) \in Nat /\ Cardinality(P \ {p}) \in Nat
  BY <1>6, FS_CardinalityType
<1>9. Cardinality(P \ {p}) = Cardinality(P) \/ Cardinality(P \ {p}) = Cardinality(P) - 1
  BY <1>6, FS_RemoveElement
<1>10. Cardinality(P) <= Cardinality(Q) + 1
  BY <1>7, <1>8, <1>9
<1> QED
  BY <1>10 DEF P, Q

\* job.h:15, for any number of cpus and any recipe: at every point of a batch no cpu
\* is more than one op ahead of another.
THEOREM CpusInLockstep == Spec => []InLockstep
<1>1. IInv => InLockstep
  <2> SUFFICES ASSUME IInv, Ready, slot \in Slots, lng <= Len(longitudinals),
                      NEW c \in longitudinals[lng].sample_cpus,
                      NEW d \in longitudinals[lng].sample_cpus
               PROVE  OpsDone(c) <= OpsDone(d) + 1
    BY DEF InLockstep
  <2> USE DEF IInv
  <2>1. /\ lng \in DOMAIN batches /\ lng \in DOMAIN longitudinals /\ next_op \in Nat \ {0}
        /\ next_op <= Len(batches[lng][slot]) + 1
    BY JobTypes DEF Ready, TypeOK, Prepared
  <2>2. /\ Len(batches[lng][slot]) \in Nat
        /\ DOMAIN batches[lng][slot] = 1 .. Len(batches[lng][slot])
    BY <2>1 DEF TypeOK, Batch
  <2>3. PICK n \in Nat \ {0} : n = Ncpu(lng)
    BY <2>1, JobTypes
  <2>4. PICK asc \in Bijection(1 .. n, longitudinals[lng].sample_cpus) :
            asc = Ascending(longitudinals[lng].sample_cpus)
    BY <2>1, <2>3, JobTypes
  <2>5. PICK p \in 1 .. n, q \in 1 .. n : asc[p] = c /\ asc[q] = d
    BY <2>4 DEF Bijection, Surjection
  <2>6. \A i, j \in 1 .. n : asc[i] = asc[j] => i = j
    BY <2>4 DEF Bijection, Injection, IsInjective
  <2>7. PICK N \in Nat : N = next_op - 1
    BY <2>1
  <2>8. \A k \in 1 .. N : /\ batches[lng][slot][k].cpu = asc[CpuAt(k, n)]
                          /\ CpuAt(k, n) \in 1 .. n
    <3> SUFFICES ASSUME NEW k \in 1 .. N
                 PROVE  /\ batches[lng][slot][k].cpu = asc[CpuAt(k, n)]
                        /\ CpuAt(k, n) \in 1 .. n
      OBVIOUS
    <3>1. k \in DOMAIN batches[lng][slot]
      BY <2>1, <2>2, <2>7
    <3> QED
      BY <2>1, <2>3, <2>4, <3>1, ElementIs
  <2>9. /\ {k \in 1 .. N : batches[lng][slot][k].cpu = c} = {k \in 1 .. N : CpuAt(k, n) = p}
        /\ {k \in 1 .. N : batches[lng][slot][k].cpu = d} = {k \in 1 .. N : CpuAt(k, n) = q}
    <3>1. \A k \in 1 .. N : /\ batches[lng][slot][k].cpu = c <=> CpuAt(k, n) = p
                            /\ batches[lng][slot][k].cpu = d <=> CpuAt(k, n) = q
      BY <2>5, <2>6, <2>8
    <3> QED
      BY <3>1, Zenon
  <2>10. /\ OpsDone(c) = Cardinality({k \in 1 .. N : CpuAt(k, n) = p})
         /\ OpsDone(d) = Cardinality({k \in 1 .. N : CpuAt(k, n) = q})
    BY <2>7, <2>9 DEF OpsDone
  <2> QED
    BY <2>10, Lockstep
<1> QED
  BY <1>1, Invariance, PTL
=============================================================================
