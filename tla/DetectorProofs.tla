--------------------------- MODULE DetectorProofs ---------------------------
(***************************************************************************)
(* Proofs about the anomaly check for every set of prices, volumes and     *)
(* spreads, every threshold and every length of the history.               *)
(*                                                                         *)
(* What a sum over the history is cannot be proved by induction over the   *)
(* history here.  It is proved by induction along the behaviour: a sum     *)
(* whose partial sums exist and are unique (Summable) keeps both when a    *)
(* tick is appended, and grows by the value that is appended (SumAppend).  *)
(* The row is then the history's figures after every tick, because one     *)
(* step of Welford's algorithm adds one value to them (WelfordExact).      *)
(***************************************************************************)
EXTENDS Detector, FiniteSetTheorems, SequenceTheorems, TLAPS

----------------------------------------------------------------------------
(* Sums.                                                                   *)

\* p holds the partial sums of the values.
IsPartial(p, values) ==
  p = [i \in 0 .. Len(values) |-> IF i = 0 THEN 0 ELSE p[i - 1] + values[i]]

\* The values have partial sums, and only one list of them.
Summable(values) ==
  /\ \E p : IsPartial(p, values)
  /\ \A p, q : IsPartial(p, values) /\ IsPartial(q, values) => p = q

\* The sum is the last of the partial sums.
LEMMA SumIs ==
  ASSUME NEW values, NEW p, IsPartial(p, values), Summable(values)
  PROVE  F!Sum(values) = p[Len(values)]
<1> DEFINE c == CHOOSE q : q = [i \in 0 .. Len(values) |->
                                  IF i = 0 THEN 0 ELSE q[i - 1] + values[i]]
<1>1. IsPartial(c, values)
  BY Zenon DEF IsPartial
<1>2. c = p
  BY <1>1 DEF Summable
<1>3. F!Sum(values) = c[Len(values)]
  BY DEF F!Sum
<1> QED BY <1>2, <1>3

\* Nothing sums to zero.
LEMMA SumOfNone ==
  ASSUME NEW values, Len(values) = 0
  PROVE  Summable(values) /\ F!Sum(values) = 0
<1> DEFINE z == [i \in 0 .. 0 |-> 0]
<1>1. IsPartial(z, values)
  BY DEF IsPartial
<1>2. ASSUME NEW p, IsPartial(p, values)
      PROVE  p = z
  BY <1>2 DEF IsPartial
<1>3. Summable(values)
  BY <1>1, <1>2 DEF Summable
<1>4. F!Sum(values) = z[0]
  BY <1>1, <1>3, SumIs
<1> QED BY <1>3, <1>4

\* A value more adds itself to the sum.
LEMMA SumAppend ==
  ASSUME NEW values, NEW longer, NEW n \in Nat,
         Len(values) = n, Len(longer) = n + 1,
         \A i \in 1..n : longer[i] = values[i],
         Summable(values)
  PROVE  /\ Summable(longer)
         /\ F!Sum(longer) = F!Sum(values) + longer[n + 1]
<1>1. PICK p : IsPartial(p, values)
  BY DEF Summable
<1> DEFINE more(q) == [i \in 0 .. n + 1 |-> IF i = n + 1 THEN q[n] + longer[n + 1] ELSE q[i]]
           less(q) == [i \in 0 .. n |-> q[i]]
<1>2. IsPartial(more(p), longer)
  <2>1. ASSUME NEW i \in 0 .. n + 1
        PROVE  more(p)[i] = IF i = 0 THEN 0 ELSE more(p)[i - 1] + longer[i]
    <3>1. CASE i = 0
      BY <1>1, <3>1 DEF IsPartial
    <3>2. CASE i \in 1..n
      <4>1. p[i] = p[i - 1] + values[i]
        BY <1>1, <3>2 DEF IsPartial
      <4>2. more(p)[i] = p[i] /\ more(p)[i - 1] = p[i - 1]
        BY <3>2
      <4> QED BY <3>2, <4>1, <4>2
    <3>3. CASE i = n + 1
      BY <3>3
    <3> QED BY <3>1, <3>2, <3>3
  <2> QED BY <2>1 DEF IsPartial
<1>3. ASSUME NEW q, IsPartial(q, longer)
      PROVE  q = more(p)
  <2>1. q = [i \in 0 .. n + 1 |-> IF i = 0 THEN 0 ELSE q[i - 1] + longer[i]]
    BY <1>3 DEF IsPartial
  <2> DEFINE r == less(q)
  <2>2. IsPartial(r, values)
    <3>1. ASSUME NEW i \in 0 .. n
          PROVE  r[i] = IF i = 0 THEN 0 ELSE r[i - 1] + values[i]
      <4>1. q[i] = IF i = 0 THEN 0 ELSE q[i - 1] + longer[i]
        BY <2>1
      <4>2. CASE i = 0
        BY <4>1, <4>2
      <4>3. CASE i \in 1..n
        <5>1. r[i] = q[i] /\ r[i - 1] = q[i - 1]
          BY <4>3
        <5> QED BY <4>1, <4>3, <5>1
      <4> QED BY <4>2, <4>3
    <3> QED BY <3>1 DEF IsPartial
  <2>3. r = p
    BY <1>1, <2>2 DEF Summable
  <2>4. ASSUME NEW i \in 0 .. n
        PROVE  q[i] = p[i]
    BY <2>3
  <2>5. q[n + 1] = q[n] + longer[n + 1]
    BY <2>1
  <2>6. q[n] = p[n]
    BY <2>4
  <2>7. ASSUME NEW i \in 0 .. n + 1
        PROVE  q[i] = more(p)[i]
    BY <2>4, <2>5, <2>6
  <2>8. DOMAIN q = 0 .. n + 1 /\ q = [i \in 0 .. n + 1 |-> q[i]]
    BY <2>1
  <2> QED BY <2>7, <2>8
<1>4. Summable(longer)
  BY <1>2, <1>3 DEF Summable
<1>5. F!Sum(longer) = more(p)[n + 1]
  BY <1>2, <1>4, SumIs
<1>6. F!Sum(values) = p[n]
  BY <1>1, SumIs
<1> QED BY <1>4, <1>5, <1>6

----------------------------------------------------------------------------
(* The history of a series.                                                *)

\* A history is a function of 1..n, and a tick more is its last value.
LEMMA HistoryAppend ==
  ASSUME NEW h \in Seq(Tick), NEW t \in Tick
  PROVE  /\ Len(h) \in Nat
         /\ DOMAIN h = 1 .. Len(h)
         /\ \A i \in 1 .. Len(h) : h[i] \in Tick
         /\ Append(h, t) \in Seq(Tick)
         /\ Len(Append(h, t)) = Len(h) + 1
         /\ DOMAIN Append(h, t) = 1 .. Len(h) + 1
         /\ \A i \in 1 .. Len(h) : Append(h, t)[i] = h[i]
         /\ Append(h, t)[Len(h) + 1] = t
OBVIOUS

\* A function of 1..n to the integers is a sequence of n integers.
LEMMA IntSequence ==
  ASSUME NEW n \in Nat, NEW f, f \in [1..n -> Int]
  PROVE  f \in Seq(Int) /\ Len(f) = n
<1>1. f \in Seq(Int)
  BY SeqDef
<1> QED BY <1>1, LenProperties

\* A square is not negative.
LEMMA SquareIsNat == ASSUME NEW x \in Int PROVE x * x \in Nat
OBVIOUS

\* A series is a sequence of integers, as long as the history; only a spread
\* may be negative.
LEMMA ValuesAreInt ==
  ASSUME NEW h \in Seq(Tick), NEW s \in Series
  PROVE  /\ F!Values(h, s) \in [1 .. Len(h) -> Int]
         /\ F!Values(h, s) \in Seq(Int)
         /\ Len(F!Values(h, s)) = Len(h)
         /\ s # "spread" => \A i \in 1 .. Len(h) : F!Values(h, s)[i] \in Nat
         /\ F!Squares(F!Values(h, s)) \in [1 .. Len(h) -> Nat]
         /\ Len(F!Squares(F!Values(h, s))) = Len(h)
         /\ \A i \in 1 .. Len(h) :
              F!Squares(F!Values(h, s))[i] = F!Values(h, s)[i] * F!Values(h, s)[i]
<1> DEFINE v == F!Values(h, s)
           q == F!Squares(v)
<1>1. Len(h) \in Nat /\ DOMAIN h = 1 .. Len(h)
  OBVIOUS
<1>2. ASSUME NEW i \in 1 .. Len(h)
      PROVE  /\ h[i].price \in Nat /\ h[i].volume \in Nat /\ h[i].spread \in Int
             /\ i # 1 => h[i - 1].price \in Nat
  <2>1. h[i] \in Tick /\ (i # 1 => h[i - 1] \in Tick)
    BY <1>1
  <2> QED BY <2>1, DetectorAssumption DEF Tick
<1>3. ASSUME NEW i \in 1 .. Len(h)
      PROVE  v[i] \in Int /\ (s # "spread" => v[i] \in Nat)
  <2>1. CASE s = "volatility"
    <3>1. v[i] = IF i = 1 THEN 0 ELSE F!Abs(h[i].price - h[i - 1].price)
      BY <1>1, <2>1 DEF F!Values
    <3>2. ASSUME NEW a \in Nat, NEW b \in Nat
          PROVE  F!Abs(a - b) \in Nat
      BY DEF F!Abs
    <3>3. CASE i = 1
      BY <3>1, <3>3
    <3>4. CASE i # 1
      BY <1>2, <3>1, <3>2, <3>4
    <3> QED BY <3>3, <3>4
  <2>2. CASE s = "spread"
    <3>1. v[i] = h[i].spread
      BY <1>1, <2>2 DEF F!Values
    <3> QED BY <1>2, <2>2, <3>1
  <2>3. CASE s \in {"price", "volume"}
    <3>1. v[i] = h[i].price \/ v[i] = h[i].volume
      BY <1>1, <2>3 DEF F!Values
    <3> QED BY <1>2, <3>1
  <2> QED BY <2>1, <2>2, <2>3 DEF Series
<1>4. v \in [1 .. Len(h) -> Int]
  BY <1>1, <1>3 DEF F!Values
<1>5. v \in Seq(Int) /\ Len(v) = Len(h)
  BY <1>1, <1>4, IntSequence
<1>6. q = [i \in 1 .. Len(h) |-> v[i] * v[i]]
  BY <1>4 DEF F!Squares
<1>7. \A i \in 1 .. Len(h) : v[i] * v[i] \in Nat
  BY <1>3, SquareIsNat
<1>8. q \in [1 .. Len(h) -> Nat]
  BY <1>6, <1>7
<1>9. Len(q) = Len(h)
  BY <1>1, <1>8, IntSequence
<1> QED BY <1>3, <1>4, <1>5, <1>6, <1>8, <1>9

\* The price before the first is taken to be the first one.
Previous(h, t) == IF h = <<>> THEN t.price ELSE h[Len(h)].price

\* What a tick more observes is the last value of each series.
LEMMA ValuesAppend ==
  ASSUME NEW h \in Seq(Tick), NEW t \in Tick, NEW s \in Series
  PROVE  LET n == Len(h)
             longer == F!Values(Append(h, t), s)
         IN  /\ \A i \in 1..n : longer[i] = F!Values(h, s)[i]
             /\ longer[n + 1] = Observe(t, Previous(h, t))[s]
             /\ longer[n + 1] \in Int
             /\ s # "spread" => longer[n + 1] \in Nat
<1> DEFINE n == Len(h)
           g == Append(h, t)
           longer == F!Values(g, s)
<1>1. /\ n \in Nat /\ DOMAIN h = 1..n
      /\ g \in Seq(Tick) /\ Len(g) = n + 1 /\ DOMAIN g = 1 .. n + 1
      /\ \A i \in 1..n : g[i] = h[i]
      /\ g[n + 1] = t
  BY HistoryAppend
<1> HIDE DEF n, g
<1>2. ASSUME NEW i \in 1..n
      PROVE  longer[i] = F!Values(h, s)[i]
  <2>1. g[i] = h[i] /\ (i # 1 => g[i - 1] = h[i - 1])
    BY <1>1
  <2> QED BY <1>1, <2>1 DEF F!Values, Series
<1>3. longer[n + 1] = Observe(t, Previous(h, t))[s]
  <2>1. g[n + 1] = t /\ (n # 0 => g[n] = h[n])
    BY <1>1
  <2>2. n = 0 <=> h = <<>>
    BY DEF n
  <2>3. t.price \in Nat
    BY DetectorAssumption DEF Tick
  <2>4. Previous(h, t) = IF n = 0 THEN t.price ELSE h[n].price
    BY <2>2 DEF Previous, n
  <2>5. CASE s = "volatility"
    <3>1. longer[n + 1] = IF n + 1 = 1 THEN 0 ELSE Abs(g[n + 1].price - g[n].price)
      BY <1>1, <2>5 DEF F!Values, F!Abs, Abs
    <3>2. Observe(t, Previous(h, t))[s] = Abs(t.price - Previous(h, t))
      BY <2>5 DEF Observe
    <3>3. CASE n = 0
      <4>1. Abs(t.price - t.price) = 0
        BY <2>3 DEF Abs
      <4> QED BY <2>4, <3>1, <3>2, <3>3, <4>1
    <3>4. CASE n # 0
      BY <1>1, <2>1, <2>4, <3>1, <3>2, <3>4
    <3> QED BY <3>3, <3>4
  <2>6. CASE s # "volatility"
    BY <1>1, <2>6 DEF F!Values, Observe, Series
  <2> QED BY <2>5, <2>6
<1>4. longer[n + 1] \in Int /\ (s # "spread" => longer[n + 1] \in Nat)
  <2>1. n + 1 \in 1 .. Len(g)
    BY <1>1
  <2> QED BY <1>1, <2>1, ValuesAreInt
<1> QED BY <1>2, <1>3, <1>4 DEF n, g

----------------------------------------------------------------------------
(* One step of Welford's algorithm.                                        *)

\* A multiple is a product.
LEMMA Multiple ==
  ASSUME NEW m \in Nat \ {0}, NEW u \in Nat, u % m = 0
  PROVE  \E k \in Nat : u = m * k
<1>1. u \div m \in Nat /\ u = m * (u \div m) + (u % m)
  BY SMTT(30)
<1> QED BY <1>1

\* Dividing a product by one of its factors leaves the other.
LEMMA Divided ==
  ASSUME NEW c \in Nat \ {0}, NEW w \in Int, NEW d \in Int, d = c * w
  PROVE  d \div c = w
<1>1. d \div c \in Int /\ d = c * (d \div c) + (d % c) /\ d % c \in 0 .. c - 1
  BY SMTT(30)
<1> DEFINE q == d \div c
           r == d % c
<1>2. q \in Int /\ r \in 0 .. c - 1 /\ c * (w - q) = r
  BY <1>1
<1> HIDE DEF q, r
<1>3. w - q < 1
  <2>1. SUFFICES ASSUME w - q >= 1 PROVE FALSE
    BY <1>2
  <2>2. c * (w - q) >= c
    BY <1>2, <2>1
  <2> QED BY <1>2, <2>2
<1>4. w - q > -1
  <2>1. SUFFICES ASSUME w - q <= -1 PROVE FALSE
    BY <1>2
  <2>2. c * (w - q) <= -c
    BY <1>2, <2>1
  <2> QED BY <1>2, <2>2
<1>5. w = q
  BY <1>2, <1>3, <1>4
<1> QED BY <1>5 DEF q

\* Unit is a multiple of n * (n + 1).
Divisible(n) == \E k \in Nat : Unit = (n * (n + 1)) * k

\* The figures are those of n values of sum S and sum of squares Q.
Exact(stat, n, S, Q) ==
  /\ n * stat.mean = Unit * S
  /\ n * stat.sum = Unit * Unit * (n * Q - S * S)

\* The step on the value v keeps the figures exact, and M2 a natural.
LEMMA WelfordExact ==
  ASSUME NEW n \in Nat, n > 0, Divisible(n),
         NEW S \in Int, NEW Q \in Nat, NEW v \in Int, NEW stat \in Stat,
         Exact(stat, n, S, Q)
  PROVE  /\ WelfordUpdate(stat, n + 1, v) \in Stat
         /\ Exact(WelfordUpdate(stat, n + 1, v), n + 1, S + v, Q + v * v)
<1> DEFINE c == n + 1
           D == n * v - S
           delta == Unit * v - stat.mean
           mean == stat.mean + delta \div c
           sum == stat.sum + delta * (Unit * v - mean)
<1>0. /\ n * stat.mean = Unit * S
      /\ n * stat.sum = Unit * Unit * (n * Q - S * S)
  BY DEF Exact
<1>1. n * c \in Nat /\ Unit \in Nat
  BY DetectorAssumption
<1>2. PICK k \in Nat : Unit = (n * c) * k
  BY DEF Divisible
<1>3. stat.mean \in Int /\ stat.sum \in Nat
  BY DEF Stat
<1>4. stat.mean = c * k * S
  <2>1. n * stat.mean = n * (c * k * S)
    BY <1>0, <1>2
  <2> QED BY <1>3, <2>1
<1>5. delta = c * (k * D)
  BY <1>2, <1>4
<1>6. k * D \in Int /\ delta \in Int /\ c \in Nat \ {0}
  BY <1>1, <1>3
<1>7. delta \div c = k * D
  BY <1>5, <1>6, Divided
<1>8. mean = n * k * (S + v)
  BY <1>4, <1>7
<1>9. Unit * v - mean = n * k * D
  BY <1>2, <1>8
<1>10. stat.sum = n * c * c * k * k * (n * Q - S * S)
  <2>1. n * stat.sum = n * (n * c * c * k * k * (n * Q - S * S))
    BY <1>0, <1>2
  <2> QED BY <1>3, <2>1
<1>11. sum = stat.sum + (c * n * k * k) * (D * D)
  BY <1>3, <1>5, <1>9
<1>12. mean \in Int /\ sum \in Nat
  <2>1. D * D >= 0 /\ D * D \in Int
    OBVIOUS
  <2>2. c * n * k * k >= 0 /\ c * n * k * k \in Int
    OBVIOUS
  <2>3. (c * n * k * k) * (D * D) >= 0
    BY <2>1, <2>2
  <2>4. mean \in Int
    BY <1>8
  <2> QED BY <1>3, <1>11, <2>2, <2>1, <2>3, <2>4
<1>13. c * mean = Unit * (S + v)
  BY <1>2, <1>8
<1>14. c * sum = Unit * Unit * (c * (Q + v * v) - (S + v) * (S + v))
  <2>1. c * (n * Q - S * S) + D * D = n * (c * (Q + v * v) - (S + v) * (S + v))
    OBVIOUS
  <2>2. sum = (n * c * k * k) * (c * (n * Q - S * S) + D * D)
    BY <1>10, <1>11
  <2>3. c * sum = (n * c * k) * (c * k) * (n * (c * (Q + v * v) - (S + v) * (S + v)))
    BY <2>1, <2>2
  <2> QED BY <1>2, <2>3
<1>15. WelfordUpdate(stat, c, v) = [mean |-> mean, sum |-> sum]
  BY DEF WelfordUpdate
<1> QED BY <1>12, <1>13, <1>14, <1>15 DEF Stat, Exact

----------------------------------------------------------------------------
(* The invariant.                                                          *)

\* The row's last price, volume and spread are the last tick's.
LastIsLast == ticks # <<>> => baseline.last = ticks[Len(ticks)]

\* The sums over the history are what sums should be.
HistoryInv ==
  \A s \in Series :
    LET values == F!Values(ticks, s)
    IN  /\ Summable(values) /\ F!Sum(values) \in Int
        /\ s # "spread" => F!Sum(values) \in Nat
        /\ Summable(F!Squares(values)) /\ F!SumOfSquares(values) \in Nat

DetectorInv == TypeOK /\ BaselineIsHistory /\ LastIsLast /\ HistoryInv

\* The instance counts as this module does.
LEMMA SameCardinality == ASSUME NEW S PROVE F!Cardinality(S) = Cardinality(S)
BY Zenon DEF F!Cardinality, Cardinality, F!IsFiniteSet, IsFiniteSet

\* The run of stale ticks goes on, or there is none.
LEMMA StaleRunAppend ==
  ASSUME NEW h \in Seq(Tick), NEW t \in Tick
  PROVE  /\ F!StaleRun(h) \in Nat
         /\ F!StaleRun(Append(h, t)) =
              IF h # <<>> /\ t.price = h[Len(h)].price /\ t.volume = 0
              THEN F!StaleRun(h) + 1 ELSE 0
<1> DEFINE n == Len(h)
           g == Append(h, t)
           repeats(f, i) == f[i].price = f[i - 1].price /\ f[i].volume = 0
           run(f) == {k \in 2..Len(f) : \A i \in k..Len(f) : repeats(f, i)}
<1>1. /\ n \in Nat /\ Len(g) = n + 1
      /\ \A i \in 1..n : g[i] = h[i]
      /\ g[n + 1] = t
      /\ n = 0 <=> h = <<>>
  BY HistoryAppend
<1>2. F!StaleRun(h) = Cardinality(run(h)) /\ F!StaleRun(g) = Cardinality(run(g))
  BY SameCardinality DEF F!StaleRun
<1> HIDE DEF n, g
<1>3. IsFiniteSet(run(h)) /\ Cardinality(run(h)) \in Nat
  <2>1. IsFiniteSet(2..n)
    BY <1>1, FS_Interval
  <2>2. run(h) \subseteq 2..n
    BY DEF n
  <2> QED BY <2>1, <2>2, FS_Subset, FS_CardinalityType
<1>4. ASSUME NEW i \in 2..n
      PROVE  repeats(g, i) <=> repeats(h, i)
  <2>1. g[i] = h[i] /\ g[i - 1] = h[i - 1]
    BY <1>1
  <2> QED BY <2>1
<1>5. ASSUME n > 0
      PROVE  repeats(g, n + 1) <=> t.price = h[n].price /\ t.volume = 0
  <2>1. g[n + 1] = t /\ g[n] = h[n]
    BY <1>1, <1>5
  <2> QED BY <1>1, <2>1
<1> DEFINE goes == n > 0 /\ t.price = h[n].price /\ t.volume = 0
<1>6. ASSUME n > 0 /\ repeats(g, n + 1)
      PROVE  F!StaleRun(g) = IF goes THEN F!StaleRun(h) + 1 ELSE 0
  <2>1. ASSUME NEW k
        PROVE  k \in run(g) <=> k \in run(h) \cup {n + 1}
    <3>1. CASE k = n + 1
      <4>1. \A i \in k .. n + 1 : i = n + 1
        BY <1>1, <3>1
      <4>2. k \in 2 .. n + 1
        BY <1>1, <1>6, <3>1
      <4> QED BY <1>1, <1>6, <3>1, <4>1, <4>2
    <3>2. CASE k \in 2..n
      <4>1. k .. n + 1 = (k .. n) \cup {n + 1}
        BY <1>1, <3>2
      <4>2. \A i \in k..n : i \in 2..n
        BY <1>1, <3>2
      <4>3. (\A i \in k .. n + 1 : repeats(g, i)) <=> (\A i \in k..n : repeats(h, i))
        BY <1>4, <1>6, <4>1, <4>2
      <4>4. k \in 2 .. n + 1 /\ k # n + 1
        BY <1>1, <3>2
      <4> QED BY <1>1, <3>2, <4>3, <4>4 DEF n
    <3>3. CASE k \notin 2..n + 1
      BY <1>1, <1>6, <3>3 DEF n
    <3> QED BY <1>1, <3>1, <3>2, <3>3
  <2>2. run(g) = run(h) \cup {n + 1}
    BY <2>1
  <2>3. n + 1 \notin run(h)
    BY <1>1 DEF n
  <2>4. Cardinality(run(g)) = Cardinality(run(h)) + 1
    BY <1>3, <2>2, <2>3, FS_AddElement
  <2> QED BY <1>2, <1>5, <1>6, <2>4
<1>7. ASSUME ~(n > 0 /\ repeats(g, n + 1))
      PROVE  F!StaleRun(g) = IF goes THEN F!StaleRun(h) + 1 ELSE 0
  <2>1. run(g) = {}
    <3>1. SUFFICES ASSUME NEW k \in run(g) PROVE FALSE
      OBVIOUS
    <3>2. k \in 2 .. n + 1 /\ \A i \in k .. n + 1 : repeats(g, i)
      BY <1>1, <3>1
    <3>3. n > 0 /\ n + 1 \in k .. n + 1
      BY <1>1, <3>2
    <3> QED BY <1>7, <3>2, <3>3
  <2>2. Cardinality(run(g)) = 0
    BY <2>1, FS_EmptySet
  <2> QED BY <1>2, <1>5, <1>7, <2>2
<1>8. n > 0 <=> h # <<>>
  BY <1>1
<1> QED BY <1>2, <1>3, <1>6, <1>7, <1>8 DEF n, g

\* The initial states satisfy the invariant.
LEMMA DetectorInit == Init => DetectorInv
<1> SUFFICES ASSUME Init
             PROVE  DetectorInv
  OBVIOUS
<1> USE DEF Init
<1>1. TypeOK
  BY DetectorAssumption
     DEF TypeOK, NoBaseline, NoVerdict, NoTick, Zero, Stat
<1>2. LastIsLast
  BY DEF LastIsLast
<1>3. ASSUME NEW s \in Series
      PROVE  LET values == F!Values(ticks, s)
             IN  /\ Summable(values) /\ F!Sum(values) = 0
                 /\ Summable(F!Squares(values)) /\ F!SumOfSquares(values) = 0
  <2>1. ticks \in Seq(Tick) /\ Len(ticks) = 0
    OBVIOUS
  <2> QED BY <2>1, ValuesAreInt, SumOfNone DEF F!SumOfSquares
<1>4. HistoryInv
  BY <1>3 DEF HistoryInv
<1>5. F!StaleRun(ticks) = 0
  <2>1. {k \in 2 .. Len(ticks) :
           \A i \in k .. Len(ticks) :
             ticks[i].price = ticks[i - 1].price /\ ticks[i].volume = 0} = {}
    OBVIOUS
  <2> QED BY <2>1, FS_EmptySet, SameCardinality DEF F!StaleRun
<1>6. BaselineIsHistory
  <2>1. \A s \in Series : baseline.stats[s].mean = 0 /\ baseline.stats[s].sum = 0
    BY DEF NoBaseline, Zero
  <2>2. Unit \in Nat
    BY DetectorAssumption
  <2>3. Len(ticks) = 0 /\ baseline.count = 0 /\ baseline.stale = 0
    BY DEF NoBaseline
  <2> QED BY <1>3, <1>5, <2>1, <2>2, <2>3 DEF BaselineIsHistory
<1> QED BY <1>1, <1>2, <1>4, <1>6 DEF DetectorInv

\* A tick more adds its value, and the value's square, to the sums.
LEMMA TotalsAppend ==
  ASSUME NEW h \in Seq(Tick), NEW t \in Tick, NEW s \in Series,
         Summable(F!Values(h, s)), F!Sum(F!Values(h, s)) \in Int,
         Summable(F!Squares(F!Values(h, s))), F!SumOfSquares(F!Values(h, s)) \in Nat
  PROVE  LET values == F!Values(h, s)
             longer == F!Values(Append(h, t), s)
             v == Observe(t, Previous(h, t))[s]
         IN  /\ v \in Int /\ (s # "spread" => v \in Nat)
             /\ Summable(longer) /\ F!Sum(longer) = F!Sum(values) + v
             /\ Summable(F!Squares(longer))
             /\ F!SumOfSquares(longer) = F!SumOfSquares(values) + v * v
<1> DEFINE values == F!Values(h, s)
           longer == F!Values(Append(h, t), s)
           v == Observe(t, Previous(h, t))[s]
           n == Len(h)
<1>1. Append(h, t) \in Seq(Tick) /\ Len(Append(h, t)) = n + 1 /\ n \in Nat
  BY HistoryAppend
<1>2. /\ \A i \in 1..n : longer[i] = values[i]
      /\ longer[n + 1] = v /\ v \in Int /\ (s # "spread" => v \in Nat)
  BY ValuesAppend
<1>3. /\ Len(values) = n /\ Len(F!Squares(values)) = n
      /\ \A i \in 1..n : F!Squares(values)[i] = values[i] * values[i]
  BY ValuesAreInt
<1>4. /\ Len(longer) = n + 1 /\ Len(F!Squares(longer)) = n + 1
      /\ \A i \in 1 .. n + 1 : F!Squares(longer)[i] = longer[i] * longer[i]
  BY <1>1, ValuesAreInt
<1> HIDE DEF values, longer, v, n
<1>5. Summable(values) /\ Summable(F!Squares(values))
  BY DEF values
<1>6. Summable(longer) /\ F!Sum(longer) = F!Sum(values) + v
  <2>1. n \in Nat /\ Len(values) = n /\ Len(longer) = n + 1
    BY <1>1, <1>3, <1>4
  <2>2. longer[n + 1] = v /\ \A i \in 1..n : longer[i] = values[i]
    BY <1>2
  <2> QED BY <1>5, <2>1, <2>2, SumAppend
<1>7. ASSUME NEW i \in 1..n
      PROVE  F!Squares(longer)[i] = F!Squares(values)[i]
  <2>1. i \in 1 .. n + 1
    BY <1>1
  <2>2. F!Squares(longer)[i] = longer[i] * longer[i]
    BY <1>4, <2>1
  <2>3. longer[i] = values[i] /\ F!Squares(values)[i] = values[i] * values[i]
    BY <1>2, <1>3
  <2> QED BY <2>2, <2>3
<1>8. F!Squares(longer)[n + 1] = v * v
  <2>1. n + 1 \in 1 .. n + 1
    BY <1>1
  <2> QED BY <1>2, <1>4, <2>1
<1>9. /\ Summable(F!Squares(longer))
      /\ F!Sum(F!Squares(longer)) = F!Sum(F!Squares(values)) + v * v
  BY <1>1, <1>3, <1>4, <1>5, <1>7, <1>8, SumAppend
<1> QED BY <1>2, <1>6, <1>9 DEF F!SumOfSquares, values, longer, v

\* The tick is folded in.
LEMMA FoldedIn ==
  ASSUME DetectorInv, NEW tick \in Tick, NEW z, NEW staleThreshold,
         CheckAnomaly(tick, z, staleThreshold)
  PROVE  LET n == Len(ticks)
         IN  /\ n \in Nat /\ n < MaxTicks
             /\ baseline.count = n
             /\ ticks' = Append(ticks, tick)
             /\ ticks' \in Seq(Tick) /\ Len(ticks') = n + 1
             /\ baseline'.count = n + 1
             /\ baseline'.last = tick /\ ticks'[n + 1] = tick
             /\ n > 0 => Previous(ticks, tick) = baseline.last.price
<1>1. ticks \in Seq(Tick) /\ ticks' = Append(ticks, tick) /\ Len(ticks) < MaxTicks
  BY DEF DetectorInv, TypeOK, CheckAnomaly
<1>2. ticks' \in Seq(Tick) /\ Len(ticks') = Len(ticks) + 1 /\ ticks'[Len(ticks) + 1] = tick
  BY <1>1, HistoryAppend
<1>3. Len(ticks) \in Nat /\ (Len(ticks) > 0 => ticks # <<>>)
  BY <1>1
<1>4. baseline.count = Len(ticks)
  BY DEF DetectorInv, BaselineIsHistory
<1>5. baseline'.count = Len(ticks) + 1 /\ baseline'.last = tick
  BY <1>3, <1>4 DEF CheckAnomaly, FirstTick, LaterTick
<1>6. Len(ticks) > 0 => Previous(ticks, tick) = baseline.last.price
  BY <1>3 DEF DetectorInv, LastIsLast, Previous
<1> QED BY <1>1, <1>2, <1>3, <1>4, <1>5, <1>6

\* Each series' figures after a tick are the longer history's.
LEMMA FiguresFollow ==
  ASSUME DetectorInv, NEW tick \in Tick, NEW z, NEW staleThreshold,
         CheckAnomaly(tick, z, staleThreshold), NEW s \in Series
  PROVE  LET n == Len(ticks)
             values == F!Values(Append(ticks, tick), s)
             S == F!Sum(values)
             stat == baseline'.stats[s]
         IN  /\ Summable(values) /\ S \in Int /\ (s # "spread" => S \in Nat)
             /\ Summable(F!Squares(values)) /\ F!SumOfSquares(values) \in Nat
             /\ stat \in Stat
             /\ Exact(stat, n + 1, S, F!SumOfSquares(values))
<1> DEFINE n == Len(ticks)
           old == F!Values(ticks, s)
           values == F!Values(Append(ticks, tick), s)
           v == Observe(tick, Previous(ticks, tick))[s]
           S == F!Sum(old)
           Q == F!SumOfSquares(old)
           stat == baseline.stats[s]
<1>1. /\ n \in Nat /\ n < MaxTicks /\ baseline.count = n
      /\ n > 0 => Previous(ticks, tick) = baseline.last.price
      /\ ticks \in Seq(Tick)
  BY FoldedIn DEF DetectorInv, TypeOK
<1>2. /\ Summable(old) /\ S \in Int /\ (s # "spread" => S \in Nat)
      /\ Summable(F!Squares(old)) /\ Q \in Nat
  BY DEF DetectorInv, HistoryInv
<1>3. /\ v \in Int /\ (s # "spread" => v \in Nat)
      /\ Summable(values) /\ F!Sum(values) = S + v
      /\ Summable(F!Squares(values)) /\ F!SumOfSquares(values) = Q + v * v
  BY <1>1, <1>2, TotalsAppend
<1>4. stat \in Stat /\ Exact(stat, n, S, Q)
  BY DEF DetectorInv, TypeOK, BaselineIsHistory, Exact
<1>5. Unit \in Nat
  BY DetectorAssumption
<1> HIDE DEF n, old, values, v, S, Q, stat
<1>6. CASE n = 0
  <2>1. FirstTick(tick) /\ ticks = <<>>
    <3>1. ticks = <<>>
      BY <1>1, <1>6 DEF n
    <3> QED BY <1>1, <1>6, <3>1 DEF CheckAnomaly, LaterTick
  <2>2. baseline'.stats[s] = [mean |-> Unit * v, sum |-> 0]
    BY <2>1 DEF FirstTick, Previous, v
  <2>3. S = 0 /\ Q = 0
    <3>1. Len(old) = 0 /\ Len(F!Squares(old)) = 0
      BY <1>1, <1>6, ValuesAreInt DEF n, old
    <3> QED BY <3>1, SumOfNone DEF S, Q, F!SumOfSquares
  <2>4. Unit * v \in Int /\ 0 \in Nat
    BY <1>3, <1>5
  <2>5. baseline'.stats[s] \in Stat
    BY <2>2, <2>4 DEF Stat
  <2>6. F!Sum(values) = v /\ F!SumOfSquares(values) = v * v /\ v * v \in Nat
    BY <1>3, <2>3, SquareIsNat
  <2>7. 1 * (v * v) - v * v = 0 /\ Unit * Unit * 0 = 0
    BY <1>3, <1>5
  <2>8. Exact(baseline'.stats[s], 1, v, v * v)
    BY <1>3, <1>5, <2>2, <2>4, <2>7 DEF Exact
  <2> QED BY <1>3, <1>6, <2>5, <2>6, <2>8 DEF n, values
<1>7. CASE n > 0
  <2>1. LaterTick(tick, z, staleThreshold)
    BY <1>1, <1>7 DEF CheckAnomaly, FirstTick
  <2>2. baseline'.stats[s] = WelfordUpdate(stat, n + 1, v)
    BY <1>1, <1>7, <2>1 DEF LaterTick, v, stat
  <2>3. Divisible(n)
    <3>1. n \in 1 .. MaxTicks - 1
      BY <1>1, <1>7, DetectorAssumption
    <3>2. Unit % (n * (n + 1)) = 0
      BY <3>1, DetectorAssumption
    <3>3. n * (n + 1) \in Nat \ {0}
      BY <1>1, <1>7
    <3> QED BY <1>5, <3>2, <3>3, Multiple DEF Divisible
  <2>4. /\ WelfordUpdate(stat, n + 1, v) \in Stat
        /\ Exact(WelfordUpdate(stat, n + 1, v), n + 1, S + v, Q + v * v)
    BY <1>1, <1>2, <1>3, <1>4, <1>7, <2>3, WelfordExact
  <2>5. /\ S + v \in Int /\ (s # "spread" => S + v \in Nat)
        /\ Q + v * v \in Nat
    BY <1>2, <1>3, SquareIsNat
  <2> QED BY <1>3, <2>2, <2>4, <2>5 DEF n, values
<1> QED BY <1>1, <1>6, <1>7

\* The new row and the new verdict have their types.
LEMMA TypesFollow ==
  ASSUME DetectorInv, NEW tick \in Tick,
         NEW z \in ZThresholds, NEW staleThreshold \in StaleThresholds,
         CheckAnomaly(tick, z, staleThreshold)
  PROVE  TypeOK'
<1>1. /\ Len(ticks) \in Nat /\ Len(ticks) < MaxTicks
      /\ ticks' \in Seq(Tick) /\ baseline'.count = Len(ticks) + 1
      /\ baseline.count = Len(ticks)
  BY FoldedIn
<1>2. \A s \in Series : baseline'.stats[s] \in Stat
  BY FiguresFollow
<1>3. tick \in [price : Nat, volume : Nat, spread : Int]
  BY DetectorAssumption DEF Tick
<1>4. baseline.stale \in Nat
  BY DEF DetectorInv, TypeOK
<1>5. baseline'.count \in 0..MaxTicks
  BY <1>1, DetectorAssumption
<1>6. CASE FirstTick(tick)
  <2>1. /\ baseline'.last = tick /\ baseline'.stale = 0 /\ verdict' = NoVerdict
        /\ DOMAIN baseline'.stats = Series
    BY <1>6 DEF FirstTick
  <2>2. baseline'.stats \in [Series -> Stat]
    <3>1. baseline'.stats = [s \in Series |-> baseline'.stats[s]]
      BY <1>6 DEF FirstTick
    <3> QED BY <1>2, <3>1
  <2>3. baseline' = [count |-> baseline'.count, stats |-> baseline'.stats,
                     last |-> baseline'.last, stale |-> baseline'.stale]
    BY <1>6 DEF FirstTick
  <2> QED BY <1>1, <1>3, <1>5, <2>1, <2>2, <2>3 DEF TypeOK, NoVerdict
<1>7. CASE LaterTick(tick, z, staleThreshold)
  <2>1. baseline'.last = tick /\ baseline'.stale \in Nat
    BY <1>4, <1>7 DEF LaterTick
  <2>2. baseline'.stats \in [Series -> Stat]
    <3>1. baseline'.stats = [s \in Series |-> baseline'.stats[s]]
      BY <1>7 DEF LaterTick
    <3> QED BY <1>2, <3>1
  <2>3. baseline' = [count |-> baseline'.count, stats |-> baseline'.stats,
                     last |-> baseline'.last, stale |-> baseline'.stale]
    BY <1>7 DEF LaterTick
  <2>4. Triggered(tick, z) \in SUBSET Series
    BY DEF Triggered, Over
  <2>5. verdict' \in [triggered : SUBSET Series, stale : BOOLEAN, stale_count : Nat]
    <3>1. \E b \in BOOLEAN :
            verdict' = [triggered |-> Triggered(tick, z), stale |-> b,
                        stale_count |-> baseline'.stale]
      BY <1>7 DEF LaterTick
    <3> QED BY <2>1, <2>4, <3>1
  <2> QED BY <1>1, <1>3, <1>5, <2>1, <2>2, <2>3, <2>5 DEF TypeOK
<1> QED BY <1>6, <1>7 DEF CheckAnomaly

\* So is the run of stale ticks.
LEMMA StaleFollows ==
  ASSUME DetectorInv, NEW tick \in Tick, NEW z, NEW staleThreshold,
         CheckAnomaly(tick, z, staleThreshold)
  PROVE  baseline'.stale = F!StaleRun(Append(ticks, tick))
<1>1. /\ Len(ticks) \in Nat /\ baseline.count = Len(ticks)
      /\ ticks \in Seq(Tick)
  BY FoldedIn DEF DetectorInv, TypeOK
<1>2. ticks # <<>> => Len(ticks) > 0
  BY <1>1
<1>3. baseline.stale = F!StaleRun(ticks)
  BY DEF DetectorInv, BaselineIsHistory
<1>4. CASE FirstTick(tick)
  <2>1. baseline'.stale = 0 /\ ticks = <<>>
    BY <1>1, <1>2, <1>4 DEF FirstTick
  <2> QED BY <1>1, <2>1, StaleRunAppend
<1>5. CASE LaterTick(tick, z, staleThreshold)
  <2>1. ticks # <<>>
    BY <1>1, <1>5 DEF LaterTick
  <2>2. baseline.last.price = ticks[Len(ticks)].price
    BY <2>1 DEF DetectorInv, LastIsLast
  <2>3. baseline'.stale = IF tick.price = baseline.last.price /\ tick.volume = 0
                          THEN baseline.stale + 1 ELSE 0
    BY <1>5 DEF LaterTick
  <2> QED BY <1>1, <1>3, <2>1, <2>2, <2>3, StaleRunAppend
<1> QED BY <1>4, <1>5 DEF CheckAnomaly

\* Every step keeps the invariant.
LEMMA DetectorStep == DetectorInv /\ [Next]_vars => DetectorInv'
<1> SUFFICES ASSUME DetectorInv, [Next]_vars
             PROVE  DetectorInv'
  OBVIOUS
<1>1. ASSUME NEW tick \in Tick,
             NEW z \in ZThresholds, NEW staleThreshold \in StaleThresholds,
             CheckAnomaly(tick, z, staleThreshold)
      PROVE  DetectorInv'
  <2>1. TypeOK'
    BY <1>1, TypesFollow
  <2>2. /\ ticks' = Append(ticks, tick) /\ Len(ticks') = Len(ticks) + 1
        /\ baseline'.count = Len(ticks) + 1
        /\ baseline'.last = tick /\ ticks'[Len(ticks) + 1] = tick
    BY <1>1, FoldedIn
  <2>3. ASSUME NEW s \in Series
        PROVE  LET values == F!Values(ticks', s)
                   S == F!Sum(values)
                   stat == baseline'.stats[s]
                   n == Len(ticks')
               IN  /\ Summable(values) /\ S \in Int /\ (s # "spread" => S \in Nat)
                   /\ Summable(F!Squares(values)) /\ F!SumOfSquares(values) \in Nat
                   /\ n * stat.mean = Unit * S
                   /\ n * stat.sum = Unit * Unit * (n * F!SumOfSquares(values) - S * S)
    BY <1>1, <2>2, FiguresFollow DEF Exact
  <2>4. baseline'.stale = F!StaleRun(ticks')
    BY <1>1, <2>2, StaleFollows
  <2>5. BaselineIsHistory'
    BY <2>2, <2>3, <2>4 DEF BaselineIsHistory
  <2>6. LastIsLast'
    BY <2>2 DEF LastIsLast
  <2>7. HistoryInv'
    BY <2>3 DEF HistoryInv
  <2> QED BY <2>1, <2>5, <2>6, <2>7 DEF DetectorInv
<1>2. CASE UNCHANGED vars
  BY <1>2 DEF vars, DetectorInv, TypeOK, BaselineIsHistory, LastIsLast, HistoryInv
<1> QED BY <1>1, <1>2 DEF Next

LEMMA Invariant == Spec => []DetectorInv
BY DetectorInit, DetectorStep, PTL DEF Spec

\* The row, the verdict and the history are of their types: a baseline of as
\* many ticks as were folded in, means that are whole multiples of 1/Unit, and
\* sums of squares that are never negative, though a spread and its mean may be.
THEOREM DetectorTypeCorrect == Spec => []TypeOK
<1>1. DetectorInv => TypeOK
  BY DEF DetectorInv
<1> QED BY <1>1, Invariant, PTL

\* The row that check_anomaly updates tick by tick holds the mean and the sum
\* of squared deviations of the whole history, for every history: Welford's
\* update never drifts, and the stale run is the one the history ends with.
THEOREM RowIsTheHistory == Spec => []BaselineIsHistory
<1>1. DetectorInv => BaselineIsHistory
  BY DEF DetectorInv
<1> QED BY <1>1, Invariant, PTL

----------------------------------------------------------------------------
(* The verdict is the one of a rescan.                                     *)

\* A positive factor of both sides does not matter.
LEMMA Cancel ==
  ASSUME NEW a \in Int, a > 0, NEW x \in Int, NEW y \in Int
  PROVE  a * x >= a * y <=> x >= y
<1>1. ASSUME x >= y
      PROVE  a * x >= a * y
  <2>1. a * (x - y) >= 0
    BY <1>1
  <2> QED BY <2>1
<1>2. ASSUME x < y
      PROVE  a * x < a * y
  <2>1. a * (y - x) > 0
    BY <1>2
  <2> QED BY <2>1
<1> QED BY <1>1, <1>2

\* Neither does squaring naturals.
LEMMA SquaresOrder ==
  ASSUME NEW x \in Nat, NEW y \in Nat
  PROVE  x * x >= y * y <=> x >= y
<1>1. ASSUME x >= y
      PROVE  x * x >= y * y
  <2>1. x * x >= y * x /\ y * x >= y * y
    BY <1>1
  <2> QED BY <2>1
<1>2. ASSUME x < y
      PROVE  x * x < y * y
  <2>1. x * x <= x * y /\ x * y < y * y
    BY <1>2
  <2> QED BY <2>1
<1> QED BY <1>1, <1>2

LEMMA SquarePositive ==
  ASSUME NEW x \in Int, x > 0
  PROVE  x * x \in Int /\ x * x > 0
OBVIOUS

\* v stands out from n values of sum S and sum of squares Q.
StandsOutBy(n, S, Q, v, scale, z) ==
  LET d == n * v - S
  IN  /\ d * d * (n - 1) >= z * z * n * (n * Q - S * S)
      /\ Abs(d) * FloorInverse >= z * n * scale

\* The score against the running figures compares as the score against the
\* sums over the history.
LEMMA ScoresAgree ==
  ASSUME NEW n \in Nat, n >= 2, NEW stat \in Stat,
         NEW S \in Int, NEW Q \in Nat, NEW v \in Int, NEW scale \in Nat, NEW z \in Nat,
         Exact(stat, n, S, Q)
  PROVE  Exceeds(stat, n, v, scale, z) <=> StandsOutBy(n, S, Q, v, scale, z)
<1> DEFINE U == Unit
           G == FloorInverse
           d == n * v - S
           spread == n * Q - S * S
           e == U * v - stat.mean
<1>1. U \in Int /\ U > 0 /\ G \in Int /\ G > 0
  BY DetectorAssumption
<1>2. stat.mean \in Int /\ stat.sum \in Nat
  BY DEF Stat
<1>3. n * stat.mean = U * S /\ n * stat.sum = U * U * spread
  BY DEF Exact
<1>4. e \in Int /\ d \in Int /\ spread \in Int
  BY <1>1, <1>2
<1>5. n * e = U * d
  BY <1>1, <1>2, <1>3
<1>6. PICK m \in Nat : m = stat.sum
  BY <1>2
<1>7. n * m = U * U * spread
  BY <1>3, <1>6
<1>8. Exceeds(stat, n, v, scale, z) <=>
        /\ (e * G) * (e * G) * (n - 1) >= z * z * (m * G * G)
        /\ (e * G) * (e * G) >= z * z * (U * scale) * (U * scale)
  BY <1>6 DEF Exceeds
<1> HIDE DEF U, G, d, spread, e
<1>9. n * n \in Int /\ n * n > 0 /\ U * U * G * G \in Int /\ U * U * G * G > 0
  <2>1. U * U > 0 /\ G * G > 0 /\ U * U \in Int /\ G * G \in Int
    BY <1>1, SquarePositive
  <2>2. (U * U) * (G * G) > 0
    BY <2>1
  <2> QED BY <1>1, <2>1, <2>2, SquarePositive
<1>10. (e * G) * (e * G) * (n - 1) >= z * z * (m * G * G)
         <=> d * d * (n - 1) >= z * z * n * spread
  <2> DEFINE L == (e * G) * (e * G) * (n - 1)
             R == z * z * (m * G * G)
             l == d * d * (n - 1)
             r == z * z * n * spread
  <2>1. L \in Int /\ R \in Int /\ l \in Int /\ r \in Int
    BY <1>1, <1>4
  <2>2. (n * n) * L = (U * U * G * G) * l
    <3>1. (n * n) * L = (n * e) * (n * e) * G * G * (n - 1)
      BY <1>1, <1>4
    <3> QED BY <1>1, <1>4, <1>5, <3>1
  <2>3. (n * n) * R = (U * U * G * G) * r
    <3>1. (n * n) * R = n * z * z * (n * m) * G * G
      BY <1>1, <1>4
    <3> QED BY <1>1, <1>4, <1>7, <3>1
  <2> HIDE DEF L, R, l, r
  <2>4. L >= R <=> (n * n) * L >= (n * n) * R
    BY <1>9, <2>1, Cancel
  <2>5. l >= r <=> (U * U * G * G) * l >= (U * U * G * G) * r
    BY <1>9, <2>1, Cancel
  <2>6. L >= R <=> l >= r
    BY <2>2, <2>3, <2>4, <2>5
  <2> QED BY <2>6 DEF L, R, l, r
<1>11. (e * G) * (e * G) >= z * z * (U * scale) * (U * scale)
         <=> Abs(d) * G >= z * n * scale
  <2> DEFINE a == Abs(d) * G
             b == z * n * scale
             L == (e * G) * (e * G)
             R == z * z * (U * scale) * (U * scale)
  <2>1. Abs(d) \in Nat /\ Abs(d) * Abs(d) = d * d
    BY <1>4 DEF Abs
  <2>2. a \in Nat /\ b \in Nat /\ L \in Int /\ R \in Int
    BY <1>1, <1>4, <2>1
  <2>3. (n * n) * L = (U * U) * (a * a)
    <3>1. (n * n) * L = (n * e) * (n * e) * G * G
      BY <1>1, <1>4
    <3>2. (n * n) * L = (U * U) * (d * d) * (G * G)
      BY <1>1, <1>4, <1>5, <3>1
    <3>3. a * a = (d * d) * (G * G)
      <4>1. a * a = (Abs(d) * Abs(d)) * (G * G)
        BY <1>1, <2>1
      <4> QED BY <2>1, <4>1
    <3> QED BY <1>1, <1>4, <3>2, <3>3
  <2>4. (n * n) * R = (U * U) * (b * b)
    BY <1>1
  <2>5. U * U \in Int /\ U * U > 0 /\ a * a \in Int /\ b * b \in Int
    BY <1>1, <2>2, SquarePositive
  <2> HIDE DEF a, b, L, R
  <2>6. L >= R <=> (n * n) * L >= (n * n) * R
    BY <1>9, <2>2, Cancel
  <2>7. a * a >= b * b <=> (U * U) * (a * a) >= (U * U) * (b * b)
    BY <2>5, Cancel
  <2>8. a * a >= b * b <=> a >= b
    BY <2>2, SquaresOrder
  <2>9. L >= R <=> a >= b
    BY <2>3, <2>4, <2>6, <2>7, <2>8
  <2> QED BY <2>9 DEF a, b, L, R
<1> QED BY <1>8, <1>10, <1>11 DEF StandsOutBy, d, spread, G

\* The values before the last are those of the history before the tick.
LEMMA EarlierValues ==
  ASSUME NEW h \in Seq(Tick), NEW t \in Tick, NEW s \in Series
  PROVE  SubSeq(F!Values(Append(h, t), s), 1, Len(h)) = F!Values(h, s)
<1> DEFINE n == Len(h)
           longer == F!Values(Append(h, t), s)
           shorter == SubSeq(longer, 1, n)
<1>1. n \in Nat /\ Append(h, t) \in Seq(Tick) /\ Len(Append(h, t)) = n + 1
  BY HistoryAppend
<1>2. longer \in Seq(Int) /\ Len(longer) = n + 1
  BY <1>1, ValuesAreInt
<1>3. \A i \in 1..n : longer[i] = F!Values(h, s)[i]
  BY ValuesAppend
<1>4. F!Values(h, s) \in [1..n -> Int]
  BY ValuesAreInt
<1> HIDE DEF n, longer
<1>5. shorter = [i \in 1..n |-> longer[i]]
  BY <1>1, <1>2
<1>6. F!Values(h, s) = [i \in 1..n |-> F!Values(h, s)[i]]
  BY <1>4
<1> HIDE DEF shorter
<1>7. shorter = F!Values(h, s)
  BY <1>3, <1>5, <1>6
<1> QED BY <1>7 DEF shorter, n, longer

\* A series is over the threshold when its last value stands out.
LEMMA OverStandsOut ==
  ASSUME DetectorInv, NEW tick \in Tick, NEW z \in ZThresholds, NEW staleThreshold,
         CheckAnomaly(tick, z, staleThreshold), NEW s \in Series
  PROVE  s \in Over(tick, z)
           <=> F!StandsOut(F!Values(Append(ticks, tick), s), F!Scale(tick, s), z)
<1> DEFINE n == Len(ticks)
           old == F!Values(ticks, s)
           values == F!Values(Append(ticks, tick), s)
           v == Observe(tick, Previous(ticks, tick))[s]
           S == F!Sum(old)
           Q == F!SumOfSquares(old)
           scale == Scale(tick, s)
           stat == baseline.stats[s]
<1>1. /\ n \in Nat /\ baseline.count = n /\ ticks \in Seq(Tick)
      /\ n > 0 => Previous(ticks, tick) = baseline.last.price
  BY FoldedIn DEF DetectorInv, TypeOK
<1>2. S \in Int /\ Q \in Nat
  BY DEF DetectorInv, HistoryInv
<1>3. stat \in Stat /\ Exact(stat, n, S, Q)
  BY DEF DetectorInv, TypeOK, BaselineIsHistory, Exact
<1>4. values[n + 1] = v /\ v \in Int
  BY <1>1, ValuesAppend
<1>5. Len(values) = n + 1
  <2>1. Append(ticks, tick) \in Seq(Tick) /\ Len(Append(ticks, tick)) = n + 1
    BY <1>1, HistoryAppend
  <2> QED BY <2>1, ValuesAreInt
<1>6. SubSeq(values, 1, n) = old
  BY <1>1, EarlierValues
<1>7. z \in Nat /\ tick.price \in Nat /\ tick.volume \in Nat
  BY DetectorAssumption DEF Tick
<1>8. scale \in Nat /\ F!Scale(tick, s) = scale
  BY <1>7 DEF Scale, F!Scale, Larger, F!AtLeastOne, Series
<1> HIDE DEF n, old, values, v, S, Q, scale, stat
<1>9. s \in Over(tick, z) <=> n >= 2 /\ Exceeds(stat, n, v, scale, z)
  <2>1. CASE n >= 2
    BY <1>1, <2>1 DEF Over, v, scale, stat
  <2>2. CASE ~(n >= 2)
    BY <1>1, <2>2 DEF Over
  <2> QED BY <2>1, <2>2
<1>10. F!StandsOut(values, scale, z) <=> n >= 2 /\ StandsOutBy(n, S, Q, v, scale, z)
  <2>1. Len(values) - 1 = n
    BY <1>1, <1>5
  <2>2. F!StandsOut(values, scale, z) <=>
          LET d == n * values[n + 1] - F!Sum(SubSeq(values, 1, n))
              earlier == SubSeq(values, 1, n)
          IN  /\ n >= 2
              /\ d * d * (n - 1) >= z * z * n *
                   (n * F!SumOfSquares(earlier) - F!Sum(earlier) * F!Sum(earlier))
              /\ F!Abs(d) * FloorInverse >= z * n * scale
    BY <2>1, Zenon DEF F!StandsOut
  <2>3. \A x : F!Abs(x) = Abs(x)
    BY DEF F!Abs, Abs
  <2> QED BY <1>4, <1>6, <2>2, <2>3, Zenon DEF S, Q, StandsOutBy
<1>11. n >= 2 => (Exceeds(stat, n, v, scale, z) <=> StandsOutBy(n, S, Q, v, scale, z))
  BY <1>1, <1>2, <1>3, <1>4, <1>7, <1>8, ScoresAgree
<1> QED BY <1>8, <1>9, <1>10, <1>11, Zenon DEF values, scale

\* A call of check_anomaly is a rescan.
LEMMA CheckIsObserve ==
  ASSUME DetectorInv, NEW tick \in Tick,
         NEW z \in ZThresholds, NEW staleThreshold \in StaleThresholds,
         CheckAnomaly(tick, z, staleThreshold)
  PROVE  F!Observe(tick, z, staleThreshold)
<1> DEFINE h == Append(ticks, tick)
           n == Len(ticks)
           over == {s \in Series : n + 1 > MinSamples
                      /\ F!StandsOut(F!Values(h, s), F!Scale(tick, s), z)}
           judgement == [triggered |-> over,
                         stale |-> n + 1 > MinSamples /\ F!StaleRun(h) >= staleThreshold,
                         stale_count |-> F!StaleRun(h)]
<1>1. /\ n \in Nat /\ baseline.count = n
      /\ ticks' = h /\ Len(h) = n + 1 /\ h[n + 1] = tick
  BY FoldedIn
<1>2. F!Judgement(h, z, staleThreshold) = judgement
  <2>1. F!Series = Series
    BY DEF F!Series, Series
  <2> HIDE DEF h, n
  <2> QED BY <1>1, <2>1, Zenon DEF F!Judgement
<1>3. baseline'.stale = F!StaleRun(h)
  BY StaleFollows
<1>4. \A s \in Series :
        s \in Over(tick, z) <=> F!StandsOut(F!Values(h, s), F!Scale(tick, s), z)
  BY OverStandsOut
<1> HIDE DEF h, n
<1>5. verdict' = judgement
  <2>1. CASE FirstTick(tick)
    <3>1. n = 0 /\ verdict' = NoVerdict /\ baseline'.stale = 0
      BY <1>1, <2>1 DEF FirstTick
    <3>2. ~(n + 1 > MinSamples)
      BY <3>1, DetectorAssumption
    <3> QED BY <1>3, <3>1, <3>2 DEF NoVerdict
  <2>2. CASE LaterTick(tick, z, staleThreshold)
    <3>1. verdict' = [triggered |-> Triggered(tick, z),
                      stale |-> n + 1 > MinSamples /\ baseline'.stale >= staleThreshold,
                      stale_count |-> baseline'.stale]
      BY <1>1, <2>2 DEF LaterTick
    <3>2. Triggered(tick, z) = over
      <4>1. Over(tick, z) \subseteq Series
        BY DEF Over
      <4> QED BY <1>1, <1>4, <4>1 DEF Triggered
    <3> QED BY <1>3, <3>1, <3>2
  <2> QED BY <2>1, <2>2 DEF CheckAnomaly
<1> QED BY <1>1, <1>2, <1>5 DEF F!Observe, h

\* The docstring of TickerBaseline, proved: the verdicts of the running row are
\* exactly those of reading the full history again at every poll, for every
\* history and every threshold, also when thresholds change in between.
THEOREM RunningRowIsRescan == Spec => RescanSpec
<1>1. Init => F!Init
  BY DEF Init, NoVerdict, F!Init
<1>2. DetectorInv /\ [Next]_vars => [F!Next]_<<ticks, verdict>>
  <2> SUFFICES ASSUME DetectorInv, [Next]_vars
               PROVE  [F!Next]_<<ticks, verdict>>
    OBVIOUS
  <2>1. ASSUME NEW tick \in Tick,
               NEW z \in ZThresholds, NEW staleThreshold \in StaleThresholds,
               CheckAnomaly(tick, z, staleThreshold)
        PROVE  F!Next
    BY <2>1, CheckIsObserve DEF F!Next
  <2>2. CASE UNCHANGED vars
    BY <2>2 DEF vars
  <2> QED BY <2>1, <2>2 DEF Next
<1> QED BY <1>1, <1>2, Invariant, PTL DEF Spec, RescanSpec, F!Spec

----------------------------------------------------------------------------
(* What the page is backfilled with.                                       *)

\* The step of the mean is exact.
LEMMA DeltaDivides ==
  ASSUME NEW n \in Nat, n > 0, Divisible(n),
         NEW S \in Int, NEW Q \in Nat, NEW v \in Int, NEW stat \in Stat,
         Exact(stat, n, S, Q)
  PROVE  LET delta == Unit * v - stat.mean
             w == delta \div (n + 1)
         IN  delta \in Int /\ w \in Int /\ (n + 1) * w = delta
<1> DEFINE c == n + 1
           delta == Unit * v - stat.mean
<1>1. PICK k \in Nat : Unit = (n * c) * k
  BY DEF Divisible
<1>2. stat.mean \in Int /\ n * stat.mean = Unit * S /\ Unit \in Nat
  BY DetectorAssumption DEF Stat, Exact
<1>3. n * stat.mean = n * (c * k * S)
  BY <1>1, <1>2
<1>4. stat.mean = c * k * S
  BY <1>2, <1>3
<1>5. delta = c * (k * (n * v - S))
  BY <1>1, <1>4
<1>6. k * (n * v - S) \in Int /\ delta \in Int /\ c \in Nat \ {0}
  BY <1>2
<1>7. delta \div c = k * (n * v - S)
  BY <1>5, <1>6, Divided
<1> QED BY <1>5, <1>6, <1>7

\* A value that exceeds a baseline with the value folded in exceeds the
\* baseline without it.
LEMMA Dampened ==
  ASSUME NEW n \in Nat, n >= 2, Divisible(n),
         NEW S \in Int, NEW Q \in Nat, NEW v \in Int, NEW stat \in Stat,
         NEW scale \in Nat, NEW z \in Nat,
         Exact(stat, n, S, Q),
         Exceeds(WelfordUpdate(stat, n + 1, v), n + 1, v, scale, z)
  PROVE  Exceeds(stat, n, v, scale, z)
<1> DEFINE G == FloorInverse
           next == WelfordUpdate(stat, n + 1, v)
           f == Unit * scale
<1>1. G \in Int /\ G > 0 /\ G * G \in Int /\ G * G > 0 /\ Unit \in Nat
  BY DetectorAssumption, SquarePositive
<1>2. PICK d \in Int, w \in Int :
        /\ d = Unit * v - stat.mean /\ w = d \div (n + 1)
        /\ (n + 1) * w = d
  <2>1. LET delta == Unit * v - stat.mean
            w == delta \div (n + 1)
        IN  delta \in Int /\ w \in Int /\ (n + 1) * w = delta
    BY DeltaDivides
  <2> QED BY <2>1, Zenon
<1>3. PICK e \in Int : e = d - w
  BY <1>2
<1>4. stat.mean \in Int /\ stat.sum \in Nat
  BY DEF Stat
<1>5. PICK m \in Nat : m = stat.sum
  BY <1>4
<1>6. next.mean = stat.mean + w /\ next.sum = m + d * e
  BY <1>1, <1>2, <1>3, <1>4, <1>5 DEF WelfordUpdate
<1>7. Unit * v - next.mean = e
  BY <1>1, <1>2, <1>3, <1>4, <1>6
<1>8. n * w = e /\ d = e + w
  BY <1>2, <1>3
<1>9. /\ (e * G) * (e * G) * ((n + 1) - 1) >= z * z * ((m + d * e) * G * G)
      /\ (e * G) * (e * G) >= z * z * f * f
  BY <1>6, <1>7 DEF Exceeds
<1>10. Exceeds(stat, n, v, scale, z) <=>
         /\ (d * G) * (d * G) * (n - 1) >= z * z * (m * G * G)
         /\ (d * G) * (d * G) >= z * z * f * f
  BY <1>2, <1>5 DEF Exceeds
<1>11. f \in Int
  BY <1>1
<1> HIDE DEF G, f, next
<1>12. w * w \in Int /\ w * w >= 0
  OBVIOUS
<1>13. d * d = (n + 1) * (n + 1) * (w * w) /\ e * e = n * n * (w * w)
       /\ d * e = n * (n + 1) * (w * w)
  <2>1. PICK a \in Int : a = (n + 1) * w
    OBVIOUS
  <2>2. PICK b \in Int : b = n * w
    OBVIOUS
  <2>3. a * a = (n + 1) * (n + 1) * (w * w)
    BY <2>1
  <2>4. b * b = n * n * (w * w)
    BY <2>2
  <2>5. a * b = n * (n + 1) * (w * w)
    BY <2>1, <2>2
  <2>6. d = a /\ e = b
    BY <1>2, <1>8, <2>1, <2>2
  <2> QED BY <2>3, <2>4, <2>5, <2>6, Zenon
<1>14. (d * G) * (d * G) >= z * z * f * f
  <2>1. d * d - e * e = (2 * n + 1) * (w * w)
    BY <1>13
  <2>2. d * d - e * e >= 0
    BY <1>12, <2>1
  <2>3. (G * G) * (d * d - e * e) >= 0
    BY <1>1, <2>2
  <2>4. (d * G) * (d * G) - (e * G) * (e * G) >= 0
    BY <1>1, <2>3
  <2>5. (d * G) * (d * G) \in Int /\ (e * G) * (e * G) \in Int /\ z * z * f * f \in Int
    BY <1>1, <1>11
  <2> QED BY <1>9, <2>4, <2>5
<1>15. (d * G) * (d * G) * (n - 1) >= z * z * (m * G * G)
  <2>1. e * e * n >= z * z * (m + d * e)
    <3> DEFINE x == e * e * n
               y == z * z * (m + d * e)
    <3>1. x \in Int /\ y \in Int
      OBVIOUS
    <3>2. (G * G) * x >= (G * G) * y
      <4>1. (G * G) * x = (e * G) * (e * G) * ((n + 1) - 1)
        BY <1>1
      <4>2. (G * G) * y = z * z * ((m + d * e) * G * G)
        BY <1>1
      <4> QED BY <1>9, <4>1, <4>2
    <3> HIDE DEF x, y
    <3>3. x >= y
      BY <1>1, <3>1, <3>2, Cancel
    <3> QED BY <3>3 DEF x, y
  <2>2. d * d * (n - 1) >= e * e * n
    <3>1. d * d * (n - 1) - e * e * n = (n * n - n - 1) * (w * w)
      BY <1>13
    <3>2. n * n - n - 1 >= 0 /\ n * n - n - 1 \in Int
      <4>1. n * n >= 2 * n
        OBVIOUS
      <4> QED BY <4>1
    <3>3. (n * n - n - 1) * (w * w) >= 0
      BY <1>12, <3>2
    <3> QED BY <3>1, <3>3
  <2>3. z * z * (m + d * e) >= z * z * m
    <3>1. d * e >= 0
      <4>1. n * (n + 1) >= 0 /\ n * (n + 1) \in Int
        OBVIOUS
      <4> QED BY <1>12, <1>13, <4>1
    <3>2. z * z >= 0 /\ z * z \in Int
      OBVIOUS
    <3>3. (z * z) * (d * e) >= 0
      BY <3>1, <3>2
    <3> QED BY <3>3
  <2>4. d * d * (n - 1) >= z * z * m
    BY <2>1, <2>2, <2>3
  <2> DEFINE x == d * d * (n - 1)
             y == z * z * m
  <2>5. x \in Int /\ y \in Int
    OBVIOUS
  <2>6. (G * G) * x >= (G * G) * y
    <3> HIDE DEF x, y
    <3>1. x >= y
      BY <2>4 DEF x, y
    <3> QED BY <1>1, <2>5, <3>1, Cancel
  <2>7. (G * G) * x = (d * G) * (d * G) * (n - 1)
    BY <1>1
  <2>8. (G * G) * y = z * z * (m * G * G)
    BY <1>1
  <2> QED BY <2>6, <2>7, <2>8
<1> QED BY <1>10, <1>14, <1>15

\* What get_baseline shows as hot on a page that loads was over the threshold
\* when it came, whatever the threshold and the history: folding a value into
\* the baseline it is scored against never makes it stand out more.
THEOREM BackfillAddsNothing == Spec => BackfillIsDampened
<1>1. DetectorInv /\ [Next]_vars =>
        [\A z \in ZThresholds :
           baseline.count >= 2 => Backfilled(z)' \subseteq Over(baseline'.last, z)]_vars
  <2> SUFFICES ASSUME DetectorInv, Next, NEW z \in ZThresholds, baseline.count >= 2,
                      NEW s \in Backfilled(z)'
               PROVE  s \in Over(baseline'.last, z)
    OBVIOUS
  <2>1. PICK tick \in Tick, z0 \in ZThresholds, staleThreshold \in StaleThresholds :
          CheckAnomaly(tick, z0, staleThreshold)
    BY DEF Next
  <2> DEFINE n == Len(ticks)
             old == F!Values(ticks, s)
             v == Observe(tick, baseline.last.price)[s]
             stat == baseline.stats[s]
             scale == Scale(tick, s)
  <2>2. s \in Series /\ s # "volatility"
    BY DEF Backfilled
  <2>3. /\ n \in Nat /\ n < MaxTicks /\ baseline.count = n /\ n >= 2
        /\ baseline'.count = n + 1 /\ baseline'.last = tick
        /\ ticks \in Seq(Tick)
    BY <2>1, FoldedIn DEF DetectorInv, TypeOK
  <2>4. LaterTick(tick, z0, staleThreshold)
    BY <2>1, <2>3 DEF CheckAnomaly, FirstTick
  <2>5. v = tick[s] /\ v \in Int /\ scale \in Nat /\ z \in Nat
    <3>1. tick.price \in Nat /\ tick.volume \in Nat /\ tick.spread \in Int
      BY DetectorAssumption DEF Tick
    <3>2. tick[s] \in Int
      BY <2>2, <3>1 DEF Series
    <3>3. v = tick[s]
      BY <2>2 DEF Observe, Series
    <3> QED BY <2>2, <3>1, <3>2, <3>3, DetectorAssumption DEF Scale, Larger, Series
  <2>6. baseline'.stats[s] = WelfordUpdate(stat, n + 1, v)
    BY <2>2, <2>3, <2>4 DEF LaterTick
  <2>7. Exceeds(baseline'.stats[s], baseline'.count, baseline'.last[s],
                Scale(baseline'.last, s), z)
    BY DEF Backfilled, BackfilledFrom
  <2>8. F!Sum(old) \in Int /\ F!SumOfSquares(old) \in Nat
    BY <2>2 DEF DetectorInv, HistoryInv
  <2>9. stat \in Stat /\ Exact(stat, n, F!Sum(old), F!SumOfSquares(old))
    BY <2>2 DEF DetectorInv, TypeOK, BaselineIsHistory, Exact
  <2>10. Divisible(n)
    <3>1. n \in 1 .. MaxTicks - 1
      BY <2>3, DetectorAssumption
    <3>2. Unit % (n * (n + 1)) = 0
      BY <3>1, DetectorAssumption
    <3>3. n * (n + 1) \in Nat \ {0}
      BY <2>3
    <3> QED BY <3>2, <3>3, Multiple, DetectorAssumption DEF Divisible
  <2> HIDE DEF n, old, v, stat, scale
  <2>11. Exceeds(WelfordUpdate(stat, n + 1, v), n + 1, v, scale, z)
    BY <2>3, <2>5, <2>6, <2>7, Zenon DEF scale
  <2>12. Exceeds(stat, n, v, scale, z)
    BY <2>3, <2>5, <2>8, <2>9, <2>10, <2>11, Dampened
  <2> QED BY <2>2, <2>3, <2>12 DEF Over, v, stat, scale
<1> QED BY <1>1, Invariant, PTL DEF Spec, BackfillIsDampened

----------------------------------------------------------------------------
(* The synthetic sample.                                                   *)

\* Products of naturals grow with their factors.
LEMMA ProductsGrow ==
  ASSUME NEW a \in Nat, NEW b \in Nat, NEW x \in Nat, NEW y \in Nat, a >= b, x >= y
  PROVE  a * x \in Nat /\ b * y \in Nat /\ a * x >= b * y
<1>1. a * x >= b * x /\ b * x >= b * y
  <2>1. (a - b) * x >= 0 /\ b * (x - y) >= 0
    OBVIOUS
  <2> QED BY <2>1
<1> QED BY <1>1

\* A deviation of z + 1 scales crosses z floors, where the floor is relative to
\* the value: scale + value deviates no more than the narrower part allows.
LEMMA WideEnough ==
  ASSUME NEW z \in Nat, NEW g \in Nat, z * (z + 1) <= g
  PROVE  g - z \in Nat /\ (z + 1) * (g - z) >= z * g
<1>1. z * (z + 1) = z * z + z /\ z * z >= 0
  OBVIOUS
<1>2. g - z \in Nat
  BY <1>1
<1>3. (z + 1) * (g - z) - z * g = g - z * (z + 1)
  OBVIOUS
<1> QED BY <1>2, <1>3

\* A test alert's value crosses the threshold, whatever the baseline it is made
\* from, if z * (z + 1) does not exceed FloorInverse: with the code's 1/2000
\* every z up to 44.
THEOREM TestAlertsCross == Spec => []SyntheticCrosses
<1>1. DetectorInv => SyntheticCrosses
  <2> SUFFICES ASSUME DetectorInv, NEW s \in {"price", "volume"}, NEW z \in ZThresholds,
                      Synthesizes, z * (z + 1) <= FloorInverse
               PROVE  LET stat == baseline.stats[s]
                          deviation == SyntheticDeviation(s, z)
                          wide == FloorInverse - z
                      IN  /\ deviation >= z * z * stat.sum * FloorInverse * FloorInverse
                          /\ deviation * wide * wide
                               >= z * z * stat.mean * stat.mean * (baseline.count - 1)
                                    * FloorInverse * FloorInverse
                          /\ s = "volume" =>
                               deviation >= z * z * Unit * Unit * (baseline.count - 1)
    BY DEF SyntheticCrosses
  <2> DEFINE G == FloorInverse
             U == Unit
             wide == G - z
  <2>0. /\ baseline.stats[s] \in Stat /\ baseline.count \in Nat
        /\ baseline.stats[s].mean \in Nat
    <3>1. baseline.stats[s] \in Stat /\ s \in Series /\ s # "spread"
      BY DEF DetectorInv, TypeOK, Series
    <3>2. baseline.count \in Nat /\ baseline.count > 0
      BY DetectorAssumption DEF Synthesizes, DetectorInv, TypeOK
    <3>3. PICK S \in Nat : baseline.count * baseline.stats[s].mean = Unit * S
      BY <3>1 DEF DetectorInv, BaselineIsHistory, HistoryInv
    <3>4. PICK mean \in Int : mean = baseline.stats[s].mean
      BY <3>1 DEF Stat
    <3>5. PICK n \in Nat : n = baseline.count /\ n > 0
      BY <3>2
    <3>6. n * mean >= 0
      <4>1. Unit \in Nat /\ Unit * S >= 0
        BY DetectorAssumption
      <4> QED BY <3>3, <3>4, <3>5, <4>1
    <3>7. mean >= 0
      <4>1. SUFFICES ASSUME mean <= -1 PROVE FALSE
        OBVIOUS
      <4>2. n * mean <= -n
        BY <3>5, <4>1
      <4> QED BY <3>5, <3>6, <4>2
    <3> QED BY <3>1, <3>2, <3>4, <3>7
  <2>1. PICK m \in Nat, q \in Nat :
          m = baseline.stats[s].mean /\ q = baseline.stats[s].sum
    BY <2>0 DEF Stat
  <2>2. PICK n \in Nat : n = baseline.count - 1
    BY DetectorAssumption DEF Synthesizes, DetectorInv, TypeOK
  <2>3. PICK h \in Nat : h = SyntheticScale(s) /\ h >= m /\ (s = "volume" => h >= U)
    <3>1. U \in Nat
      BY DetectorAssumption
    <3> QED BY <2>1, <3>1 DEF SyntheticScale, Larger
  <2>4. G \in Nat /\ U \in Nat /\ z \in Nat /\ wide \in Nat /\ (z + 1) * wide >= z * G
    BY DetectorAssumption, WideEnough
  <2>5. PICK e \in Nat : /\ e = EffectiveVariance(baseline.stats[s], baseline.count, h)
                         /\ e >= q * G * G /\ e >= h * h * n
    <3>1. EffectiveVariance(baseline.stats[s], baseline.count, h)
            = IF q * G * G < h * h * n THEN h * h * n ELSE q * G * G
      BY <2>1, <2>2 DEF EffectiveVariance, Larger
    <3>2. q * G * G \in Nat /\ h * h * n \in Nat
      BY <2>4
    <3> HIDE DEF G
    <3> DEFINE x == q * G * G
               y == h * h * n
    <3> HIDE DEF x, y
    <3> QED BY <3>1, <3>2 DEF x, y
  <2>6. SyntheticDeviation(s, z) = (z + 1) * (z + 1) * e
    BY <2>3, <2>5 DEF SyntheticDeviation
  <2> HIDE DEF G, U
  <2>7. /\ z * z \in Nat /\ (z + 1) * (z + 1) \in Nat
        /\ (z + 1) * (z + 1) >= z * z
    BY <2>4, ProductsGrow
  <2>8. (z + 1) * (z + 1) * e >= z * z * q * G * G
    <3>1. q * G * G \in Nat
      BY <2>4
    <3>2. ((z + 1) * (z + 1)) * e >= (z * z) * (q * G * G)
      BY <2>5, <2>7, <3>1, ProductsGrow
    <3> QED BY <2>4, <3>2
  <2>9. (z + 1) * (z + 1) * e * wide * wide >= z * z * m * m * n * G * G
    <3> HIDE DEF wide
    <3>1. PICK a \in Nat : a = (z + 1) * wide
      BY <2>4
    <3>2. PICK b \in Nat : b = z * G
      BY <2>4
    <3>3. a * a \in Nat /\ b * b \in Nat /\ a * a >= b * b
      BY <2>4, <3>1, <3>2, ProductsGrow
    <3>4. m * m \in Nat /\ h * h \in Nat /\ h * h >= m * m
      BY <2>3, ProductsGrow
    <3>5. (m * m) * n \in Nat /\ (h * h) * n \in Nat /\ (h * h) * n >= (m * m) * n
      BY <3>4, ProductsGrow
    <3>6. e >= (m * m) * n
      BY <2>5, <3>5
    <3>7. (a * a) * e >= (b * b) * ((m * m) * n)
      BY <3>3, <3>5, <3>6, ProductsGrow
    <3>8. (z + 1) * (z + 1) * e * wide * wide = (a * a) * e
      BY <2>4, <3>1
    <3>9. z * z * m * m * n * G * G = (b * b) * ((m * m) * n)
      BY <2>4, <3>2
    <3> QED BY <3>7, <3>8, <3>9
  <2>10. s = "volume" => (z + 1) * (z + 1) * e >= z * z * U * U * n
    <3>1. SUFFICES ASSUME s = "volume"
                   PROVE  (z + 1) * (z + 1) * e >= z * z * U * U * n
      OBVIOUS
    <3>2. U * U \in Nat /\ h * h \in Nat /\ h * h >= U * U
      BY <2>3, <2>4, <3>1, ProductsGrow
    <3>3. (U * U) * n \in Nat /\ (h * h) * n \in Nat /\ (h * h) * n >= (U * U) * n
      BY <3>2, ProductsGrow
    <3>4. e >= (U * U) * n
      BY <2>5, <3>3
    <3>5. ((z + 1) * (z + 1)) * e >= (z * z) * ((U * U) * n)
      BY <2>7, <3>3, <3>4, ProductsGrow
    <3> QED BY <2>4, <3>5
  <2> QED BY <2>1, <2>2, <2>6, <2>8, <2>9, <2>10, Zenon DEF G, U
<1> QED BY <1>1, Invariant, PTL
=============================================================================
