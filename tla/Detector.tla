------------------------------ MODULE Detector ------------------------------
(***************************************************************************)
(* check_anomaly (app/detector.py) on one ticker: each tick is scored      *)
(* against the ticker_baseline row, then folded into it by Welford's       *)
(* algorithm.                                                              *)
(*                                                                         *)
(* The code computes with floats; this module computes exactly, in         *)
(* multiples of 1/Unit, where Unit is a multiple of every sample count and *)
(* of every product of two successive ones.  Means are stored times Unit,  *)
(* sums of squares times Unit^2, and scores are compared squared, so that  *)
(* no root is taken.                                                       *)
(***************************************************************************)
EXTENDS Integers, Sequences, FiniteSets

CONSTANTS
  Prices, Volumes, Spreads,   \* what a provider may report: a spread is ask -
                \* bid and negative if the quote is crossed or has no ask
  ZThresholds, StaleThresholds,   \* RuntimeConfig values an operator may set
  MinSamples,   \* no verdict at this many samples or fewer (5)
  FloorInverse, \* 1 / settings.min_stddev_fraction
  Unit,
  MaxTicks      \* bound

ASSUME DetectorAssumption ==
  /\ Prices \subseteq Nat /\ Volumes \subseteq Nat /\ Spreads \subseteq Int
  /\ ZThresholds \subseteq Nat \ {0} /\ StaleThresholds \subseteq Nat \ {0}
  /\ MinSamples \in Nat \ {0} /\ FloorInverse \in Nat \ {0}
  /\ MaxTicks \in Nat
  /\ Unit \in Nat \ {0}
  /\ \A n \in 1..(MaxTicks - 1) : Unit % (n * (n + 1)) = 0

VARIABLES
  baseline,  \* the ticker_baseline row; NoBaseline before the first tick
  verdict,   \* the AnomalyResult of the last call
  ticks      \* history: the ticks folded in so far

vars == <<baseline, verdict, ticks>>

Series == {"price", "volume", "spread", "volatility"}

Tick == [price : Prices, volume : Volumes, spread : Spreads]

\* A series' running mean and sum of squares (M2).
Zero == [mean |-> 0, sum |-> 0]

NoTick == [price |-> 0, volume |-> 0, spread |-> 0]

\* `last' is last_price, last_volume and last_spread.
NoBaseline == [count |-> 0, stats |-> [s \in Series |-> Zero],
               last |-> NoTick, stale |-> 0]

NoVerdict == [triggered |-> {}, stale |-> FALSE, stale_count |-> 0]

Init ==
  /\ baseline = NoBaseline
  /\ verdict = NoVerdict
  /\ ticks = <<>>

----------------------------------------------------------------------------
Abs(n) == IF n < 0 THEN -n ELSE n

Larger(m, n) == IF m < n THEN n ELSE m

\* What the four series observe of a tick, `previous' being the last price.
Observe(tick, previous) ==
  [price |-> tick.price, volume |-> tick.volume, spread |-> tick.spread,
   volatility |-> Abs(tick.price - previous)]

\* Mutant of WelfordUpdate: delta2 has its operands exchanged.
WelfordUpdateNegated(stat, count, value) ==
  LET delta == Unit * value - stat.mean
      mean == stat.mean + delta \div count
  IN  [mean |-> mean, sum |-> stat.sum + delta * (mean - Unit * value)]

\* Mutant of WelfordUpdate: the old mean is used twice.
WelfordUpdateOldMean(stat, count, value) ==
  LET delta == Unit * value - stat.mean
  IN  [mean |-> stat.mean + delta \div count, sum |-> stat.sum + delta * delta]

\* _welford_update: `count' includes the new value.
WelfordUpdate(stat, count, value) ==
  LET delta == Unit * value - stat.mean
      mean == stat.mean + delta \div count
  IN  [mean |-> mean, sum |-> stat.sum + delta * (Unit * value - mean)]

\* The magnitude each series' deviation floor is relative to.
Scale(tick, s) ==
  CASE s = "price" -> tick.price
    [] s = "volume" -> Larger(tick.volume, 1)
    [] OTHER -> Larger(tick.price, 1)

\* |value - mean| / max(stddev, scale / FloorInverse) >= z, for a baseline of
\* `count' samples, times the denominators and squared.
Exceeds(stat, count, value, scale, z) ==
  LET deviation == (Unit * value - stat.mean) * FloorInverse
      variance == stat.sum * FloorInverse * FloorInverse   \* times count - 1
      floor == Unit * scale
  IN  /\ deviation * deviation * (count - 1) >= z * z * variance
      /\ deviation * deviation >= z * z * floor * floor

\* A price of zero over a price series without variance divides by zero.
Divides(tick) ==
  baseline.count >= 2 /\ baseline.stats["price"].sum = 0 => tick.price # 0

\* The series at least z deviations from the baseline.
Over(tick, z) ==
  LET value == Observe(tick, baseline.last.price)
  IN  {s \in Series :
         /\ baseline.count >= 2
         /\ Exceeds(baseline.stats[s], baseline.count, value[s], Scale(tick, s), z)}

\* Mutant of Triggered: the warm-up is one sample short.
TriggeredEarly(tick, z) == {s \in Over(tick, z) : baseline.count + 1 >= MinSamples}

\* The signals, scored against the baseline before the tick is folded in.
Triggered(tick, z) == {s \in Over(tick, z) : baseline.count + 1 > MinSamples}

FirstTick(tick) ==
  /\ baseline.count = 0
  /\ baseline' = [count |-> 1,
                  stats |-> [s \in Series |->
                     [mean |-> Unit * Observe(tick, tick.price)[s], sum |-> 0]],
                  last |-> tick,
                  stale |-> 0]
  /\ verdict' = NoVerdict

LaterTick(tick, z, staleThreshold) ==
  LET count == baseline.count + 1
      value == Observe(tick, baseline.last.price)
      stale == IF tick.price = baseline.last.price /\ tick.volume = 0
               THEN baseline.stale + 1 ELSE 0
  IN  /\ baseline.count > 0
      /\ Divides(tick)
      /\ baseline' = [count |-> count,
                      stats |-> [s \in Series |->
                         WelfordUpdate(baseline.stats[s], count, value[s])],
                      last |-> tick,
                      stale |-> stale]
      /\ verdict' = [triggered |-> Triggered(tick, z),
                     stale |-> count > MinSamples /\ stale >= staleThreshold,
                     stale_count |-> stale]

CheckAnomaly(tick, z, staleThreshold) ==
  /\ Len(ticks) < MaxTicks
  /\ FirstTick(tick) \/ LaterTick(tick, z, staleThreshold)
  /\ ticks' = Append(ticks, tick)

\* Mutant of BackfilledFrom: the deviation has no floor.
BackfilledFromBare(row, s, z) == Exceeds(row.stats[s], row.count, row.last[s], 0, z)

BackfilledFrom(row, s, z) ==
  Exceeds(row.stats[s], row.count, row.last[s], Scale(row.last, s), z)

\* current_zscores, and what get_baseline shows of them: the series whose last
\* value is z deviations from a baseline that has it folded in.  A deviation of
\* zero over a floor of zero divides by zero.
Backfilled(z) ==
  {s \in Series \ {"volatility"} :
     /\ baseline.count >= 2
     /\ baseline.stats[s].sum + Scale(baseline.last, s) > 0
     /\ BackfilledFrom(baseline, s, z)}

\* Mutant of EffectiveVariance: the floor is left out.
EffectiveVarianceBare(stat, count, scale) == stat.sum * FloorInverse * FloorInverse

\* _effective_stddev, squared and times the denominators as in Exceeds.
EffectiveVariance(stat, count, scale) ==
  Larger(stat.sum * FloorInverse * FloorInverse, scale * scale * (count - 1))

\* synthetic_anomalous_sample refuses a baseline that is not warm.
Synthesizes == baseline.count > MinSamples

\* Its scale is the mean's, where check_anomaly's will be the value's.
SyntheticScale(s) ==
  CASE s = "price" -> baseline.stats["price"].mean
    [] s = "volume" -> Larger(baseline.stats["volume"].mean, Unit)
    [] OTHER -> Larger(baseline.stats["price"].mean, Unit)

\* (synthetic_value - mean)^2: z + 1 effective deviations.
SyntheticDeviation(s, z) ==
  (z + 1) * (z + 1)
    * EffectiveVariance(baseline.stats[s], baseline.count, SyntheticScale(s))

\* The thresholds are read anew for every tick.
Next ==
  \E tick \in Tick, z \in ZThresholds, staleThreshold \in StaleThresholds :
    CheckAnomaly(tick, z, staleThreshold)

Spec == Init /\ [][Next]_vars

----------------------------------------------------------------------------
(* Properties.                                                             *)

Stat == [mean : Int, sum : Nat]

TypeOK ==
  /\ baseline \in [count : 0..MaxTicks, stats : [Series -> Stat], last : [price : Nat, volume : Nat, spread : Int], stale : Nat]
  /\ verdict \in [triggered : SUBSET Series, stale : BOOLEAN, stale_count : Nat]
  /\ ticks \in Seq(Tick)

F == INSTANCE FullHistory WITH Ticks <- Tick

\* The row that is updated tick by tick holds, for each of the four series,
\* the mean and the sum of squared deviations of every value observed so far,
\* and the length of the present run of stale ticks.
BaselineIsHistory ==
  LET n == Len(ticks)
      values(s) == F!Values(ticks, s)
  IN  /\ baseline.count = n
      /\ baseline.stale = F!StaleRun(ticks)
      /\ \A s \in Series :
           LET sum == F!Sum(values(s))
           IN  /\ n * baseline.stats[s].mean = Unit * sum
               /\ n * baseline.stats[s].sum
                    = Unit * Unit * (n * F!SumOfSquares(values(s)) - sum * sum)

\* The verdict is the one that reading the whole history again would give
\* ("an incrementally updated baseline instead of rescanning full price
\* history on every poll", the docstring of TickerBaseline).
RescanSpec == F!Spec

\* What the page is shown as hot when it loads was over the threshold when the
\* tick came: "scoring against a baseline that already includes the current
\* point would dampen the very deviation" (check_anomaly's docstring).
BackfillIsDampened ==
  [][\A z \in ZThresholds :
       baseline.count >= 2 => Backfilled(z)' \subseteq Over(baseline'.last, z)]_vars

\* A test alert's price or volume "would cross the anomaly threshold"
\* (synthetic_anomalous_sample's docstring), although the floor of the
\* deviation grows with the value itself - as long as z * (z + 1) does not
\* exceed FloorInverse, and the price is not zero throughout.
SyntheticCrosses ==
  \A s \in {"price", "volume"}, z \in ZThresholds :
    LET stat == baseline.stats[s]
        deviation == SyntheticDeviation(s, z)
        wide == FloorInverse - z
    IN  Synthesizes /\ z * (z + 1) <= FloorInverse =>
          /\ deviation >= z * z * stat.sum * FloorInverse * FloorInverse
          \* z * value <= FloorInverse * (value - mean), and the same of one
          /\ deviation * wide * wide
               >= z * z * stat.mean * stat.mean * (baseline.count - 1)
                    * FloorInverse * FloorInverse
          /\ s = "volume" => deviation >= z * z * Unit * Unit * (baseline.count - 1)
=============================================================================
