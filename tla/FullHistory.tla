---------------------------- MODULE FullHistory -----------------------------
(***************************************************************************)
(* What the anomaly check promises (app/detector.py): each tick is judged  *)
(* by the mean and the standard deviation of all the ticks before it, as   *)
(* if the full price history were read again at every poll.  The           *)
(* implementation keeps running figures instead (module Detector).         *)
(*                                                                         *)
(* All comparisons are between integers: with n earlier values of sum S    *)
(* and sum of squares Q, the mean is S / n and the sample variance         *)
(* (n * Q - S^2) / (n * (n - 1)).                                          *)
(***************************************************************************)
EXTENDS Integers, Sequences, FiniteSets

CONSTANTS
  Ticks,         \* what may be observed
  ZThresholds, StaleThresholds,
  MinSamples, FloorInverse

VARIABLES
  ticks,   \* every tick so far
  verdict  \* the judgement on the last one

Series == {"price", "volume", "spread", "volatility"}

Abs(n) == IF n < 0 THEN -n ELSE n

AtLeastOne(n) == IF n < 1 THEN 1 ELSE n

\* The history of a series.
Values(history, s) ==
  [i \in DOMAIN history |->
     CASE s = "price" -> history[i].price
       [] s = "volume" -> history[i].volume
       [] s = "spread" -> history[i].spread
       [] s = "volatility" ->
            IF i = 1 THEN 0 ELSE Abs(history[i].price - history[i - 1].price)]

Sum(values) ==
  LET upTo[i \in 0 .. Len(values)] == IF i = 0 THEN 0 ELSE upTo[i - 1] + values[i]
  IN  upTo[Len(values)]

Squares(values) == [i \in DOMAIN values |-> values[i] * values[i]]

SumOfSquares(values) == Sum(Squares(values))

\* The deviation floor of each series is relative to this.
Scale(tick, s) ==
  CASE s = "price" -> tick.price
    [] s = "volume" -> AtLeastOne(tick.volume)
    [] OTHER -> AtLeastOne(tick.price)

\* The last of the values lies z standard deviations from the mean of those
\* before it, and z times the floor as well.
StandsOut(values, scale, z) ==
  LET n == Len(values) - 1
      earlier == SubSeq(values, 1, n)
      deviation == n * values[n + 1] - Sum(earlier)
      spread == n * SumOfSquares(earlier) - Sum(earlier) * Sum(earlier)
  IN  /\ n >= 2
      /\ deviation * deviation * (n - 1) >= z * z * n * spread
      /\ Abs(deviation) * FloorInverse >= z * n * scale

\* How many ticks ending with the last repeat the price of the tick before
\* them without any volume.
StaleRun(history) ==
  Cardinality({k \in 2..Len(history) :
                 \A i \in k..Len(history) :
                   history[i].price = history[i - 1].price /\ history[i].volume = 0})

Judgement(history, z, staleThreshold) ==
  LET last == history[Len(history)]
      warm == Len(history) > MinSamples
  IN  [triggered |-> {s \in Series :
                        warm /\ StandsOut(Values(history, s), Scale(last, s), z)},
       stale |-> warm /\ StaleRun(history) >= staleThreshold,
       stale_count |-> StaleRun(history)]

Init ==
  /\ ticks = <<>>
  /\ verdict = [triggered |-> {}, stale |-> FALSE, stale_count |-> 0]

Observe(tick, z, staleThreshold) ==
  /\ ticks' = Append(ticks, tick)
  /\ verdict' = Judgement(ticks', z, staleThreshold)

Next ==
  \E tick \in Ticks, z \in ZThresholds, staleThreshold \in StaleThresholds :
    Observe(tick, z, staleThreshold)

Spec == Init /\ [][Next]_<<ticks, verdict>>
=============================================================================
