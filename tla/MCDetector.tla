----------------------------- MODULE MCDetector -----------------------------
(* Detector on a small instance: a warm-up of three samples instead of five *)
(* and a floor of a sixth of the price instead of a two-thousandth.  One   *)
(* spread is that of a crossed quote.                                      *)
EXTENDS Detector

MCPrices == {0, 7}
MCVolumes == {0, 5}
MCSpreads == {-1, 1}
MCZThresholds == {1, 2}
MCStaleThresholds == {1, 2}
=============================================================================
