-------------------------- MODULE MCRuntimeConfig --------------------------
(* RuntimeConfig on a small instance: the lifespan and two requests, two   *)
(* columns, of which one may be zero and the other not.                    *)
EXTENDS RuntimeConfig, TLC

CONSTANTS lifespan, r1, r2

MCRequests == {lifespan, r1, r2}
MCColumns == {"anomaly_zscore_threshold", "alert_cooldown_minutes"}
MCValues == 0..1
MCSymmetry == Permutations({r1, r2})
=============================================================================
