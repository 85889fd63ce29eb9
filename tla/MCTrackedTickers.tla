-------------------------- MODULE MCTrackedTickers --------------------------
(* TrackedTickers on small instances: bounds 1 and 2 instead of 1 and 5,   *)
(* with a seed of the maximal size, as the default one is, and a table     *)
(* that starts with up to one symbol more, as a larger seed leaves it.     *)
EXTENDS TrackedTickers

CONSTANTS r1, r2, r3, a, b, x

MCRequests == {r1, r2, r3}
MCSymbols == {a, b, x}
MCSeed == {a, b}
=============================================================================
