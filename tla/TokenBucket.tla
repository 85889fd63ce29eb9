---------------------------- MODULE TokenBucket -----------------------------
(***************************************************************************)
(* A token bucket as its definition has it (app/rate_limiter.py): it holds *)
(* at most Capacity tokens, gains one every RefillTime ticks of the clock, *)
(* all the time, and a call takes one.                                     *)
(*                                                                         *)
(* The implementation looks at the clock only when somebody asks for a     *)
(* token (module RateLimiter).  Credit is counted in fractions of a token, *)
(* RefillTime to each.                                                     *)
(***************************************************************************)
EXTENDS Naturals

CONSTANTS
  Capacity,
  RefillTime,
  Window   \* grants older than this many ticks are not remembered

VARIABLES
  credit,
  recent   \* how many tokens were granted within the last w ticks

Full == Capacity * RefillTime

Capped(n) == IF n < Full THEN n ELSE Full

NoneRecent == [w \in 0..Window |-> 0]

OneMore(grants) == [w \in 0..Window |-> grants[w] + 1]

Aged(grants) == [w \in 0..Window |-> IF w = 0 THEN 0 ELSE grants[w - 1]]

Init ==
  /\ credit = Full
  /\ recent = NoneRecent

Draw ==
  /\ credit >= RefillTime
  /\ credit' = credit - RefillTime
  /\ recent' = OneMore(recent)

Tick ==
  /\ credit' = Capped(credit + 1)
  /\ recent' = Aged(recent)

Spec == Init /\ [][Draw \/ Tick]_<<credit, recent>>
=============================================================================
