--------------------------- MODULE MCRateLimiter ---------------------------
(* RateLimiter on a small instance: a bucket of two tokens, one flowing in *)
(* every three ticks, and three tasks.                                     *)
EXTENDS RateLimiter

CONSTANTS poll, admin, visitor

MCTasks == {poll, admin, visitor}
=============================================================================
