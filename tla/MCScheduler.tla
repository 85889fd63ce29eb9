---------------------------- MODULE MCScheduler ----------------------------
(* Scheduler on small instances: the poll job and one test-alert task.     *)
EXTENDS Scheduler

CONSTANTS poll, admin, c1, t1, t2

MCTasks == {poll, admin}
OneClient == {c1}
OneTicker == {t1}
TwoTickers == {t1, t2}
NoCooldownOrTwo == {0, 2}
NoCooldownOrOne == {0, 1}
=============================================================================
