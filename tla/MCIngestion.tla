----------------------------- MODULE MCIngestion ----------------------------
(* Ingestion on a small instance: the poll job and one request, a bucket   *)
(* of one token, two attempts instead of five.                             *)
EXTENDS Ingestion

CONSTANTS poll, admin, t1

MCTasks == {poll, admin}
OneTicker == {t1}
=============================================================================
