---------------------------- MODULE MCBroadcast ----------------------------
(* Broadcast on a small instance: the poll job and one test alert, with    *)
(* two browsers that come and go.                                          *)
EXTENDS Broadcast

CONSTANTS poll, admin, c1, c2

MCTasks == {poll, admin}
MCClients == {c1, c2}
=============================================================================
