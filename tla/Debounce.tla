------------------------------ MODULE Debounce ------------------------------
(***************************************************************************)
(* What AlertManager's cooldown promises the rest of the program           *)
(* (app/alerts.py): between two alerts of one process under one key lies   *)
(* at least the cooldown, unless the later one was forced.                 *)
(*                                                                         *)
(* The implementation keeps one time per key; this specification keeps     *)
(* every alert, and asks about all of them.                                *)
(***************************************************************************)
EXTENDS Naturals

CONSTANTS
  Keys,      \* cooldown keys
  Cooldowns  \* cooldowns in use

VARIABLES
  fired,  \* the alerts since the process started
  now     \* the clock

Alert(k, c, f) == [key |-> k, at |-> now, cool |-> c, forced |-> f]

Init == fired = {} /\ now = 0

\* An alert that asked first.
Admit(k, c) ==
  /\ fired' = fired \union {Alert(k, c, FALSE)}
  /\ \A f \in fired : f.key = k => now - f.at >= c
  /\ UNCHANGED now

\* An alert that did not ask, but counts.
Force(k, c) ==
  /\ fired' = fired \union {Alert(k, c, TRUE)}
  /\ UNCHANGED now

Advance == now' > now /\ UNCHANGED fired

\* A new process remembers nothing.
Restart == fired' = {} /\ UNCHANGED now

Next ==
  \/ Restart
  \/ Advance
  \/ \E k \in Keys, c \in Cooldowns : Admit(k, c) \/ Force(k, c)

Spec == Init /\ [][Next]_<<fired, now>>
=============================================================================
