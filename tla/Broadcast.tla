----------------------------- MODULE Broadcast -----------------------------
(***************************************************************************)
(* The WebSocket side of AlertManager (app/alerts.py): the set of          *)
(* dashboard connections, the /ws/alerts handler that fills and empties it *)
(* (app/main.py), and broadcast(), which walks the set and awaits a send   *)
(* for every member.                                                       *)
(*                                                                         *)
(* All of it runs on one asyncio event loop.  `loop' is the task that is   *)
(* running, or NoTask when every task is suspended at an await; a task     *)
(* keeps the loop until its next await, so only an await lets another task *)
(* in.  The walk is a CPython set iterator: it raises RuntimeError when    *)
(* the size of the set is not the size it had when the walk began.         *)
(***************************************************************************)
EXTENDS Naturals, FiniteSets

CONSTANTS
  Tasks,     \* the tasks that may call broadcast(): the poll job, test alerts
  Clients,   \* WebSocket objects
  NoTask,    \* no task is running
  NoClient,  \* no send is in flight
  MaxJoins   \* bound: connections accepted in one behaviour

ASSUME BroadcastAssumption ==
  /\ IsFiniteSet(Clients)
  /\ NoTask \notin Tasks
  /\ NoClient \notin Clients
  /\ MaxJoins \in Nat

VARIABLES
  loop,         \* the running task, or NoTask
  connections,  \* AlertManager._connections
  sock,         \* what has become of each WebSocket object
  bcast,        \* the broadcast() call of each task
  joins         \* connections accepted so far (bounded by MaxJoins)

bvars == <<loop, connections, sock, bcast, joins>>

\* "closed": not in use.  "open": both ends are up.  "lost": the browser is
\* gone and the handler will see WebSocketDisconnect.  "orphan": the handler
\* died of another exception, which ws_alerts does not catch.
SockStates == {"closed", "open", "lost", "orphan"}

\* A broadcast() frame: `todo' is what the iterator has yet to yield, `size'
\* the set's size when the iterator was made, `dead' the local list, `ws'
\* the connection whose send is awaited.  `churn' is a history field: some
\* other task has changed the set since.
Frame == [on    : BOOLEAN,
          todo  : SUBSET Clients,
          size  : Nat,
          dead  : SUBSET Clients,
          ws    : Clients \union {NoClient},
          churn : BOOLEAN]

Quiet == [on |-> FALSE, todo |-> {}, size |-> 0, dead |-> {},
          ws |-> NoClient, churn |-> FALSE]

BInit ==
  /\ loop = NoTask
  /\ connections = {}
  /\ sock = [c \in Clients |-> "closed"]
  /\ bcast = [t \in Tasks |-> Quiet]
  /\ joins = 0

----------------------------------------------------------------------------
(* The connection set.                                                     *)

\* The frames after `gone' (a subset of connections) has left the set.
Without(gone) ==
  [t \in Tasks |->
     IF bcast[t].on /\ gone # {}
     THEN [bcast[t] EXCEPT !.todo = @ \ gone, !.churn = TRUE]
     ELSE bcast[t]]

\* An object that some broadcast still holds cannot be a new connection.
Unheld(c) == \A t \in Tasks : c \notin bcast[t].dead /\ c # bcast[t].ws

\* AlertManager.connect.  The newcomer lands in a slot of the hash table that
\* a running iterator has passed or not, and when the table is resized every
\* member moves: what the iterator will still yield is any set of members.
Connect(c) ==
  /\ loop = NoTask
  /\ joins < MaxJoins
  /\ sock[c] \in {"closed", "orphan"}
  /\ c \notin connections
  /\ Unheld(c)
  /\ sock' = [sock EXCEPT ![c] = "open"]
  /\ connections' = connections \union {c}
  /\ joins' = joins + 1
  /\ \E ahead \in [Tasks -> SUBSET connections'] :
       bcast' = [t \in Tasks |->
                   IF bcast[t].on
                   THEN [bcast[t] EXCEPT !.todo = ahead[t], !.churn = TRUE]
                   ELSE bcast[t]]
  /\ UNCHANGED loop

\* The browser goes away ("lost"), or the handler's receive_text raises
\* something that is not WebSocketDisconnect ("orphan").
LoseClient(c) ==
  /\ sock[c] = "open"
  /\ \E s \in {"lost", "orphan"} : sock' = [sock EXCEPT ![c] = s]
  /\ UNCHANGED <<loop, connections, bcast, joins>>

\* What disconnect() takes out of the set.
Dropped(c) == {c} \intersect connections

\* The handler catches WebSocketDisconnect and calls disconnect().
Disconnect(c) ==
  /\ loop = NoTask
  /\ sock[c] = "lost"
  /\ sock' = [sock EXCEPT ![c] = "closed"]
  /\ connections' = connections \ Dropped(c)
  /\ bcast' = Without(Dropped(c))
  /\ UNCHANGED <<loop, joins>>

----------------------------------------------------------------------------
(* broadcast().  The caller of BeginBroadcast is running; EndBroadcast and *)
(* IterationBreaks give control back to it.                                *)

\* The call: the iterator over the connections is made.
BeginBroadcast(t) ==
  bcast' = [bcast EXCEPT ![t] = [Quiet EXCEPT !.on = TRUE,
                                              !.todo = connections,
                                              !.size = Cardinality(connections)]]

\* The iterator's size check, made before every element and before the end.
Undisturbed(t) == Cardinality(connections) = bcast[t].size

AtNext(t) == loop = t /\ bcast[t].on /\ bcast[t].ws = NoClient

\* Mutant of After: the same connection is sent to again and again.
AfterAll(t, c) == bcast[t].todo

\* What is to come after c.
After(t, c) == bcast[t].todo \ {c}

\* The iterator yields c and the task suspends in `await ws.send_text'.
SendNext(t, c) ==
  /\ AtNext(t)
  /\ Undisturbed(t)
  /\ c \in bcast[t].todo
  /\ bcast' = [bcast EXCEPT ![t].todo = After(t, c), ![t].ws = c]
  /\ loop' = NoTask
  /\ UNCHANGED <<connections, sock, joins>>

\* Mutant of MayRaise: a timeout around the send gives up slow clients too.
MayRaiseSlow(c) == TRUE

\* A send raises only if the peer is gone; it may also return then, the bytes
\* being buffered.
MayRaise(c) == sock[c] # "open"

\* The dead list with the connection whose send failed.
WithFailed(t) == bcast[t].dead \union {bcast[t].ws}

\* Mutant of SendReturns: the failed connection is discarded on the spot.
SendReturnsDiscarding(t) ==
  /\ loop = NoTask
  /\ bcast[t].ws # NoClient
  /\ \/ UNCHANGED connections
     \/ MayRaise(bcast[t].ws) /\ connections' = connections \ {bcast[t].ws}
  /\ bcast' = [bcast EXCEPT ![t].ws = NoClient]
  /\ loop' = t
  /\ UNCHANGED <<sock, joins>>

\* The send returns, or raises and the connection is put on the dead list.
SendReturns(t) ==
  /\ loop = NoTask
  /\ bcast[t].ws # NoClient
  /\ \E raises \in BOOLEAN :
       /\ raises => MayRaise(bcast[t].ws)
       /\ bcast' = [bcast EXCEPT ![t].dead = IF raises THEN WithFailed(t) ELSE @,
                                 ![t].ws = NoClient]
  /\ loop' = t
  /\ UNCHANGED <<connections, sock, joins>>

\* The iterator is exhausted: the dead connections are discarded.
EndBroadcast(t) ==
  /\ AtNext(t)
  /\ Undisturbed(t)
  /\ bcast[t].todo = {}
  /\ connections' = connections \ bcast[t].dead
  /\ bcast' = [Without(bcast[t].dead \intersect connections) EXCEPT ![t] = Quiet]
  /\ UNCHANGED <<sock, joins>>

\* "Set changed size during iteration": RuntimeError leaves broadcast(),
\* the rest of the connections unsent and the dead list unused.
IterationBreaks(t) ==
  /\ AtNext(t)
  /\ ~Undisturbed(t)
  /\ bcast' = [bcast EXCEPT ![t] = Quiet]
  /\ UNCHANGED <<connections, sock, joins>>

----------------------------------------------------------------------------
(* The component alone: any suspended task may call broadcast().           *)

Call(t) ==
  /\ loop = NoTask
  /\ ~bcast[t].on
  /\ BeginBroadcast(t)
  /\ loop' = t
  /\ UNCHANGED <<connections, sock, joins>>

Return(t) == EndBroadcast(t) /\ loop' = NoTask

Raise(t) == IterationBreaks(t) /\ loop' = NoTask

SocketNext ==
  \E c \in Clients : Connect(c) \/ LoseClient(c) \/ Disconnect(c)

WalkNext(t) ==
  \/ \E c \in Clients : SendNext(t, c)
  \/ SendReturns(t)
  \/ Return(t)
  \/ Raise(t)

BNext ==
  \/ SocketNext
  \/ \E t \in Tasks : Call(t) \/ WalkNext(t)

BSpec == BInit /\ [][BNext]_bvars

\* asyncio resumes ready tasks in the order they became ready, so a task
\* that is ready again and again is resumed: strong fairness for each of
\* them.  A send completes or fails because the server's keep-alive closes a
\* connection that stops answering.
BFairness == \A t \in Tasks : SF_bvars(WalkNext(t))

BFairSpec == BSpec /\ BFairness

----------------------------------------------------------------------------
(* Properties.                                                             *)

BTypeOK ==
  /\ loop \in Tasks \union {NoTask}
  /\ connections \in SUBSET Clients
  /\ sock \in [Clients -> SockStates]
  /\ bcast \in [Tasks -> Frame]
  /\ joins \in 0..MaxJoins

\* A walk that nobody else disturbs never sees the set change size, however
\* many of its own sends fail: broadcast() collects the dead connections and
\* discards them only after the loop.
OwnFailuresDontBreak ==
  \A t \in Tasks : bcast[t].on /\ ~bcast[t].churn => Undisturbed(t)

\* Neither disconnect() nor the clean-up after a broadcast ever drops a
\* connection whose two ends are up, whatever the order of failed sends and
\* reconnections.
HealthyStay ==
  [][\A c \in connections \ connections' : sock[c] # "open"]_bvars

\* Every broadcast() comes to its end, by return or by exception.
BroadcastEnds == \A t \in Tasks : bcast[t].on ~> ~bcast[t].on

\* What broadcast()'s docstring says: the payload goes to every connected
\* client, and a connection that errors is dropped.  A frame that ends
\* leaves no registered connection unsent.
EveryoneIsSent ==
  [][\A t \in Tasks : bcast[t].on /\ ~bcast'[t].on => bcast[t].todo = {}]_bvars
=============================================================================
