-------------------------- MODULE BroadcastProofs --------------------------
(***************************************************************************)
(* Proofs about module Broadcast, for any number of clients and of         *)
(* broadcasting tasks.                                                     *)
(***************************************************************************)
EXTENDS Broadcast, FiniteSetTheorems, TLAPS

\* The size an iterator remembers is a number.
LEMMA ConnectionsCardinality ==
  ASSUME connections \in SUBSET Clients
  PROVE  Cardinality(connections) \in Nat
BY BroadcastAssumption, FS_Subset, FS_CardinalityType

\* Dropping connections under the running iterators leaves them well-formed.
LEMMA WithoutType ==
  ASSUME bcast \in [Tasks -> Frame], NEW gone
  PROVE  Without(gone) \in [Tasks -> Frame]
BY DEF Without, Frame

\* At process start the connection set is empty and no broadcast runs.
LEMMA BTypeInit == BInit => BTypeOK
BY BroadcastAssumption DEF BInit, BTypeOK, SockStates, Frame, Quiet

\* What the /ws/alerts handlers and the browsers do keeps the types.
LEMMA SocketType ==
  ASSUME BTypeOK, SocketNext
  PROVE  BTypeOK'
<1>1. ASSUME NEW c \in Clients, Connect(c) PROVE BTypeOK'
  <2>1. PICK ahead \in [Tasks -> SUBSET connections'] :
          bcast' = [t \in Tasks |->
                      IF bcast[t].on
                      THEN [bcast[t] EXCEPT !.todo = ahead[t], !.churn = TRUE]
                      ELSE bcast[t]]
    BY <1>1 DEF Connect
  <2>2. connections' \in SUBSET Clients
    BY <1>1 DEF Connect, BTypeOK
  <2>3. bcast' \in [Tasks -> Frame]
    <3>1. ASSUME NEW t \in Tasks
          PROVE  [bcast[t] EXCEPT !.todo = ahead[t], !.churn = TRUE] \in Frame
      <4>1. bcast[t] \in Frame /\ ahead[t] \in SUBSET Clients
        BY <2>2 DEF BTypeOK
      <4> QED BY <4>1 DEF Frame
    <3> QED BY <2>1, <3>1 DEF BTypeOK
  <2>4. joins < MaxJoins /\ joins' = joins + 1 /\ joins \in 0..MaxJoins
    BY <1>1 DEF Connect, BTypeOK
  <2>5. joins' \in 0..MaxJoins
    BY <2>4, BroadcastAssumption
  <2>6. sock' = [sock EXCEPT ![c] = "open"] /\ UNCHANGED loop
    BY <1>1 DEF Connect
  <2>7. sock' \in [Clients -> SockStates]
    BY <2>6 DEF BTypeOK, SockStates
  <2> QED BY <2>2, <2>3, <2>5, <2>6, <2>7 DEF BTypeOK
<1>2. ASSUME NEW c \in Clients, LoseClient(c) PROVE BTypeOK'
  BY <1>2 DEF LoseClient, BTypeOK, SockStates
<1>3. ASSUME NEW c \in Clients, Disconnect(c) PROVE BTypeOK'
  <2>1. bcast' \in [Tasks -> Frame]
    BY <1>3, WithoutType DEF Disconnect, Dropped, BTypeOK
  <2> QED BY <1>3, <2>1 DEF Disconnect, Dropped, BTypeOK, SockStates
<1> QED BY <1>1, <1>2, <1>3 DEF SocketNext

\* The calls and the steps of broadcast() keep the types, whatever task its
\* caller lets run next.
LEMMA BeginType ==
  ASSUME BTypeOK, NEW t \in Tasks, BeginBroadcast(t),
         loop' \in Tasks \union {NoTask}, UNCHANGED <<connections, sock, joins>>
  PROVE  BTypeOK'
<1>1. Cardinality(connections) \in Nat
  BY ConnectionsCardinality DEF BTypeOK
<1>2. bcast' \in [Tasks -> Frame]
  BY <1>1 DEF BeginBroadcast, BTypeOK, Frame, Quiet
<1> QED BY <1>2 DEF BTypeOK

\* Yielding a connection to send to keeps the types.
LEMMA SendNextType ==
  ASSUME BTypeOK, NEW t \in Tasks, NEW c \in Clients, SendNext(t, c)
  PROVE  BTypeOK'
<1> DEFINE next == [bcast[t] EXCEPT !.todo = After(t, c), !.ws = c]
<1>1. bcast' = [bcast EXCEPT ![t] = next]
  BY DEF SendNext, BTypeOK
<1>2. bcast[t] \in Frame /\ After(t, c) \in SUBSET Clients
  BY DEF BTypeOK, Frame, After
<1>3. next \in Frame
  BY <1>2 DEF Frame
<1> HIDE DEF next
<1>4. bcast' \in [Tasks -> Frame]
  BY <1>1, <1>3 DEF BTypeOK
<1> QED BY <1>4 DEF SendNext, BTypeOK

\* A send that returns or raises keeps the types: the dead list stays a set of
\* clients because ws was one.
LEMMA SendReturnsType ==
  ASSUME BTypeOK, NEW t \in Tasks, SendReturns(t)
  PROVE  BTypeOK'
<1>1. bcast[t].ws \in Clients
  BY DEF SendReturns, WithFailed, BTypeOK, Frame
<1>2. bcast' \in [Tasks -> Frame]
  BY <1>1 DEF SendReturns, WithFailed, BTypeOK, Frame
<1> QED BY <1>2 DEF SendReturns, WithFailed, BTypeOK

\* The clean-up at the end of a broadcast keeps the types.
LEMMA EndType ==
  ASSUME BTypeOK, NEW t \in Tasks, EndBroadcast(t),
         loop' \in Tasks \union {NoTask}
  PROVE  BTypeOK'
<1>1. Quiet \in Frame
  BY DEF Quiet, Frame
<1>2. bcast' \in [Tasks -> Frame]
  BY <1>1, WithoutType DEF EndBroadcast, BTypeOK
<1> QED BY <1>2 DEF EndBroadcast, BTypeOK

\* The RuntimeError of the iterator keeps the types.
LEMMA BreakType ==
  ASSUME BTypeOK, NEW t \in Tasks, IterationBreaks(t),
         loop' \in Tasks \union {NoTask}
  PROVE  BTypeOK'
BY DEF IterationBreaks, BTypeOK, Quiet, Frame

\* Every step of the component keeps the types.
LEMMA BTypeStep == BTypeOK /\ [BNext]_bvars => BTypeOK'
<1> SUFFICES ASSUME BTypeOK, [BNext]_bvars PROVE BTypeOK'
  OBVIOUS
<1>1. CASE SocketNext
  BY <1>1, SocketType
<1>2. ASSUME NEW t \in Tasks, Call(t) PROVE BTypeOK'
  BY <1>2, BeginType DEF Call
<1>3. ASSUME NEW t \in Tasks, NEW c \in Clients, SendNext(t, c) PROVE BTypeOK'
  BY <1>3, SendNextType
<1>4. ASSUME NEW t \in Tasks, SendReturns(t) PROVE BTypeOK'
  BY <1>4, SendReturnsType
<1>5. ASSUME NEW t \in Tasks, Return(t) PROVE BTypeOK'
  BY <1>5, EndType DEF Return
<1>6. ASSUME NEW t \in Tasks, Raise(t) PROVE BTypeOK'
  BY <1>6, BreakType DEF Raise
<1>7. CASE UNCHANGED bvars
  BY <1>7 DEF bvars, BTypeOK
<1> QED BY <1>1, <1>2, <1>3, <1>4, <1>5, <1>6, <1>7 DEF BNext, WalkNext

\* The connection set, the sockets and the broadcast frames always have
\* their types.
THEOREM BTypeCorrect == BSpec => []BTypeOK
BY BTypeInit, BTypeStep, PTL DEF BSpec

----------------------------------------------------------------------------
(* The walk over the connections.                                          *)

\* No connection is on a dead list while its two ends are up: a connection
\* is put there when its peer is gone, and its object cannot come back while
\* the list holds it.
DeadAreGone ==
  \A t \in Tasks : \A c \in bcast[t].dead : sock[c] # "open"

\* What a walk has yet to visit is registered.
WalkStaysInside ==
  \A t \in Tasks : bcast[t].on => bcast[t].todo \subseteq connections

\* Inductive: a walk's remembered size is the set's as long as nobody else
\* touched the set, and `todo' follows what the others take out of it.
WalkInv == OwnFailuresDontBreak /\ WalkStaysInside /\ DeadAreGone

\* No walk is running at process start.
LEMMA WalkInit == BInit => WalkInv
BY DEF BInit, WalkInv, OwnFailuresDontBreak, WalkStaysInside, DeadAreGone, Quiet

\* Taking `gone' out of the connections disturbs no walk's invariant: a walk
\* that sees a change is marked, and no longer yields what has gone.
LEMMA WithoutWalk ==
  ASSUME BTypeOK, WalkInv, NEW gone \in SUBSET connections, NEW t \in Tasks,
         connections' = connections \ gone,
         bcast'[t] = Without(gone)[t]
  PROVE  /\ bcast'[t].on /\ ~bcast'[t].churn => Undisturbed(t)'
         /\ bcast'[t].on => bcast'[t].todo \subseteq connections'
         /\ bcast'[t].dead = bcast[t].dead
<1>1. CASE bcast[t].on /\ gone # {}
  <2>1. bcast'[t] = [bcast[t] EXCEPT !.todo = @ \ gone, !.churn = TRUE]
    BY <1>1 DEF Without
  <2>2. bcast'[t].churn /\ bcast'[t].todo = bcast[t].todo \ gone
        /\ bcast'[t].dead = bcast[t].dead
    BY <2>1 DEF BTypeOK, Frame
  <2> QED BY <1>1, <2>2 DEF WalkInv, WalkStaysInside
<1>2. CASE ~(bcast[t].on /\ gone # {})
  <2>1. bcast'[t] = bcast[t]
    BY <1>2 DEF Without
  <2>2. bcast[t].on => connections' = connections
    BY <1>2
  <2> QED BY <2>1, <2>2
          DEF WalkInv, OwnFailuresDontBreak, WalkStaysInside, Undisturbed
<1> QED BY <1>1, <1>2

\* Connects and disconnects keep the walk invariant: they mark the walks they
\* disturb.
LEMMA SocketWalk ==
  ASSUME BTypeOK, WalkInv, SocketNext
  PROVE  WalkInv'
<1>1. ASSUME NEW c \in Clients, Connect(c) PROVE WalkInv'
  <2>1. PICK ahead \in [Tasks -> SUBSET connections'] :
          bcast' = [t \in Tasks |->
                      IF bcast[t].on
                      THEN [bcast[t] EXCEPT !.todo = ahead[t], !.churn = TRUE]
                      ELSE bcast[t]]
    BY <1>1 DEF Connect
  <2>2. ASSUME NEW t \in Tasks
        PROVE  /\ bcast'[t].on => bcast'[t].churn
               /\ bcast'[t].on => bcast'[t].todo \subseteq connections'
               /\ bcast'[t].dead = bcast[t].dead
    BY <2>1 DEF BTypeOK, Frame
  <2>3. sock' = [sock EXCEPT ![c] = "open"] /\ Unheld(c)
    BY <1>1 DEF Connect
  <2>4. DeadAreGone'
    <3> SUFFICES ASSUME NEW t \in Tasks, NEW d \in bcast'[t].dead
                 PROVE  sock'[d] # "open"
      BY DEF DeadAreGone
    <3>1. d \in bcast[t].dead
      BY <2>2
    <3>2. d # c /\ d \in Clients
      BY <3>1, <2>3 DEF Unheld, BTypeOK, Frame
    <3> QED BY <3>1, <3>2, <2>3 DEF WalkInv, DeadAreGone, BTypeOK
  <2> QED BY <2>2, <2>4 DEF WalkInv, OwnFailuresDontBreak, WalkStaysInside
<1>2. ASSUME NEW c \in Clients, LoseClient(c) PROVE WalkInv'
  BY <1>2 DEF LoseClient, WalkInv, OwnFailuresDontBreak, WalkStaysInside,
              DeadAreGone, Undisturbed, BTypeOK
<1>3. ASSUME NEW c \in Clients, Disconnect(c) PROVE WalkInv'
  <2>1. /\ connections' = connections \ ({c} \intersect connections)
        /\ bcast' = Without({c} \intersect connections)
        /\ sock' = [sock EXCEPT ![c] = "closed"]
    BY <1>3 DEF Disconnect, Dropped
  <2>2. ASSUME NEW t \in Tasks
        PROVE  /\ bcast'[t].on /\ ~bcast'[t].churn => Undisturbed(t)'
               /\ bcast'[t].on => bcast'[t].todo \subseteq connections'
               /\ bcast'[t].dead = bcast[t].dead
    BY <2>1, WithoutWalk
  <2>3. DeadAreGone'
    <3> SUFFICES ASSUME NEW t \in Tasks, NEW d \in bcast'[t].dead
                 PROVE  sock'[d] # "open"
      BY DEF DeadAreGone
    <3>1. d \in bcast[t].dead
      BY <2>2
    <3>2. d \in Clients
      BY <3>1 DEF BTypeOK, Frame
    <3> QED BY <2>1, <3>1, <3>2 DEF WalkInv, DeadAreGone, BTypeOK
  <2> QED BY <2>2, <2>3 DEF WalkInv, OwnFailuresDontBreak, WalkStaysInside
<1> QED BY <1>1, <1>2, <1>3 DEF SocketNext

\* A walk begins with the whole connection set and its size.
LEMMA BeginWalk ==
  ASSUME BTypeOK, WalkInv, NEW t \in Tasks, BeginBroadcast(t),
         UNCHANGED <<connections, sock>>
  PROVE  WalkInv'
BY DEF BeginBroadcast, WalkInv, OwnFailuresDontBreak, WalkStaysInside,
       DeadAreGone, Undisturbed, BTypeOK, Quiet

\* Yielding a member keeps the walk invariant.
LEMMA SendNextWalk ==
  ASSUME BTypeOK, WalkInv, NEW t \in Tasks, NEW c \in Clients, SendNext(t, c)
  PROVE  WalkInv'
BY DEF SendNext, After, WalkInv, OwnFailuresDontBreak, WalkStaysInside,
       DeadAreGone, Undisturbed, BTypeOK, Frame

\* A send that returns or raises keeps the walk invariant: the set is not touched.
LEMMA SendReturnsWalk ==
  ASSUME BTypeOK, WalkInv, NEW t \in Tasks, SendReturns(t)
  PROVE  WalkInv'
BY DEF SendReturns, MayRaise, WithFailed, WalkInv, OwnFailuresDontBreak, WalkStaysInside,
       DeadAreGone, Undisturbed, BTypeOK, Frame

\* The clean-up of one broadcast keeps the invariant of the other walks.
LEMMA EndWalk ==
  ASSUME BTypeOK, WalkInv, NEW t \in Tasks, EndBroadcast(t)
  PROVE  WalkInv'
<1> DEFINE gone == bcast[t].dead \intersect connections
<1>1. /\ connections' = connections \ gone
      /\ bcast' = [Without(gone) EXCEPT ![t] = Quiet]
      /\ sock' = sock
  BY DEF EndBroadcast
<1>2. ASSUME NEW u \in Tasks, u # t
      PROVE  /\ bcast'[u].on /\ ~bcast'[u].churn => Undisturbed(u)'
             /\ bcast'[u].on => bcast'[u].todo \subseteq connections'
             /\ bcast'[u].dead = bcast[u].dead
  <2>1. bcast'[u] = Without(gone)[u]
    BY <1>1, <1>2 DEF Without
  <2> QED BY <1>1, <2>1, WithoutWalk
<1>3. bcast'[t] = Quiet
  BY <1>1 DEF Without
<1>4. ~bcast'[t].on /\ bcast'[t].dead = {}
  BY <1>3 DEF Quiet
<1> QED BY <1>1, <1>2, <1>4
        DEF WalkInv, OwnFailuresDontBreak, WalkStaysInside, DeadAreGone

\* A walk that broke is no walk any more.
LEMMA BreakWalk ==
  ASSUME BTypeOK, WalkInv, NEW t \in Tasks, IterationBreaks(t)
  PROVE  WalkInv'
BY DEF IterationBreaks, WalkInv, OwnFailuresDontBreak, WalkStaysInside,
       DeadAreGone, Undisturbed, BTypeOK, Quiet

\* Every step of the component keeps the walk invariant.
LEMMA WalkStep == BTypeOK /\ WalkInv /\ [BNext]_bvars => WalkInv'
<1> SUFFICES ASSUME BTypeOK, WalkInv, [BNext]_bvars PROVE WalkInv'
  OBVIOUS
<1>1. CASE SocketNext
  BY <1>1, SocketWalk
<1>2. ASSUME NEW t \in Tasks, Call(t) PROVE WalkInv'
  BY <1>2, BeginWalk DEF Call
<1>3. ASSUME NEW t \in Tasks, NEW c \in Clients, SendNext(t, c) PROVE WalkInv'
  BY <1>3, SendNextWalk
<1>4. ASSUME NEW t \in Tasks, SendReturns(t) PROVE WalkInv'
  BY <1>4, SendReturnsWalk
<1>5. ASSUME NEW t \in Tasks, Return(t) PROVE WalkInv'
  BY <1>5, EndWalk DEF Return
<1>6. ASSUME NEW t \in Tasks, Raise(t) PROVE WalkInv'
  BY <1>6, BreakWalk DEF Raise
<1>7. CASE UNCHANGED bvars
  BY <1>7 DEF bvars, WalkInv, OwnFailuresDontBreak, WalkStaysInside,
              DeadAreGone, Undisturbed
<1> QED BY <1>1, <1>2, <1>3, <1>4, <1>5, <1>6, <1>7 DEF BNext, WalkNext

\* The walk invariant always holds, beside the types.
LEMMA WalkInvariant == BSpec => [](BTypeOK /\ WalkInv)
<1>1. BTypeOK /\ WalkInv /\ [BNext]_bvars => (BTypeOK /\ WalkInv)'
  BY BTypeStep, WalkStep
<1> QED BY BTypeInit, WalkInit, <1>1, PTL DEF BSpec

\* However many of its own sends fail, a walk that no other task disturbs
\* does not raise: broadcast() drops the dead connections after its loop.
THEOREM OwnFailuresAreHarmless == BSpec => []OwnFailuresDontBreak
<1>1. WalkInv => OwnFailuresDontBreak
  BY DEF WalkInv
<1> QED BY WalkInvariant, <1>1, PTL

\* A connection leaves the set only when its peer is gone.
LEMMA HealthyStep ==
  ASSUME BTypeOK, WalkInv, [BNext]_bvars, NEW c \in connections \ connections'
  PROVE  sock[c] # "open"
<1>1. CASE \E d \in Clients : Disconnect(d)
  BY <1>1 DEF Disconnect, Dropped
<1>2. CASE \E t \in Tasks : Return(t)
  BY <1>2 DEF Return, EndBroadcast, WalkInv, DeadAreGone
<1>3. CASE UNCHANGED connections
  BY <1>3
<1>4. ASSUME NEW d \in Clients, Connect(d) \/ LoseClient(d) PROVE FALSE
  BY <1>4 DEF Connect, LoseClient
<1>5. ASSUME NEW t \in Tasks,
             Call(t) \/ (\E d \in Clients : SendNext(t, d)) \/ SendReturns(t) \/ Raise(t)
      PROVE  FALSE
  BY <1>5 DEF Call, SendNext, SendReturns, Raise, IterationBreaks
<1> QED BY <1>1, <1>2, <1>3, <1>4, <1>5
        DEF BNext, SocketNext, WalkNext, bvars

\* No connection whose two ends are up is ever dropped from the set.
THEOREM HealthyAreKept == BSpec => HealthyStay
<1>1. BTypeOK /\ WalkInv /\ [BNext]_bvars
        => [\A c \in connections \ connections' : sock[c] # "open"]_bvars
  BY HealthyStep
<1> QED BY WalkInvariant, <1>1, PTL DEF BSpec, HealthyStay

\* What is left of the docstring's claim: a broadcast during which no other task
\* changes the set ends only when it has sent to everyone that is registered.
THEOREM UndisturbedReachesAll ==
  BSpec => [][\A t \in Tasks :
                bcast[t].on /\ ~bcast'[t].on /\ ~bcast[t].churn => bcast[t].todo = {}]_bvars
<1>1. ASSUME BTypeOK, WalkInv, [BNext]_bvars,
             NEW t \in Tasks, bcast[t].on, ~bcast'[t].on, ~bcast[t].churn
      PROVE  bcast[t].todo = {}
  <2>1. Undisturbed(t)
    BY <1>1 DEF WalkInv, OwnFailuresDontBreak
  <2>2. ASSUME SocketNext
        PROVE  bcast'[t].on
    <3>1. ASSUME NEW c \in Clients, Connect(c)
          PROVE  bcast'[t].on
      <4>1. PICK ahead \in [Tasks -> SUBSET connections'] :
              bcast'[t] = [bcast[t] EXCEPT !.todo = ahead[t], !.churn = TRUE]
        BY <1>1, <3>1 DEF Connect
      <4> QED BY <1>1, <4>1 DEF BTypeOK, Frame
    <3>2. ASSUME NEW c \in Clients, LoseClient(c)
          PROVE  bcast'[t].on
      BY <1>1, <3>2 DEF LoseClient
    <3>3. ASSUME NEW c \in Clients, Disconnect(c)
          PROVE  bcast'[t].on
      <4>1. bcast'[t] = Without(Dropped(c))[t]
        BY <3>3 DEF Disconnect
      <4> QED BY <1>1, <4>1 DEF Without, BTypeOK, Frame
    <3> QED BY <2>2, <3>1, <3>2, <3>3 DEF SocketNext
  <2>3. ASSUME NEW u \in Tasks, Call(u) \/ (\E c \in Clients : SendNext(u, c)) \/ SendReturns(u)
        PROVE  bcast'[t].on
    <3>1. CASE u = t
      <4>1. ~Call(t)
        BY <1>1 DEF Call
      <4>2. ASSUME NEW c \in Clients, SendNext(t, c)
            PROVE  bcast'[t].on
        BY <1>1, <4>2 DEF SendNext, BTypeOK, Frame
      <4>3. ASSUME SendReturns(t)
            PROVE  bcast'[t].on
        BY <1>1, <4>3 DEF SendReturns, BTypeOK, Frame
      <4> QED BY <2>3, <3>1, <4>1, <4>2, <4>3
    <3>2. CASE u # t
      <4>1. bcast'[t] = bcast[t]
        <5>1. CASE Call(u)
          BY <3>2, <5>1 DEF Call, BeginBroadcast, BTypeOK
        <5>2. ASSUME NEW c \in Clients, SendNext(u, c)
              PROVE  bcast'[t] = bcast[t]
          <6>1. bcast' = [bcast EXCEPT ![u].todo = After(u, c), ![u].ws = c]
            BY <5>2 DEF SendNext
          <6>2. bcast' = [bcast EXCEPT ![u] = [bcast[u] EXCEPT !.todo = After(u, c), !.ws = c]]
            BY <6>1 DEF BTypeOK
          <6> QED BY <3>2, <6>2 DEF BTypeOK
        <5>3. CASE SendReturns(u)
          <6>1. PICK dead : bcast' = [bcast EXCEPT ![u].dead = dead, ![u].ws = NoClient]
            BY <5>3 DEF SendReturns
          <6>2. bcast' = [bcast EXCEPT ![u] = [bcast[u] EXCEPT !.dead = dead, !.ws = NoClient]]
            BY <6>1 DEF BTypeOK
          <6> QED BY <3>2, <6>2 DEF BTypeOK
        <5> QED BY <2>3, <5>1, <5>2, <5>3
      <4> QED BY <1>1, <4>1
    <3> QED BY <3>1, <3>2
  <2>4. ASSUME NEW u \in Tasks, Return(u)
        PROVE  bcast[t].todo = {}
    <3>1. CASE u = t
      BY <2>4, <3>1 DEF Return, EndBroadcast
    <3>2. CASE u # t
      <4>1. bcast'[t] = Without(bcast[u].dead \intersect connections)[t]
        BY <2>4, <3>2 DEF Return, EndBroadcast, Without
      <4>2. bcast'[t].on
        BY <1>1, <4>1 DEF Without, BTypeOK, Frame
      <4> QED BY <1>1, <4>2
    <3> QED BY <3>1, <3>2
  <2>5. ASSUME NEW u \in Tasks, Raise(u)
        PROVE  bcast'[t].on
    BY <1>1, <2>1, <2>5 DEF Raise, IterationBreaks, BTypeOK
  <2>6. CASE UNCHANGED bvars
    BY <1>1, <2>6 DEF bvars
  <2> QED BY <1>1, <2>2, <2>3, <2>4, <2>5, <2>6 DEF BNext, WalkNext
<1>2. BTypeOK /\ WalkInv /\ [BNext]_bvars
        => [\A t \in Tasks :
              bcast[t].on /\ ~bcast'[t].on /\ ~bcast[t].churn => bcast[t].todo = {}]_bvars
  BY <1>1
<1> QED BY WalkInvariant, <1>2, PTL DEF BSpec
=============================================================================
